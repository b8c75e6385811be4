-------------------- MODULE ConsistentMemoryAccessProofs --------------------
(***************************************************************************)
(* Theorems about ConsistentMemoryAccess for every set of operations, and  *)
(* whatever the delegate calls or executes once more.                      *)
(*                                                                         *)
(* The safety theorems hold for every outcome of the two undefined         *)
(* behaviours; the theorems that say that nothing is left behind need both *)
(* to be benign.                                                           *)
(***************************************************************************)
EXTENDS ConsistentMemoryAccess, TLAPS

-----------------------------------------------------------------------------
(* The inductive invariant.                                                *)

\* Operations whose bytes are marked, including those that never run.
Holding == {op \in Ops : pc[op] \in {"run", "selected", "reading", "read",
                                     "writing", "finish", "finishing", "lost"}}

HoldersDisjoint ==
  \A op1, op2 \in Holding : op1 # op2 => Span(op1) \cap Span(op2) \subseteq Exposed

HoldersMarked == \A op \in Holding : Span(op) \ Exposed \subseteq operationRunning

\* Entries stand at the bytes of their operation.  A stale entry may belong to
\* an operation that has been selected, but never to one yet to be accepted.
EntriesSound ==
  \A b \in Bytes, op \in Ops : <<b, op>> \in pendingOperations =>
    /\ b \in Span(op) /\ pc[op] \notin {"new", "submitting"}
    /\ Unsteady # {} => pc[op] = "pending"

\* Lists hold operations that wait to be run, or ones that have finished and
\* came back through a stale entry.
ListsSound ==
  \A call \in Calls, next \in Ops, b \in Bytes : <<b, next>> \in runnableOperations[call] =>
    pc[next] \in {"selected", "starting", "done"}

\* An operation that waits to be run is in one list, once.
ListsUnique ==
  \A call1, call2 \in Calls, next \in Ops, b1, b2 \in Bytes :
    /\ <<b1, next>> \in runnableOperations[call1]
    /\ <<b2, next>> \in runnableOperations[call2]
    /\ pc[next] = "selected"
    => call1 = call2 /\ b1 = b2

FinishedForgotten ==
  \A op \in Ops : pc[op] \in {"starting", "done"} => op \notin callbacks

\* A request is called back after it has been made, and a further call comes
\* after that.
AnswersFollow ==
  /\ \A request \in answered :
       pc[request[1]] \in {"writing", "finish", "finishing", "starting", "done"}
  /\ \A call \in Repeats :
       /\ pc[call] \in {"new", "read", "writing", "finish", "finishing", "starting", "done"}
       /\ pc[call] # "new" => RepeatedRequest(call) \in answered

IInv ==
  /\ TypeOK
  /\ HoldersDisjoint
  /\ HoldersMarked
  /\ EntriesSound
  /\ ListsSound
  /\ ListsUnique
  /\ FinishedForgotten
  /\ AnswersFollow

-----------------------------------------------------------------------------
(* Facts about the operations' bytes and about calls.                      *)

LEMMA SpanFacts ==
  ASSUME NEW op \in Ops
  PROVE  /\ Span(op) \subseteq Nat
         /\ Span(op) \subseteq Bytes
         /\ Address[op] \in Span(op)
  BY OpsAssumption DEF Span, Bytes

LEMMA BytesAreNumbers == Bytes \subseteq Nat
  BY SpanFacts DEF Bytes

LEMMA CallFacts ==
  /\ Ops \subseteq Calls /\ Repeats \subseteq Calls
  /\ \A call \in Calls : call \in Ops \/ call \in Repeats
  /\ \A call \in Repeats : call \notin Ops
  /\ \A call \in Calls : Op(call) \in Ops
  /\ \A op \in Ops : Op(op) = op
  /\ \A call \in Repeats : Op(call) = Repeated[call] /\ Repeated[call] \in Unsteady
  /\ NoOp \notin Calls
  BY OpsAssumption, DelegateAssumption DEF Calls, Op, Unsteady

LEMMA RepeatedFacts ==
  ASSUME NEW call \in Repeats
  PROVE  RepeatedRequest(call) \in Requests /\ RepeatedRequest(call)[1] = Op(call)
  BY CallFacts, DelegateAssumption DEF RepeatedRequest, Requests

-----------------------------------------------------------------------------
(* Type correctness.                                                       *)

LEMMA InitTypeOK == Init => TypeOK
  BY DEF Init, TypeOK, Positions

LEMMA AnsweredType ==
  ASSUME TypeOK, NEW request \in Requests,
         (Answered(request) /\ UNCHANGED succeeded) \/ Succeeded(request)
  PROVE  answered' \subseteq Requests /\ succeeded' \subseteq answered'
  BY DEF TypeOK, Answered, Succeeded

LEMMA NextTypeOK == TypeOK /\ [Next]_vars => TypeOK'
<1> SUFFICES ASSUME TypeOK, [Next]_vars PROVE TypeOK'
  OBVIOUS
<1> USE DEF TypeOK, Positions, queueVars, finishVars, deviceVars, answerVars
<1>1. ASSUME NEW op \in Ops, Submit(op) PROVE TypeOK'
  BY <1>1, CallFacts DEF Submit
<1>2. ASSUME NEW op \in Ops, Accept(op) PROVE TypeOK'
  <2>1. Span(op) \subseteq Bytes /\ Entries(op) \subseteq Bytes \X Ops
    BY SpanFacts DEF Entries
  <2>2. op \in Calls /\ {"run", "pending"} \subseteq Positions
    BY CallFacts DEF Positions
  <2>3. /\ operationRunning' \subseteq operationRunning \cup Span(op)
        /\ pendingOperations' \subseteq pendingOperations \cup Entries(op)
    BY <1>2 DEF Accept
  <2>4. pc' \in [Calls -> Positions]
    <3>1. pc' = [pc EXCEPT ![op] = "run"] \/ pc' = [pc EXCEPT ![op] = "pending"]
      BY <1>2 DEF Accept
    <3> QED BY <2>2, <3>1
  <2>5. mutex' \in Calls \cup {NoOp} /\ callbacks' \subseteq Ops
    BY <1>2 DEF Accept
  <2>6. UNCHANGED <<finishVars, outcome, deviceVars, answerVars>>
    BY <1>2 DEF Accept
  <2> QED BY <2>1, <2>3, <2>4, <2>5, <2>6
<1>3. ASSUME NEW op \in Ops, Run(op) \/ PerformRead(op) PROVE TypeOK'
  <2>1. FirstRequest(op) \in Requests /\ <<op, "read">> \in Requests
    BY DEF FirstRequest, Requests
  <2>2. CASE RunSubmitted(op)
    BY <2>2, CallFacts DEF RunSubmitted, Requested
  <2>3. CASE RejectSubmitted(op)
    <3>1. answered' \subseteq Requests /\ succeeded' \subseteq answered'
      BY <2>1, <2>3, AnsweredType DEF RejectSubmitted
    <3> QED BY <2>3, <3>1, CallFacts DEF RejectSubmitted
  <2>4. CASE ThrowSubmitted(op)
    BY <2>4, CallFacts DEF ThrowSubmitted
  <2>5. CASE PerformRead(op)
    BY <2>1, <2>5, CallFacts DEF PerformRead
  <2> QED BY <1>3, <2>2, <2>3, <2>4, <2>5 DEF Run
<1>4. ASSUME NEW call \in Calls, Answer(call) PROVE TypeOK'
  <2>1. Op(call) \in Ops /\ <<Op(call), "read">> \in Requests /\ <<Op(call), "write">> \in Requests
    BY CallFacts DEF Requests
  <2>2. CASE WriteUpdated(call)
    <3>1. answered' \subseteq Requests /\ succeeded' \subseteq answered'
      BY <2>1, <2>2, AnsweredType DEF WriteUpdated
    <3> QED BY <2>2, <3>1 DEF WriteUpdated
  <2>3. CASE UpdateThrows(call)
    <3>1. answered' \subseteq Requests /\ succeeded' \subseteq answered'
      BY <2>1, <2>3, AnsweredType DEF UpdateThrows
    <3> QED BY <2>3, <3>1 DEF UpdateThrows
  <2>4. CASE PerformWrite(call)
    <3>1. memory' \in [Bytes -> SUBSET Ops]
      BY <2>1, <2>4 DEF PerformWrite, Written, NewValue
    <3> QED BY <2>1, <2>4, <3>1 DEF PerformWrite
  <2>5. CASE Succeed(call)
    <3>1. answered' \subseteq Requests /\ succeeded' \subseteq answered'
      BY <2>1, <2>5, AnsweredType DEF Succeed
    <3> QED BY <2>5, <3>1 DEF Succeed
  <2>6. CASE Fail(call)
    <3>1. answered' \subseteq Requests /\ succeeded' \subseteq answered'
      BY <2>1, <2>6, AnsweredType, CallFacts DEF Fail
    <3> QED BY <2>6, <3>1 DEF Fail
  <2> QED BY <1>4, <2>2, <2>3, <2>4, <2>5, <2>6 DEF Answer
<1>5. ASSUME NEW call \in Calls, Finish(call) PROVE TypeOK'
  <2>1. CASE EnterFinished(call)
    BY <2>1 DEF EnterFinished
  <2>2. CASE OperationFinished(call)
    <3> DEFINE op == Op(call)
    <3>1. PICK pick \in Selections(op), freed \in FreedIds :
            /\ operationRunning' = (operationRunning \ Span(op))
                 \cup UNION {Span(q) : q \in {pick[b] : b \in {c \in Span(op) : pick[c] # NoOp}}}
            /\ pendingOperations' = pendingOperations
                 \ UNION {Removed(pick[b], b, freed) : b \in {c \in Span(op) : pick[c] # NoOp}}
            /\ runnableOperations' = [runnableOperations EXCEPT ![call] =
                 {<<b, pick[b]>> : b \in {c \in Span(op) : pick[c] # NoOp}}]
            /\ pc' = [o \in Calls |-> IF o = call THEN "starting"
                 ELSE IF o \in {pick[b] : b \in {c \in Span(op) : pick[c] # NoOp}}
                        /\ pc[o] = "pending" THEN "selected" ELSE pc[o]]
      BY <2>2 DEF OperationFinished
    <3>2. op \in Ops /\ \A b \in Span(op) : pick[b] # NoOp => pick[b] \in Ops
      BY <3>1, CallFacts DEF Selections
    <3>3. operationRunning' \subseteq Bytes
      BY <3>1, <3>2, SpanFacts
    <3>4. runnableOperations' \in [Calls -> SUBSET (Bytes \X Ops)]
      BY <3>1, <3>2, SpanFacts
    <3>5. pc' \in [Calls -> Positions] /\ pendingOperations' \subseteq Bytes \X Ops
      BY <3>1
    <3> QED BY <2>2, <3>3, <3>4, <3>5 DEF OperationFinished
  <2>3. CASE RunNext(call)
    BY <2>3, CallFacts DEF RunNext, Requested
  <2>4. CASE RejectNext(call)
    <3>1. PICK b \in Bytes, next \in Ops :
            /\ pc' = [pc EXCEPT ![next] = "finish"]
            /\ outcome' = [outcome EXCEPT ![next] = "failure"]
            /\ Answered(FirstRequest(next)) /\ UNCHANGED succeeded
            /\ nested' = [nested EXCEPT ![call] = next]
            /\ runnableOperations' = [runnableOperations EXCEPT ![call] = @ \ {<<b, next>>}]
            /\ UNCHANGED <<mutex, queueVars, deviceVars>>
      BY <2>4 DEF RejectNext
    <3>2. answered' \subseteq Requests /\ succeeded' \subseteq answered'
      BY <3>1, AnsweredType DEF FirstRequest, Requests
    <3> QED BY <3>1, <3>2, CallFacts
  <2>5. CASE ThrowNext(call)
    BY <2>5 DEF ThrowNext
  <2>6. CASE Notify(call)
    BY <2>6 DEF Notify
  <2> QED BY <1>5, <2>1, <2>2, <2>3, <2>4, <2>5, <2>6 DEF Finish
<1>6. ASSUME NEW call \in Repeats, RepeatFailure(call) \/ RepeatSuccess(call) PROVE TypeOK'
  <2>1. CASE RepeatFailure(call)
    BY <2>1, CallFacts DEF RepeatFailure
  <2>2. CASE RepeatSuccess(call)
    <3>1. answered' \subseteq Requests /\ succeeded' \subseteq answered'
      BY <2>2, AnsweredType, RepeatedFacts DEF RepeatSuccess
    <3> QED BY <2>2, <3>1, CallFacts DEF RepeatSuccess
  <2> QED BY <1>6, <2>1, <2>2
<1>7. ASSUME NEW op \in Late, ReadLate(op) \/ WriteLate(op) PROVE TypeOK'
  <2>1. op \in Ops /\ <<op, "read">> \in Requests /\ <<op, "write">> \in Requests
    BY DelegateAssumption DEF Requests
  <2>2. CASE ReadLate(op)
    BY <2>1, <2>2 DEF ReadLate
  <2>3. CASE WriteLate(op)
    <3>1. memory' \in [Bytes -> SUBSET Ops]
      BY <2>1, <2>3 DEF WriteLate, Written, NewValue
    <3> QED BY <2>1, <2>3, <3>1 DEF WriteLate
  <2> QED BY <1>7, <2>2, <2>3
<1>8. CASE UNCHANGED vars
  BY <1>8 DEF vars
<1> QED BY <1>1, <1>2, <1>3, <1>4, <1>5, <1>6, <1>7, <1>8 DEF Next, Step, Disturb

(***************************************************************************)
(* Every variable keeps its type.                                          *)
(***************************************************************************)
THEOREM TypeCorrect == Spec => []TypeOK
  BY InitTypeOK, NextTypeOK, PTL DEF Spec

-----------------------------------------------------------------------------
(* What operationFinished takes from the queue.                            *)

\* The critical section of operationFinished for one outcome of its choices.
Taken(op, pick) == {pick[b] : b \in {c \in Span(op) : pick[c] # NoOp}}

LEMMA SelectionFacts ==
  ASSUME NEW op \in Ops, NEW pick \in Selections(op)
  PROVE  /\ \A b \in Span(op) : pick[b] # NoOp =>
              /\ pick[b] \in {entry[2] : entry \in pendingOperations}
              /\ <<b, pick[b]>> \in pendingOperations
              /\ Span(pick[b]) \cap (operationRunning \ Span(op)) = {}
         /\ \A b1, b2 \in Span(op) :
              b1 # b2 /\ pick[b1] # NoOp /\ pick[b2] # NoOp =>
                Span(pick[b1]) \cap Span(pick[b2]) = {}
         /\ \A b \in Span(op), q \in Ops :
              pick[b] = NoOp /\ <<b, q>> \in pendingOperations =>
                \E c \in Span(q) : \/ c \in operationRunning \ Span(op)
                                  \/ \E t \in Taken(op, pick) : c \in Span(t)
<1>1. ASSUME NEW b \in Span(op), pick[b] # NoOp
      PROVE  /\ pick[b] \in {entry[2] : entry \in pendingOperations}
             /\ <<b, pick[b]>> \in pendingOperations
             /\ Span(pick[b]) \cap MarkedBefore(op, pick, b) = {}
  BY <1>1 DEF Selections, CanRunOperation
<1>2. ASSUME NEW b1 \in Span(op), NEW b2 \in Span(op), b1 < b2, pick[b1] # NoOp
      PROVE  Span(pick[b1]) \subseteq MarkedBefore(op, pick, b2)
  BY <1>2 DEF MarkedBefore
<1>3. ASSUME NEW b1 \in Span(op), NEW b2 \in Span(op), b1 # b2,
             pick[b1] # NoOp, pick[b2] # NoOp
      PROVE  Span(pick[b1]) \cap Span(pick[b2]) = {}
  <2>1. b1 < b2 \/ b2 < b1
    BY <1>3, SpanFacts
  <2> QED BY <1>1, <1>2, <1>3, <2>1
<1>4. \A b \in Span(op) : operationRunning \ Span(op) \subseteq MarkedBefore(op, pick, b)
  BY DEF MarkedBefore
<1>5. ASSUME NEW b \in Span(op), NEW q \in Ops, pick[b] = NoOp, <<b, q>> \in pendingOperations
      PROVE  \E c \in Span(q) : \/ c \in operationRunning \ Span(op)
                               \/ \E t \in Taken(op, pick) : c \in Span(t)
  <2>1. PICK c \in Span(q) : c \in MarkedBefore(op, pick, b)
    BY <1>5 DEF Selections, CanRunOperation
  <2> QED BY <2>1 DEF MarkedBefore, Taken
<1> QED BY <1>1, <1>3, <1>4, <1>5

LEMMA FinishedStep ==
  ASSUME NEW call \in Calls, TypeOK, EntriesSound, OperationFinished(call)
  PROVE  \E pick \in Selections(Op(call)), freed \in FreedIds :
           /\ \A b \in Span(Op(call)) : pick[b] # NoOp =>
                pick[b] \in Ops /\ b \in Span(pick[b])
           /\ operationRunning' = (operationRunning \ Span(Op(call)))
                                    \cup UNION {Span(q) : q \in Taken(Op(call), pick)}
           /\ pendingOperations' = pendingOperations
                \ UNION {Removed(pick[b], b, freed) : b \in {c \in Span(Op(call)) : pick[c] # NoOp}}
           /\ \A o \in Calls : o # call => runnableOperations'[o] = runnableOperations[o]
           /\ runnableOperations'[call] =
                {<<b, pick[b]>> : b \in {c \in Span(Op(call)) : pick[c] # NoOp}}
           /\ \A o \in Calls :
                pc'[o] = IF o = call THEN "starting"
                         ELSE IF o \in Taken(Op(call), pick) /\ pc[o] = "pending"
                           THEN "selected" ELSE pc[o]
<1> DEFINE op == Op(call)
<1>1. PICK pick \in Selections(op), freed \in FreedIds :
        /\ operationRunning' =
             (operationRunning \ Span(op)) \cup UNION {Span(q) : q \in Taken(op, pick)}
        /\ pendingOperations' = pendingOperations
             \ UNION {Removed(pick[b], b, freed) : b \in {c \in Span(op) : pick[c] # NoOp}}
        /\ runnableOperations' = [runnableOperations EXCEPT ![call] =
             {<<b, pick[b]>> : b \in {c \in Span(op) : pick[c] # NoOp}}]
        /\ pc' = [o \in Calls |-> IF o = call THEN "starting"
                                  ELSE IF o \in Taken(op, pick) /\ pc[o] = "pending"
                                    THEN "selected" ELSE pc[o]]
  BY DEF OperationFinished, Taken
<1>2. op \in Ops /\ \A b \in Span(op) : pick[b] # NoOp => <<b, pick[b]>> \in pendingOperations
  BY SelectionFacts, CallFacts
<1>3. \A b \in Span(op) : pick[b] # NoOp => pick[b] \in Ops /\ b \in Span(pick[b])
  BY <1>2, SpanFacts DEF TypeOK, EntriesSound
<1>4. \A o \in Calls : o # call => runnableOperations'[o] = runnableOperations[o]
  BY <1>1 DEF TypeOK
<1>5. runnableOperations'[call] = {<<b, pick[b]>> : b \in {c \in Span(op) : pick[c] # NoOp}}
  BY <1>1 DEF TypeOK
<1> QED BY <1>1, <1>3, <1>4, <1>5

-----------------------------------------------------------------------------
(* The inductive invariant is preserved.                                   *)

LEMMA InitIInv == Init => IInv
<1> SUFFICES ASSUME Init PROVE IInv
  OBVIOUS
<1>1. TypeOK
  BY InitTypeOK
<1>2. HoldersDisjoint /\ HoldersMarked
  BY CallFacts DEF Init, HoldersDisjoint, HoldersMarked, Holding
<1>3. EntriesSound /\ ListsSound /\ ListsUnique /\ FinishedForgotten
  BY CallFacts DEF Init, EntriesSound, ListsSound, ListsUnique, FinishedForgotten
<1>4. AnswersFollow
  BY CallFacts DEF Init, AnswersFollow
<1> QED BY <1>1, <1>2, <1>3, <1>4 DEF IInv

\* The operation that operationFinished runs next has been waiting for that.
LEMMA NextSelected ==
  ASSUME IInv, NEW call \in Calls, NEW b \in Bytes, NEW next \in Ops,
         IsNext(call, b, next), LookupFinds(next)
  PROVE  pc[next] = "selected" /\ pc[call] = "starting"
  BY DEF IInv, ListsSound, FinishedForgotten, IsNext, LookupFinds

\* How a step other than Accept and the critical section of operationFinished
\* moves an operation.
Moves(from, to) ==
  \/ to = from
  \/ from = "new" /\ to = "submitting"
  \/ from = "run" /\ to \in {"reading", "writing", "finish", "lost"}
  \/ from = "selected" /\ to \in {"reading", "writing", "finish", "lost"}
  \/ from = "reading" /\ to \in {"read", "finish"}
  \/ from = "read" /\ to \in {"writing", "finish"}
  \/ from = "writing" /\ to = "finish"
  \/ from = "finish" /\ to = "finishing"
  \/ from = "starting" /\ to = "done"

MovesRepeat(from, to) ==
  Moves(from, to) \/ (from = "new" /\ to \in {"read", "finish"})

\* The steps that leave the queue alone.
Calm == \/ \E op \in Ops : Submit(op) \/ Run(op) \/ PerformRead(op)
        \/ \E call \in Calls : \/ Answer(call) \/ EnterFinished(call) \/ Notify(call)
                               \/ RunNext(call) \/ RejectNext(call) \/ ThrowNext(call)
        \/ Disturb

LEMMA NextCases ==
  ASSUME Next
  PROVE  \/ Calm \/ (\E op \in Ops : Accept(op))
         \/ \E call \in Calls : OperationFinished(call)
  BY DEF Next, Step, Finish, Calm

LEMMA CalmSteps ==
  ASSUME IInv, Calm
  PROVE  /\ UNCHANGED <<operationRunning, pendingOperations, callbacks>>
         /\ \A op \in Ops : Moves(pc[op], pc'[op])
         /\ \A call \in Repeats : pc'[call] # "submitting" /\ MovesRepeat(pc[call], pc'[call])
         /\ \A call \in Calls : runnableOperations'[call] \subseteq runnableOperations[call]
         /\ \A call \in Calls, next \in Ops, b \in Bytes :
              <<b, next>> \in runnableOperations'[call] /\ pc'[next] # pc[next] =>
                pc[next] = "starting"
         /\ late \subseteq late'
<1> USE DEF IInv, queueVars, finishVars, deviceVars, answerVars
<1>1. TypeOK
  BY DEF IInv
<1>2. ASSUME NEW op \in Ops, Submit(op) \/ Run(op) \/ PerformRead(op)
      PROVE  /\ UNCHANGED <<operationRunning, pendingOperations, callbacks, runnableOperations, late>>
             /\ \A call \in Calls : call # op => pc'[call] = pc[call]
             /\ pc[op] \in {"new", "run", "reading"} /\ Moves(pc[op], pc'[op])
  <2>1. CASE Submit(op)
    BY <1>1, <2>1, CallFacts DEF Submit, TypeOK, Moves
  <2>2. CASE Run(op)
    BY <1>1, <2>2, CallFacts
       DEF Run, RunSubmitted, RejectSubmitted, ThrowSubmitted, Requested, TypeOK, Moves
  <2>3. CASE PerformRead(op)
    BY <1>1, <2>3, CallFacts DEF PerformRead, TypeOK, Moves
  <2> QED BY <1>2, <2>1, <2>2, <2>3
<1>3. ASSUME NEW call \in Calls, Answer(call) \/ EnterFinished(call) \/ Notify(call)
      PROVE  /\ UNCHANGED <<operationRunning, pendingOperations, callbacks, runnableOperations, late>>
             /\ \A o \in Calls : o # call => pc'[o] = pc[o]
             /\ Moves(pc[call], pc'[call]) /\ pc'[call] # "submitting"
             /\ pc[call] \in {"reading", "read", "writing", "finish", "starting"}
  <2>1. CASE Answer(call)
    <3>1. /\ UNCHANGED <<operationRunning, pendingOperations, callbacks, runnableOperations, late>>
          /\ pc[call] \in {"reading", "read", "writing"}
      BY <2>1 DEF Answer, WriteUpdated, UpdateThrows, PerformWrite, Succeed, Fail
    <3>2. /\ \A o \in Calls : o # call => pc'[o] = pc[o]
          /\ Moves(pc[call], pc'[call]) /\ pc'[call] # "submitting"
      BY <1>1, <2>1 DEF Answer, WriteUpdated, UpdateThrows, PerformWrite, Succeed, Fail,
                         TypeOK, Moves
    <3> QED BY <3>1, <3>2
  <2>2. CASE EnterFinished(call) \/ Notify(call)
    BY <1>1, <2>2 DEF EnterFinished, Notify, TypeOK, Moves
  <2> QED BY <1>3, <2>1, <2>2
<1>4. ASSUME NEW call \in Calls, NEW next \in Ops, NEW b \in Bytes,
             <<b, next>> \in runnableOperations[call], pc[next] = "selected",
             \A o \in Calls : o # next => pc'[o] = pc[o],
             pc'[next] \in {"reading", "writing", "finish"},
             runnableOperations' = [runnableOperations EXCEPT ![call] = @ \ {<<b, next>>}]
      PROVE  /\ \A op \in Ops : Moves(pc[op], pc'[op])
             /\ \A c \in Repeats : pc'[c] = pc[c]
             /\ \A o \in Calls : runnableOperations'[o] \subseteq runnableOperations[o]
             /\ ~\E o \in Calls, c \in Bytes : <<c, next>> \in runnableOperations'[o]
  <2>1. \A o \in Calls, c \in Bytes :
          <<c, next>> \in runnableOperations[o] => o = call /\ c = b
    BY <1>4 DEF ListsUnique
  <2>2. /\ <<b, next>> \notin runnableOperations'[call]
        /\ \A o \in Calls : runnableOperations'[o] \subseteq runnableOperations[o]
    BY <1>1, <1>4 DEF TypeOK
  <2>3. \A op \in Ops : Moves(pc[op], pc'[op])
    BY <1>4, CallFacts DEF Moves
  <2> QED BY <1>4, <2>1, <2>2, <2>3, CallFacts
<1>5. ASSUME NEW call \in Calls, RunNext(call) \/ RejectNext(call)
      PROVE  \E next \in Ops, b \in Bytes :
               /\ <<b, next>> \in runnableOperations[call] /\ pc[next] = "selected"
               /\ \A o \in Calls : o # next => pc'[o] = pc[o]
               /\ pc'[next] \in {"reading", "writing", "finish"}
               /\ runnableOperations' = [runnableOperations EXCEPT ![call] = @ \ {<<b, next>>}]
               /\ UNCHANGED <<operationRunning, pendingOperations, callbacks, late>>
  <2>1. PICK b \in Bytes, next \in Ops :
          /\ IsNext(call, b, next) /\ LookupFinds(next)
          /\ \/ pc' = [pc EXCEPT ![next] = Requested(next)]
             \/ pc' = [pc EXCEPT ![next] = "finish"]
          /\ runnableOperations' = [runnableOperations EXCEPT ![call] = @ \ {<<b, next>>}]
          /\ UNCHANGED <<operationRunning, pendingOperations, callbacks, late>>
    BY <1>5 DEF RunNext, RejectNext
  <2> QED BY <1>1, <2>1, NextSelected, CallFacts DEF IsNext, Requested, TypeOK
<1>6. ASSUME NEW call \in Calls, ThrowNext(call)
      PROVE  /\ UNCHANGED <<operationRunning, pendingOperations, callbacks, late>>
             /\ \A op \in Ops : Moves(pc[op], pc'[op])
             /\ \A c \in Repeats : pc'[c] = pc[c]
             /\ \A o \in Calls : runnableOperations'[o] \subseteq runnableOperations[o]
             /\ \A o \in Calls, next \in Ops, b \in Bytes :
                  <<b, next>> \in runnableOperations'[o] => pc'[next] = pc[next]
  <2>1. /\ \A o \in Calls : pc'[o] = pc[o] \/ (pc[o] = "selected" /\ pc'[o] = "lost"
             /\ \E c \in Bytes : <<c, o>> \in runnableOperations[call])
        /\ runnableOperations' = [runnableOperations EXCEPT ![call] = {}]
        /\ UNCHANGED <<operationRunning, pendingOperations, callbacks, late>>
    BY <1>1, <1>6 DEF ThrowNext, TypeOK
  <2>2. \A o \in Calls : /\ runnableOperations'[o] \subseteq runnableOperations[o]
                         /\ o = call => runnableOperations'[o] = {}
    BY <1>1, <2>1 DEF TypeOK
  <2>3. ASSUME NEW o \in Calls, NEW q \in Ops, NEW c \in Bytes,
               <<c, q>> \in runnableOperations'[o]
        PROVE  pc'[q] = pc[q]
    <3>1. o # call /\ <<c, q>> \in runnableOperations[o]
      BY <2>2, <2>3
    <3>2. pc[q] = "selected" => ~\E d \in Bytes : <<d, q>> \in runnableOperations[call]
      BY <3>1 DEF ListsUnique
    <3> QED BY <2>1, <3>2, CallFacts
  <2>4. \A op \in Ops : Moves(pc[op], pc'[op])
    BY <2>1, CallFacts DEF Moves
  <2>5. \A c \in Repeats : pc'[c] = pc[c]
    BY <2>1, CallFacts DEF AnswersFollow
  <2> QED BY <2>1, <2>2, <2>3, <2>4, <2>5
<1>7. ASSUME Disturb
      PROVE  /\ UNCHANGED <<operationRunning, pendingOperations, callbacks, runnableOperations>>
             /\ \A op \in Ops : pc'[op] = pc[op]
             /\ \A call \in Repeats : \/ pc'[call] = pc[call]
                                      \/ pc[call] = "new" /\ pc'[call] \in {"read", "finish"}
             /\ late \subseteq late'
  <2>1. ASSUME NEW call \in Repeats, RepeatFailure(call) \/ RepeatSuccess(call)
        PROVE  /\ UNCHANGED <<operationRunning, pendingOperations, callbacks, runnableOperations, late>>
               /\ \A o \in Calls : o # call => pc'[o] = pc[o]
               /\ pc[call] = "new" /\ pc'[call] \in {"read", "finish"}
    BY <1>1, <2>1, CallFacts DEF RepeatFailure, RepeatSuccess, TypeOK
  <2>2. ASSUME NEW op \in Late, ReadLate(op) \/ WriteLate(op)
        PROVE  /\ UNCHANGED <<operationRunning, pendingOperations, callbacks, runnableOperations, pc>>
               /\ late \subseteq late'
    BY <2>2 DEF ReadLate, WriteLate
  <2> QED BY <1>7, <2>1, <2>2, CallFacts DEF Disturb
<1>8. \A call \in Repeats : pc[call] \notin {"submitting", "selected", "run", "reading"}
  BY DEF AnswersFollow
<1>9. \A call \in Calls, next \in Ops, b \in Bytes :
        <<b, next>> \in runnableOperations[call] => pc[next] \in {"selected", "starting", "done"}
  BY DEF ListsSound
<1>10. CASE \E op \in Ops : Submit(op) \/ Run(op) \/ PerformRead(op)
  BY <1>2, <1>8, <1>9, <1>10, CallFacts DEF Moves, MovesRepeat
<1>11. CASE \E call \in Calls : Answer(call) \/ EnterFinished(call) \/ Notify(call)
  BY <1>3, <1>8, <1>9, <1>11, CallFacts DEF Moves, MovesRepeat
<1>12. CASE \E call \in Calls : RunNext(call) \/ RejectNext(call)
  <2>1. PICK call \in Calls : RunNext(call) \/ RejectNext(call)
    BY <1>12
  <2>2. PICK next \in Ops, b \in Bytes :
               /\ <<b, next>> \in runnableOperations[call] /\ pc[next] = "selected"
               /\ \A o \in Calls : o # next => pc'[o] = pc[o]
               /\ pc'[next] \in {"reading", "writing", "finish"}
               /\ runnableOperations' = [runnableOperations EXCEPT ![call] = @ \ {<<b, next>>}]
               /\ UNCHANGED <<operationRunning, pendingOperations, callbacks, late>>
    BY <1>5, <2>1
  <2>3. /\ \A op \in Ops : Moves(pc[op], pc'[op])
        /\ \A c \in Repeats : pc'[c] = pc[c]
        /\ \A o \in Calls : runnableOperations'[o] \subseteq runnableOperations[o]
        /\ ~\E o \in Calls, c \in Bytes : <<c, next>> \in runnableOperations'[o]
    BY <1>4, <2>2
  <2> QED BY <1>8, <2>2, <2>3, CallFacts DEF Moves, MovesRepeat
<1>13. CASE \E call \in Calls : ThrowNext(call)
  BY <1>6, <1>8, <1>13, CallFacts DEF Moves, MovesRepeat
<1>14. CASE Disturb
  BY <1>7, <1>8, <1>14, CallFacts DEF Moves, MovesRepeat
<1> QED BY <1>10, <1>11, <1>12, <1>13, <1>14 DEF Calm

\* A byte that has lost its protection does not get it back.
LEMMA ExposedGrows ==
  ASSUME IInv, [Next]_vars
  PROVE  Exposed \subseteq Exposed'
<1>1. \A call \in Repeats : pc[call] # "new" => pc'[call] # "new"
  <2>1. CASE Calm
    BY <2>1, CalmSteps DEF MovesRepeat, Moves
  <2>2. ASSUME NEW op \in Ops, Accept(op) PROVE \A call \in Repeats : pc'[call] = pc[call]
    BY <2>2, CallFacts DEF Accept, IInv, TypeOK
  <2>3. ASSUME NEW c \in Calls, OperationFinished(c)
        PROVE  \A call \in Repeats : pc'[call] = pc[call] \/ pc'[call] \in {"starting", "selected"}
    BY <2>3, FinishedStep, CallFacts DEF IInv
  <2>4. CASE UNCHANGED vars
    BY <2>4 DEF vars
  <2> QED BY <2>1, <2>2, <2>3, <2>4, NextCases
<1>2. late \subseteq late'
  <2>1. CASE Calm
    BY <2>1, CalmSteps
  <2>2. CASE (\E op \in Ops : Accept(op)) \/ (\E call \in Calls : OperationFinished(call))
    BY <2>2 DEF Accept, OperationFinished, deviceVars
  <2>3. CASE UNCHANGED vars
    BY <2>3 DEF vars
  <2> QED BY <2>1, <2>2, <2>3, NextCases
<1> QED BY <1>1, <1>2 DEF Exposed, Disturbed

\* What records that a request has been called back.
LEMMA NewAnswers ==
  ASSUME IInv, Next, NEW request \in answered', request \notin answered
  PROVE  /\ request \in Requests
         /\ pc'[request[1]] \in {"writing", "finish", "finishing", "starting", "done"}
<1> USE DEF IInv, queueVars, finishVars, deviceVars, answerVars
<1>1. TypeOK
  OBVIOUS
<1>2. ASSUME NEW op \in Ops, RejectSubmitted(op)
      PROVE  request \in Requests /\ pc'[request[1]] = "finish"
  BY <1>1, <1>2, CallFacts DEF RejectSubmitted, Answered, FirstRequest, Requests, TypeOK
<1>3. ASSUME NEW call \in Calls, RejectNext(call)
      PROVE  request \in Requests /\ pc'[request[1]] = "finish"
  <2>1. PICK next \in Ops : pc' = [pc EXCEPT ![next] = "finish"] /\ Answered(FirstRequest(next))
    BY <1>3 DEF RejectNext
  <2> QED BY <1>1, <2>1, CallFacts DEF Answered, FirstRequest, Requests, TypeOK
<1>4. ASSUME NEW call \in Calls, Answer(call)
      PROVE  /\ request \in Requests
             /\ pc'[request[1]] \in {"writing", "finish", "finishing", "starting", "done"}
  <2>1. /\ request[1] = Op(call) /\ request \in Requests
        /\ pc'[call] \in {"writing", "finish"}
    BY <1>1, <1>4, CallFacts
       DEF Answer, WriteUpdated, UpdateThrows, PerformWrite, Succeed, Fail, Answered, Succeeded,
           Requests, TypeOK
  <2>2. CASE call \in Ops
    BY <2>1, <2>2, CallFacts
  <2>3. CASE call \in Repeats
    <3>1. pc[call] # "new" /\ pc' = [pc EXCEPT ![call] = pc'[call]]
      BY <1>1, <1>4 DEF Answer, WriteUpdated, UpdateThrows, PerformWrite, Succeed, Fail, TypeOK
    <3>2. pc[Op(call)] \in {"writing", "finish", "finishing", "starting", "done"}
      BY <2>3, <3>1, RepeatedFacts DEF AnswersFollow
    <3>3. pc'[Op(call)] = pc[Op(call)]
      BY <1>1, <2>3, <3>1, CallFacts DEF TypeOK
    <3> QED BY <2>1, <3>2, <3>3
  <2> QED BY <2>2, <2>3, CallFacts
<1>5. ASSUME NEW call \in Repeats, RepeatSuccess(call)
      PROVE  FALSE
  BY <1>5, RepeatedFacts DEF RepeatSuccess, Succeeded, Answered
<1>6. \/ \E op \in Ops : RejectSubmitted(op)
      \/ \E call \in Calls : RejectNext(call) \/ Answer(call)
      \/ \E call \in Repeats : RepeatSuccess(call)
  <2>1. SUFFICES ASSUME \A op \in Ops : ~RejectSubmitted(op),
                        \A call \in Calls : ~RejectNext(call) /\ ~Answer(call),
                        \A call \in Repeats : ~RepeatSuccess(call)
                 PROVE  answered' = answered
    OBVIOUS
  <2>2. ASSUME NEW op \in Ops, Submit(op) \/ Accept(op) \/ Run(op) \/ PerformRead(op)
        PROVE  answered' = answered
    BY <2>1, <2>2 DEF Submit, Accept, Run, RunSubmitted, ThrowSubmitted, PerformRead
  <2>3. ASSUME NEW call \in Calls, Finish(call)
        PROVE  answered' = answered
    BY <2>1, <2>3 DEF Finish, EnterFinished, OperationFinished, RunNext, ThrowNext, Notify
  <2>4. CASE Disturb
    BY <2>1, <2>4 DEF Disturb, RepeatFailure, ReadLate, WriteLate
  <2> QED BY <2>1, <2>2, <2>3, <2>4 DEF Next, Step
<1> QED BY <1>2, <1>3, <1>4, <1>5, <1>6

LEMMA AnswersKept ==
  ASSUME IInv, Next
  PROVE  answered \subseteq answered'
<1> USE DEF queueVars, finishVars, deviceVars, answerVars
<1>1. ASSUME NEW op \in Ops, Submit(op) \/ Accept(op) \/ Run(op) \/ PerformRead(op)
      PROVE  answered \subseteq answered'
  BY <1>1 DEF Submit, Accept, Run, RunSubmitted, RejectSubmitted, ThrowSubmitted, PerformRead,
              Answered
<1>2. ASSUME NEW call \in Calls, Answer(call) \/ Finish(call)
      PROVE  answered \subseteq answered'
  BY <1>2 DEF Answer, WriteUpdated, UpdateThrows, PerformWrite, Succeed, Fail, Succeeded, Answered,
              Finish, EnterFinished, OperationFinished, RunNext, RejectNext, ThrowNext, Notify
<1>3. CASE Disturb
  BY <1>3 DEF Disturb, RepeatFailure, RepeatSuccess, ReadLate, WriteLate, Succeeded, Answered
<1> QED BY <1>1, <1>2, <1>3 DEF Next, Step

LEMMA NextAnswersFollow ==
  ASSUME IInv, Next
  PROVE  AnswersFollow'
<1> USE DEF IInv
<1> DEFINE After == {"writing", "finish", "finishing", "starting", "done"}
<1>1. \A request \in answered : request[1] \in Ops /\ pc[request[1]] \in After
  BY DEF TypeOK, Requests, AnswersFollow
<1>2. \A op \in Ops : pc[op] \in After => pc'[op] \in After
  <2>1. CASE Calm
    BY <2>1, CalmSteps DEF Moves
  <2>2. ASSUME NEW op \in Ops, Accept(op)
        PROVE  pc[op] = "submitting" /\ \A o \in Ops : o # op => pc'[o] = pc[o]
    BY <2>2, CallFacts DEF Accept, TypeOK
  <2>3. ASSUME NEW c \in Calls, OperationFinished(c)
        PROVE  \A o \in Ops : pc[o] \in After => pc'[o] \in After
    BY <2>3, FinishedStep, CallFacts
  <2> QED BY <2>1, <2>2, <2>3, NextCases
<1>3. \A request \in answered' : pc'[request[1]] \in After
  BY <1>1, <1>2, NewAnswers
<1>4. \A call \in Repeats :
        /\ pc'[call] \in {"new", "read", "writing", "finish", "finishing", "starting", "done"}
        /\ pc'[call] # "new" => RepeatedRequest(call) \in answered'
  <2> SUFFICES ASSUME NEW call \in Repeats
               PROVE  /\ pc'[call] \in {"new", "read"} \cup After
                      /\ pc'[call] # "new" => RepeatedRequest(call) \in answered'
    OBVIOUS
  <2>1. /\ pc[call] \in {"new", "read"} \cup After
        /\ pc[call] # "new" => RepeatedRequest(call) \in answered'
    BY AnswersKept DEF AnswersFollow
  <2>2. CASE pc'[call] = pc[call]
    BY <2>1, <2>2
  <2>3. ASSUME pc'[call] # pc[call], Calm
        PROVE  /\ pc'[call] \in {"new", "read"} \cup After
               /\ pc[call] = "new" => Disturb
    <3>1. pc'[call] # "submitting" /\ MovesRepeat(pc[call], pc'[call])
      BY <2>3, CalmSteps
    <3>2. pc'[call] \in {"new", "read"} \cup After
      BY <2>1, <3>1 DEF MovesRepeat, Moves
    <3>3. ASSUME NEW op \in Ops, Submit(op) \/ Run(op) \/ PerformRead(op) PROVE FALSE
      BY <2>3, <3>3, CallFacts DEF Submit, Run, RunSubmitted, RejectSubmitted, ThrowSubmitted,
                                   PerformRead, TypeOK
    <3>4. ASSUME NEW c \in Calls, RunNext(c) \/ RejectNext(c) \/ ThrowNext(c)
          PROVE  pc[call] # "new"
      BY <2>3, <3>4, CallFacts DEF RunNext, RejectNext, ThrowNext, TypeOK
    <3>5. ASSUME NEW c \in Calls, Answer(c) \/ EnterFinished(c) \/ Notify(c)
          PROVE  pc[call] # "new"
      <4>1. pc[c] # "new"
        BY <3>5 DEF Answer, WriteUpdated, UpdateThrows, PerformWrite, Succeed, Fail,
                    EnterFinished, Notify
      <4>2. \A o \in Calls : o # c => pc'[o] = pc[o]
        BY <3>5 DEF Answer, WriteUpdated, UpdateThrows, PerformWrite, Succeed, Fail,
                    EnterFinished, Notify, TypeOK
      <4> QED BY <2>3, <4>1, <4>2, CallFacts
    <3> QED BY <2>3, <3>2, <3>3, <3>4, <3>5 DEF Calm
  <2>4. ASSUME Disturb, pc'[call] # pc[call]
        PROVE  RepeatedRequest(call) \in answered
    BY <2>4, CallFacts DEF Disturb, RepeatFailure, RepeatSuccess, ReadLate, WriteLate, TypeOK
  <2>5. ASSUME NEW op \in Ops, Accept(op) PROVE pc'[call] = pc[call]
    BY <2>5, CallFacts DEF Accept, TypeOK
  <2>6. ASSUME NEW c \in Calls, OperationFinished(c), pc'[call] # pc[call]
        PROVE  pc[call] # "new" /\ pc'[call] = "starting"
    <3>1. pc[c] = "finishing"
      BY <2>6 DEF OperationFinished
    <3> QED BY <2>1, <2>6, <3>1, FinishedStep, CallFacts
  <2> QED BY <2>1, <2>2, <2>3, <2>4, <2>5, <2>6, AnswersKept, NextCases
<1> QED BY <1>3, <1>4 DEF AnswersFollow

\* A step that leaves the queue alone changes who holds bytes in no way.
LEMMA CalmIInv ==
  ASSUME IInv, Next, Calm
  PROVE  IInv'
<1> USE DEF IInv
<1>1. TypeOK' /\ AnswersFollow' /\ Exposed \subseteq Exposed'
  BY NextTypeOK, NextAnswersFollow, ExposedGrows
<1>2. /\ UNCHANGED <<operationRunning, pendingOperations, callbacks>>
      /\ \A op \in Ops : Moves(pc[op], pc'[op])
      /\ \A call \in Calls : runnableOperations'[call] \subseteq runnableOperations[call]
      /\ \A call \in Calls, next \in Ops, b \in Bytes :
           <<b, next>> \in runnableOperations'[call] /\ pc'[next] # pc[next] =>
             pc[next] = "starting"
  BY CalmSteps
<1>3. \A op \in Ops : op \in Holding' <=> op \in Holding
  BY <1>2 DEF Holding, Moves
<1>4. HoldersDisjoint' /\ HoldersMarked'
  BY <1>1, <1>2, <1>3 DEF HoldersDisjoint, HoldersMarked, Holding
<1>5. \A op \in Ops : /\ pc[op] \notin {"new", "submitting"} => pc'[op] \notin {"new", "submitting"}
                      /\ pc[op] = "pending" => pc'[op] = "pending"
                      /\ pc'[op] = "selected" => pc[op] = "selected"
                      /\ pc'[op] \in {"starting", "done"} => pc[op] \in {"starting", "done"}
  BY <1>2 DEF Moves
<1>6. EntriesSound' /\ FinishedForgotten'
  BY <1>2, <1>5 DEF EntriesSound, FinishedForgotten
<1>7. ListsSound'
  BY <1>2 DEF ListsSound, Moves
<1>8. ListsUnique'
  BY <1>2, <1>5 DEF ListsUnique
<1> QED BY <1>1, <1>4, <1>6, <1>7, <1>8

LEMMA AcceptIInv ==
  ASSUME IInv, Next, NEW op \in Ops, Accept(op)
  PROVE  IInv'
<1> USE DEF IInv
<1>1. TypeOK' /\ AnswersFollow' /\ Exposed \subseteq Exposed'
  BY NextTypeOK, NextAnswersFollow, ExposedGrows
<1>2. \A o \in Ops : o # op => pc'[o] = pc[o]
  BY CallFacts DEF Accept, TypeOK
<1>3. pc[op] = "submitting" /\ pc'[op] \in {"run", "pending"}
  BY CallFacts DEF Accept, TypeOK
<1>4. operationRunning \subseteq operationRunning'
  BY DEF Accept
<1>5. pc'[op] = "run" =>
        /\ Span(op) \cap operationRunning = {}
        /\ operationRunning' = operationRunning \cup Span(op)
  BY CallFacts DEF Accept, TypeOK, CanRunOperation
<1>6. \A o \in Holding' : (o \in Holding /\ o # op) \/ (o = op /\ pc'[op] = "run")
  BY <1>2, <1>3 DEF Holding
<1>7. HoldersMarked'
  BY <1>1, <1>4, <1>5, <1>6 DEF HoldersMarked
<1>8. HoldersDisjoint'
  BY <1>1, <1>5, <1>6 DEF HoldersDisjoint, HoldersMarked
<1>9. \A b \in Bytes, q \in Ops :
        <<b, q>> \in pendingOperations' =>
          <<b, q>> \in pendingOperations \/ (q = op /\ b \in Span(q) /\ pc'[q] = "pending")
  BY CallFacts DEF Accept, Entries, TypeOK
<1>10. EntriesSound'
  BY <1>2, <1>3, <1>9 DEF EntriesSound
<1>11. runnableOperations' = runnableOperations /\ callbacks' = callbacks \cup {op}
  BY DEF Accept, finishVars
<1>12. ListsSound' /\ ListsUnique' /\ FinishedForgotten'
  BY <1>2, <1>3, <1>11 DEF ListsSound, ListsUnique, FinishedForgotten
<1> QED BY <1>1, <1>7, <1>8, <1>10, <1>12

\* With a steady delegate there are no further calls and no byte is exposed.
LEMMA SteadyDelegate ==
  ASSUME TypeOK, Unsteady = {}
  PROVE  Repeats = {} /\ Exposed = {}
<1>1. Repeats = {} /\ Late = {}
  BY DEF Unsteady
<1>2. late = {}
  BY <1>1 DEF TypeOK
<1> QED BY <1>1, <1>2 DEF Exposed, Disturbed

\* Otherwise, the entries of an operation that is taken are removed at once.
LEMMA UnsteadyDelegate ==
  ASSUME Unsteady # {}, NEW freed \in FreedIds
  PROVE  freed = "intact"
<1>1. Repeats # {} \/ Late # {}
  BY DEF Unsteady
<1> QED BY <1>1, CombinationAssumption, UndefinedBehaviourAssumption

LEMMA FinishedIInv ==
  ASSUME IInv, Next, NEW call \in Calls, OperationFinished(call)
  PROVE  IInv'
<1> USE DEF IInv
<1> DEFINE op == Op(call)
<1>1. TypeOK' /\ AnswersFollow' /\ Exposed \subseteq Exposed'
  BY NextTypeOK, NextAnswersFollow, ExposedGrows
<1>2. PICK pick \in Selections(op), freed \in FreedIds :
        /\ \A b \in Span(op) : pick[b] # NoOp =>
             pick[b] \in Ops /\ b \in Span(pick[b])
        /\ operationRunning' =
             (operationRunning \ Span(op)) \cup UNION {Span(q) : q \in Taken(op, pick)}
        /\ pendingOperations' = pendingOperations
             \ UNION {Removed(pick[b], b, freed) : b \in {c \in Span(op) : pick[c] # NoOp}}
        /\ \A o \in Calls : o # call => runnableOperations'[o] = runnableOperations[o]
        /\ runnableOperations'[call] =
             {<<b, pick[b]>> : b \in {c \in Span(op) : pick[c] # NoOp}}
        /\ \A o \in Calls :
             pc'[o] = IF o = call THEN "starting"
                      ELSE IF o \in Taken(op, pick) /\ pc[o] = "pending"
                        THEN "selected" ELSE pc[o]
  BY FinishedStep
<1>3. pc[call] = "finishing" /\ callbacks' = callbacks \ {op} /\ op \in Ops /\ Ops \subseteq Calls
  BY CallFacts DEF OperationFinished
<1>4. \/ call \in Ops /\ op = call /\ op \in Holding
      \/ call \notin Ops /\ call \in Repeats /\ Span(op) \subseteq Exposed
  <2>1. CASE call \in Ops
    BY <1>3, <2>1, CallFacts DEF Holding
  <2>2. CASE call \in Repeats
    <3>1. call \notin Ops /\ op = Repeated[call]
      BY <2>2, CallFacts
    <3> QED BY <1>3, <2>2, <3>1 DEF Exposed, Disturbed
  <2> QED BY <2>1, <2>2, CallFacts
\* A holder keeps its bytes marked, save the exposed ones, and is not taken.
<1>5. ASSUME NEW o \in Holding, o # call
      PROVE  /\ Span(o) \ Exposed \subseteq operationRunning \ Span(op)
             /\ \A b \in Span(op) : pick[b] # NoOp =>
                  Span(pick[b]) \cap Span(o) \subseteq Exposed /\ pick[b] # o
  <2>1. Span(o) \ Exposed \subseteq operationRunning \ Span(op)
    BY <1>4, <1>5 DEF HoldersMarked, HoldersDisjoint
  <2>2. \A b \in Span(op) : pick[b] # NoOp => Span(pick[b]) \cap Span(o) \subseteq Exposed
    <3>1. \A b \in Span(op) : pick[b] # NoOp =>
            Span(pick[b]) \cap (operationRunning \ Span(op)) = {}
      BY <1>3, SelectionFacts
    <3> HIDE DEF op
    <3> QED BY <2>1, <3>1
  <2>3. CASE Unsteady = {}
    <3>1. Exposed = {} /\ Address[o] \in Span(o)
      BY <2>3, SteadyDelegate, SpanFacts DEF Holding
    <3> QED BY <2>1, <2>2, <3>1
  <2>4. CASE Unsteady # {}
    <3>1. ASSUME NEW b \in Span(op), pick[b] # NoOp PROVE pc[pick[b]] = "pending"
      <4>1. <<b, pick[b]>> \in pendingOperations /\ pick[b] \in Ops /\ b \in Bytes
        BY <1>2, <1>3, <3>1, SelectionFacts, SpanFacts
      <4> QED BY <2>4, <4>1 DEF EntriesSound
    <3> QED BY <2>1, <2>2, <3>1 DEF Holding
  <2> QED BY <2>3, <2>4
<1>6. \A o \in Holding' : o # call /\ (o \in Holding \/ (pc[o] = "pending" /\ o \in Taken(op, pick)))
  BY <1>2, <1>3 DEF Holding
<1>7. HoldersMarked'
  <2>1. SUFFICES ASSUME NEW o \in Holding' PROVE Span(o) \ Exposed' \subseteq operationRunning'
    BY DEF HoldersMarked
  <2>2. CASE o \in Holding
    BY <1>1, <1>2, <1>5, <1>6, <2>2
  <2>3. CASE o \in Taken(op, pick)
    BY <1>2, <2>3
  <2> QED BY <1>6, <2>2, <2>3
<1>8. HoldersDisjoint'
  <2>1. SUFFICES ASSUME NEW o1 \in Holding', NEW o2 \in Holding', o1 # o2
                 PROVE  Span(o1) \cap Span(o2) \subseteq Exposed
    BY <1>1 DEF HoldersDisjoint
  <2>2. CASE o1 \in Holding /\ o2 \in Holding
    BY <2>1, <2>2 DEF HoldersDisjoint
  <2>3. CASE o1 \in Holding /\ o2 \in Taken(op, pick)
    BY <1>5, <1>6, <2>3 DEF Taken
  <2>4. CASE o1 \in Taken(op, pick) /\ o2 \in Holding
    BY <1>5, <1>6, <2>4 DEF Taken
  <2>5. CASE o1 \in Taken(op, pick) /\ o2 \in Taken(op, pick)
    BY <1>3, <2>1, <2>5, SelectionFacts DEF Taken
  <2> QED BY <1>6, <2>2, <2>3, <2>4, <2>5
<1>9. EntriesSound'
  <2>1. SUFFICES ASSUME NEW b \in Bytes, NEW q \in Ops, <<b, q>> \in pendingOperations'
                 PROVE  /\ b \in Span(q) /\ pc'[q] \notin {"new", "submitting"}
                        /\ Unsteady # {} => pc'[q] = "pending"
    BY DEF EntriesSound
  <2>2. <<b, q>> \in pendingOperations /\ b \in Span(q) /\ pc[q] \notin {"new", "submitting"}
    BY <1>2, <2>1 DEF EntriesSound
  <2>3. ASSUME Unsteady # {} PROVE pc'[q] = "pending"
    <3>1. pc[q] = "pending" /\ q # call
      BY <1>3, <2>2, <2>3 DEF EntriesSound
    <3>2. q \notin Taken(op, pick)
      <4>1. SUFFICES ASSUME NEW c \in Span(op), pick[c] # NoOp, pick[c] = q PROVE FALSE
        BY DEF Taken
      <4>2. <<b, q>> \in Removed(pick[c], c, freed)
        BY <2>2, <2>3, <4>1, UnsteadyDelegate DEF Removed
      <4> QED BY <1>2, <2>1, <4>1, <4>2
    <3> QED BY <1>2, <1>3, <3>1, <3>2
  <2> QED BY <1>2, <1>3, <2>2, <2>3
<1>10. FinishedForgotten'
  BY <1>2, <1>3, <1>4 DEF FinishedForgotten
\* What is taken is an operation that nobody else is going to run.
<1>11. \A b \in Span(op) : pick[b] # NoOp =>
         pc[pick[b]] \in {"pending", "starting", "done"} \/ pick[b] = call
  <2>1. \A b \in Span(op) : pick[b] # NoOp => pc[pick[b]] \notin {"new", "submitting"}
    BY <1>2, <1>3, SelectionFacts, SpanFacts DEF EntriesSound
  <2> QED BY <1>2, <1>3, <1>5, <2>1 DEF Holding, TypeOK, Positions
<1>12. ListsSound'
  <2>1. ASSUME NEW b \in Span(op), pick[b] # NoOp
        PROVE  pc'[pick[b]] \in {"selected", "starting", "done"}
    BY <1>2, <1>3, <1>11, <2>1 DEF Taken
  <2> QED BY <1>2, <1>3, <2>1 DEF ListsSound
<1>13. ListsUnique'
  <2>1. ASSUME NEW b1 \in Span(op), NEW b2 \in Span(op),
               pick[b1] # NoOp, pick[b1] = pick[b2]
        PROVE  b1 = b2
    BY <1>2, <1>3, <2>1, SelectionFacts
  <2>2. ASSUME NEW b \in Span(op), pick[b] # NoOp, NEW o \in Calls, o # call, NEW c \in Bytes,
               <<c, pick[b]>> \in runnableOperations[o]
        PROVE  pc'[pick[b]] # "selected"
    BY <1>2, <1>3, <1>11, <2>2 DEF ListsSound
  <2>3. \A q \in Ops : q \in Taken(op, pick) \/ (pc'[q] = "selected" => pc[q] = "selected")
    BY <1>2, <1>3
  <2> SUFFICES ASSUME NEW o1 \in Calls, NEW o2 \in Calls, NEW q \in Ops,
                      NEW b1 \in Bytes, NEW b2 \in Bytes,
                      <<b1, q>> \in runnableOperations'[o1],
                      <<b2, q>> \in runnableOperations'[o2],
                      pc'[q] = "selected"
               PROVE  o1 = o2 /\ b1 = b2
    BY DEF ListsUnique
  <2>4. CASE o1 = call /\ o2 = call
    BY <1>2, <2>1, <2>4
  <2>5. CASE o1 = call /\ o2 # call
    BY <1>2, <2>2, <2>5
  <2>6. CASE o1 # call /\ o2 = call
    BY <1>2, <2>2, <2>6
  <2>7. CASE o1 # call /\ o2 # call
    <3>1. <<b1, q>> \in runnableOperations[o1] /\ <<b2, q>> \in runnableOperations[o2]
      BY <1>2, <2>7
    <3>2. q \notin Taken(op, pick)
      BY <2>2, <2>7, <3>1 DEF Taken
    <3> QED BY <2>3, <3>1, <3>2 DEF ListsUnique
  <2> QED BY <2>4, <2>5, <2>6, <2>7
<1> QED BY <1>1, <1>7, <1>8, <1>9, <1>10, <1>12, <1>13

LEMMA NextIInv == IInv /\ [Next]_vars => IInv'
<1>1. IInv /\ UNCHANGED vars => IInv'
  BY DEF IInv, vars, TypeOK, HoldersDisjoint, HoldersMarked, Holding, EntriesSound, Exposed,
         Disturbed, ListsSound, ListsUnique, FinishedForgotten, AnswersFollow
<1>2. IInv /\ Next => IInv'
  BY NextCases, CalmIInv, AcceptIInv, FinishedIInv
<1> QED BY <1>1, <1>2

THEOREM InductiveInvariant == Spec => []IInv
  BY InitIInv, NextIInv, PTL DEF Spec

(***************************************************************************)
(* Operations that touch a common byte never run at the same time, save on *)
(* the bytes of operations whose callback has been called once more.       *)
(***************************************************************************)
THEOREM MutualExclusionHolds == Spec => []MutualExclusion
<1>1. IInv => MutualExclusion
  BY DEF IInv, HoldersDisjoint, Holding, MutualExclusion, Active
<1> QED BY <1>1, InductiveInvariant, PTL

-----------------------------------------------------------------------------
(* Updates are atomic.                                                     *)

LEMMA InitUpdateAtomic == Init => UpdateAtomic
  BY CallFacts DEF Init, UpdateAtomic

\* What a write of the device may change of what UpdateAtomic sees: nothing.
LEMMA WriteSpares ==
  ASSUME IInv, UpdateAtomic, Exposed \subseteq Exposed', NEW op \in Ops,
         \/ op \in Holding /\ pc[op] = "writing" /\ <<op, "write">> \notin performed
         \/ Span(op) \subseteq Exposed',
         memory' = Written(op), performed' = performed \cup {<<op, "write">>},
         UNCHANGED <<pc, snapshot>>
  PROVE  UpdateAtomic'
<1>1. \A b \in Bytes : b \notin Span(op) => memory'[b] = memory[b]
  BY DEF Written
<1>2. SUFFICES ASSUME NEW o \in Ops, Kind[o] = "update",
                      pc[o] = "read" \/ (pc[o] = "writing" /\ <<o, "write">> \notin performed'),
                      NEW b \in Span(o) \ Exposed'
               PROVE  memory'[b] = snapshot'[o][b]
  BY DEF UpdateAtomic
<1>3. /\ o \in Holding /\ b \in Span(o) \ Exposed /\ b \in Bytes
      /\ pc[o] = "read" \/ (pc[o] = "writing" /\ <<o, "write">> \notin performed)
  BY <1>2, SpanFacts DEF Holding
<1>4. b \notin Span(op)
  BY <1>2, <1>3 DEF IInv, HoldersDisjoint
<1> QED BY <1>1, <1>2, <1>3, <1>4 DEF UpdateAtomic

\* What a read of the device stores is what is there.
LEMMA ReadSees ==
  ASSUME TypeOK, UpdateAtomic, Exposed \subseteq Exposed', NEW op \in Ops,
         snapshot' = [snapshot EXCEPT ![op] =
                       [b \in Bytes |-> IF b \in Span(op) THEN memory[b] ELSE {}]],
         performed' = performed \cup {<<op, "read">>}, UNCHANGED memory,
         \A o \in Ops : o # op => pc'[o] = pc[o]
  PROVE  UpdateAtomic'
<1>1. /\ \A o \in Ops : o # op => snapshot'[o] = snapshot[o]
      /\ \A b \in Span(op) : snapshot'[op][b] = memory[b]
  BY SpanFacts DEF TypeOK
<1>2. \A o \in Ops : <<o, "write">> \in performed => <<o, "write">> \in performed'
  OBVIOUS
<1> QED BY <1>1, <1>2 DEF UpdateAtomic

LEMMA NextUpdateAtomic == IInv /\ UpdateAtomic /\ [Next]_vars => UpdateAtomic'
<1> SUFFICES ASSUME IInv, UpdateAtomic, [Next]_vars PROVE UpdateAtomic'
  OBVIOUS
<1> DEFINE Between(op) == pc[op] = "read" \/ (pc[op] = "writing" /\ <<op, "write">> \notin performed)
<1> USE DEF queueVars, deviceVars
<1>1. TypeOK /\ Exposed \subseteq Exposed'
  BY ExposedGrows DEF IInv
\* Nothing but a read and a write of the device changes what UpdateAtomic sees.
<1>2. ASSUME UNCHANGED <<memory, snapshot, performed>>,
             \A op \in Ops : Kind[op] = "update" /\ Between(op)' => Between(op)
      PROVE  UpdateAtomic'
  BY <1>1, <1>2 DEF UpdateAtomic
<1>3. ASSUME NEW op \in Ops, Submit(op) \/ Accept(op) \/ Run(op)
      PROVE  UpdateAtomic'
  <2>1. UNCHANGED <<memory, snapshot, performed>>
    BY <1>3 DEF Submit, Accept, Run, RunSubmitted, RejectSubmitted, ThrowSubmitted
  <2>2. \A o \in Ops : pc'[o] \in {pc[o], Requested(o), "submitting", "pending", "run", "finish", "lost"}
    BY <1>1, <1>3, CallFacts DEF Submit, Accept, Run, RunSubmitted, RejectSubmitted, ThrowSubmitted, TypeOK
  <2> QED BY <1>2, <2>1, <2>2 DEF Requested
<1>4. ASSUME NEW op \in Ops, PerformRead(op)
      PROVE  UpdateAtomic'
  BY <1>1, <1>4, ReadSees, CallFacts DEF PerformRead, TypeOK
<1>5. ASSUME NEW call \in Calls, Answer(call)
      PROVE  UpdateAtomic'
  <2>1. CASE PerformWrite(call)
    <3>1. call \in Ops => Op(call) = call /\ call \in Holding /\ pc[call] = "writing"
      BY <2>1, CallFacts DEF PerformWrite, Holding
    <3>2. call \in Repeats => Span(Op(call)) \subseteq Exposed
      <4>1. pc[call] = "writing"
        BY <2>1 DEF PerformWrite
      <4> QED BY <4>1, CallFacts DEF Exposed, Disturbed
    <3> QED BY <1>1, <2>1, <3>1, <3>2, WriteSpares, CallFacts DEF PerformWrite
  <2>2. CASE WriteUpdated(call) \/ UpdateThrows(call) \/ Succeed(call) \/ Fail(call)
    <3>1. UNCHANGED <<memory, snapshot, performed>>
      BY <2>2 DEF WriteUpdated, UpdateThrows, Succeed, Fail
    <3>2. \A o \in Ops : Between(o)' => Between(o)
      <4>1. \A o \in Ops : \/ pc'[o] = pc[o] \/ pc'[o] = "finish"
                           \/ pc[o] = "read" /\ pc'[o] = "writing"
        BY <1>1, <2>2, CallFacts DEF WriteUpdated, UpdateThrows, Succeed, Fail, TypeOK
      <4> QED BY <3>1, <4>1
    <3> QED BY <1>2, <3>1, <3>2
  <2> QED BY <1>5, <2>1, <2>2 DEF Answer
<1>6. ASSUME NEW call \in Calls, Finish(call)
      PROVE  UpdateAtomic'
  <2>1. UNCHANGED <<memory, snapshot, performed>>
    BY <1>6 DEF Finish, EnterFinished, OperationFinished, RunNext, RejectNext, ThrowNext, Notify
  <2>2. \A o \in Ops : pc'[o] \in {pc[o], Requested(o), "selected", "starting", "finish",
                                   "finishing", "lost", "done"}
    <3>1. CASE EnterFinished(call) \/ Notify(call)
      BY <1>1, <3>1, CallFacts DEF EnterFinished, Notify, TypeOK
    <3>2. CASE OperationFinished(call)
      BY <1>1, <3>2, FinishedStep, CallFacts DEF IInv
    <3>3. CASE RunNext(call)
      BY <1>1, <3>3, CallFacts DEF RunNext, TypeOK
    <3>4. CASE RejectNext(call)
      BY <1>1, <3>4, CallFacts DEF RejectNext, TypeOK
    <3>5. CASE ThrowNext(call)
      BY <1>1, <3>5, CallFacts DEF ThrowNext, TypeOK
    <3> QED BY <1>6, <3>1, <3>2, <3>3, <3>4, <3>5 DEF Finish
  <2> QED BY <1>2, <2>1, <2>2 DEF Requested
<1>7. ASSUME NEW call \in Repeats, RepeatFailure(call) \/ RepeatSuccess(call)
      PROVE  UpdateAtomic'
  <2>1. UNCHANGED <<memory, snapshot, performed>> /\ \A o \in Ops : pc'[o] = pc[o]
    BY <1>1, <1>7, CallFacts DEF RepeatFailure, RepeatSuccess, TypeOK
  <2> QED BY <1>2, <2>1
<1>8. ASSUME NEW op \in Late, ReadLate(op) \/ WriteLate(op)
      PROVE  UpdateAtomic'
  <2>1. op \in Ops
    BY DelegateAssumption
  <2>2. CASE ReadLate(op)
    BY <1>1, <2>1, <2>2, ReadSees DEF ReadLate
  <2>3. CASE WriteLate(op)
    <3>1. Span(op) \subseteq Exposed'
      BY <2>3 DEF WriteLate, Exposed, Disturbed
    <3> QED BY <1>1, <2>1, <2>3, <3>1, WriteSpares DEF WriteLate
  <2> QED BY <1>8, <2>2, <2>3
<1>9. CASE UNCHANGED vars
  BY <1>2, <1>9 DEF vars
<1> QED BY <1>3, <1>4, <1>5, <1>6, <1>7, <1>8, <1>9 DEF Next, Step, Disturb

(***************************************************************************)
(* What an update has read is still there when its write is executed, on   *)
(* every byte that has not lost its protection.                            *)
(***************************************************************************)
THEOREM UpdateAtomicHolds == Spec => []UpdateAtomic
  BY InitUpdateAtomic, NextUpdateAtomic, InductiveInvariant, PTL DEF Spec

-----------------------------------------------------------------------------
(* Nothing is left behind, if the undefined behaviours are benign.         *)

Benign == FreedIds = {"intact"} /\ RacyLookups = {"found"}

\* The entries are those of the waiting operations, at each of their bytes.
QueueExact ==
  \A op \in Ops, b \in Bytes :
    <<b, op>> \in pendingOperations <=> pc[op] = "pending" /\ b \in Span(op)

ListsExact ==
  \A call \in Calls, next \in Ops, b \in Bytes :
    <<b, next>> \in runnableOperations[call] => pc[next] = "selected"

\* What is waiting to be run has a callback, and nothing is given up.
NothingLost ==
  \A op \in Ops : /\ pc[op] # "lost"
                  /\ pc[op] \in {"pending", "run", "selected"} => op \in callbacks

\* A waiting operation touches a byte that is marked.
WaitsForMarked ==
  \A op \in Ops : pc[op] = "pending" => Span(op) \cap operationRunning # {}

BenignInv ==
  /\ IInv
  /\ QueueExact
  /\ ListsExact
  /\ NothingLost
  /\ NoStrandedMark
  /\ WaitsForMarked

LEMMA InitBenignInv == Init => BenignInv
  BY InitIInv, CallFacts DEF Init, BenignInv, QueueExact, ListsExact, NothingLost, NoStrandedMark,
                             WaitsForMarked

LEMMA LookupsSucceed ==
  ASSUME Benign, BenignInv
  PROVE  /\ \A op \in Ops : pc[op] = "run" => ~LookupThrows(op)
         /\ \A call \in Calls, b \in Bytes, next \in Ops :
              IsNext(call, b, next) => ~LookupThrows(next)
  BY DEF Benign, BenignInv, NothingLost, ListsExact, LookupThrows, IsNext

\* No operation is given up.
LEMMA NoneLost ==
  ASSUME Benign, BenignInv, Calm, NEW op \in Ops
  PROVE  pc'[op] # "lost"
<1>1. TypeOK /\ pc[op] # "lost" /\ op \in Calls
  BY CallFacts DEF BenignInv, IInv, NothingLost
<1>2. ASSUME NEW o \in Ops, Submit(o) \/ Run(o) \/ PerformRead(o) PROVE pc'[op] # "lost"
  <2>1. ~ThrowSubmitted(o)
    BY LookupsSucceed DEF ThrowSubmitted
  <2> QED BY <1>1, <1>2, <2>1, CallFacts
          DEF Submit, Run, RunSubmitted, RejectSubmitted, PerformRead, Requested, TypeOK
<1>3. ASSUME NEW c \in Calls, Answer(c) \/ EnterFinished(c) \/ Notify(c) PROVE pc'[op] # "lost"
  BY <1>1, <1>3 DEF Answer, WriteUpdated, UpdateThrows, PerformWrite, Succeed, Fail,
                    EnterFinished, Notify, TypeOK
<1>4. ASSUME NEW c \in Calls, RunNext(c) \/ RejectNext(c) PROVE pc'[op] # "lost"
  <2>1. PICK next \in Ops : pc' = [pc EXCEPT ![next] = Requested(next)]
                            \/ pc' = [pc EXCEPT ![next] = "finish"]
    BY <1>4 DEF RunNext, RejectNext
  <2> QED BY <1>1, <2>1 DEF Requested, TypeOK
<1>5. ASSUME NEW c \in Calls, ThrowNext(c) PROVE FALSE
  BY <1>5, LookupsSucceed DEF ThrowNext
<1>6. CASE Disturb
  <2>1. ASSUME NEW call \in Repeats, RepeatFailure(call) \/ RepeatSuccess(call)
        PROVE  pc'[op] = pc[op]
    BY <1>1, <2>1, CallFacts DEF RepeatFailure, RepeatSuccess, TypeOK
  <2> QED BY <1>1, <1>6, <2>1 DEF Disturb, ReadLate, WriteLate
<1> QED BY <1>2, <1>3, <1>4, <1>5, <1>6 DEF Calm

\* Steps that neither change the queue nor who is active.
LEMMA CalmBenignInv ==
  ASSUME Benign, BenignInv, IInv', Calm
  PROVE  BenignInv'
<1> USE DEF BenignInv
<1>1. /\ UNCHANGED <<operationRunning, pendingOperations, callbacks>>
      /\ \A op \in Ops : Moves(pc[op], pc'[op]) /\ pc'[op] # "lost"
      /\ \A call \in Calls : runnableOperations'[call] \subseteq runnableOperations[call]
      /\ \A call \in Calls, next \in Ops, b \in Bytes :
           <<b, next>> \in runnableOperations'[call] /\ pc'[next] # pc[next] =>
             pc[next] = "starting"
  BY CalmSteps, NoneLost
<1>2. \A op \in Ops : /\ pc'[op] = "pending" <=> pc[op] = "pending"
                      /\ pc'[op] \in {"pending", "run", "selected"} => pc'[op] = pc[op]
                      /\ op \in Active' <=> op \in Active
  BY <1>1 DEF Moves, Active
<1>3. QueueExact' /\ WaitsForMarked'
  BY <1>1, <1>2 DEF QueueExact, WaitsForMarked
<1>4. NoStrandedMark'
  <2>1. Active' = Active
    BY <1>2 DEF Active
  <2> QED BY <1>1, <2>1 DEF NoStrandedMark
<1>5. ListsExact'
  BY <1>1 DEF ListsExact
<1>6. NothingLost'
  BY <1>1, <1>2 DEF NothingLost
<1> QED BY <1>3, <1>4, <1>5, <1>6

LEMMA AcceptBenignInv ==
  ASSUME NEW op \in Ops, BenignInv, IInv', Accept(op)
  PROVE  BenignInv'
<1> USE DEF BenignInv
<1>1. /\ TypeOK /\ pc[op] = "submitting" /\ callbacks' = callbacks \cup {op}
      /\ runnableOperations' = runnableOperations
      /\ \A o \in Ops : o # op => pc'[o] = pc[o]
      /\ op \in Calls
  BY CallFacts DEF Accept, TypeOK, IInv, finishVars
<1>2. ListsExact'
  BY <1>1 DEF ListsExact
<1>3. CASE CanRunOperation(op, operationRunning)
  <2>1. /\ operationRunning' = operationRunning \cup Span(op)
        /\ pc'[op] = "run" /\ pendingOperations' = pendingOperations
    BY <1>1, <1>3 DEF Accept, TypeOK
  <2>2. Active' = Active \cup {op}
    BY <1>1, <2>1 DEF Active
  <2>3. NothingLost' /\ QueueExact'
    BY <1>1, <2>1 DEF NothingLost, QueueExact
  <2>4. NoStrandedMark' /\ WaitsForMarked'
    BY <1>1, <2>1, <2>2 DEF NoStrandedMark, WaitsForMarked
  <2> QED BY <1>2, <2>3, <2>4
<1>4. CASE ~CanRunOperation(op, operationRunning)
  <2>1. /\ UNCHANGED operationRunning
        /\ pc'[op] = "pending" /\ pendingOperations' = pendingOperations \cup Entries(op)
    BY <1>1, <1>4 DEF Accept, TypeOK
  <2>2. Active' = Active
    BY <1>1, <2>1 DEF Active
  <2>3. NothingLost'
    BY <1>1, <2>1 DEF NothingLost
  <2>4. QueueExact'
    BY <1>1, <2>1 DEF QueueExact, Entries
  <2>5. NoStrandedMark'
    BY <2>1, <2>2 DEF NoStrandedMark
  <2>6. WaitsForMarked'
    BY <1>1, <1>4, <2>1 DEF WaitsForMarked, CanRunOperation
  <2> QED BY <1>2, <2>3, <2>4, <2>5, <2>6
<1> QED BY <1>3, <1>4

LEMMA FinishedBenignInv ==
  ASSUME Benign, NEW call \in Calls, BenignInv, IInv', OperationFinished(call)
  PROVE  BenignInv'
<1> USE DEF BenignInv, IInv
<1> DEFINE op == Op(call)
<1>1. PICK pick \in Selections(op), freed \in FreedIds :
        /\ \A b \in Span(op) : pick[b] # NoOp =>
             pick[b] \in Ops /\ b \in Span(pick[b])
        /\ operationRunning' =
             (operationRunning \ Span(op)) \cup UNION {Span(q) : q \in Taken(op, pick)}
        /\ pendingOperations' = pendingOperations
             \ UNION {Removed(pick[b], b, freed) : b \in {c \in Span(op) : pick[c] # NoOp}}
        /\ \A o \in Calls : o # call => runnableOperations'[o] = runnableOperations[o]
        /\ runnableOperations'[call] =
             {<<b, pick[b]>> : b \in {c \in Span(op) : pick[c] # NoOp}}
        /\ \A o \in Calls :
             pc'[o] = IF o = call THEN "starting"
                      ELSE IF o \in Taken(op, pick) /\ pc[o] = "pending"
                        THEN "selected" ELSE pc[o]
  BY FinishedStep
<1>2. /\ pc[call] = "finishing" /\ callbacks' = callbacks \ {op}
      /\ op \in Ops /\ Ops \subseteq Calls
      /\ call \in Ops => op = call
  BY CallFacts DEF OperationFinished
\* The operation is not waiting, however often its callbacks are called.
<1>3. pc[op] \in {"writing", "finish", "finishing", "starting", "done"}
  <2>1. CASE call \in Ops
    BY <1>2, <2>1
  <2>2. CASE call \in Repeats
    BY <1>2, <2>2, RepeatedFacts DEF AnswersFollow
  <2> QED BY <2>1, <2>2, CallFacts
<1> HIDE DEF op
<1>4. \A t \in Taken(op, pick) : t \in Ops /\ pc[t] = "pending" /\ t # op /\ t # call
  <2>1. ASSUME NEW b \in Span(op), pick[b] # NoOp
        PROVE  <<b, pick[b]>> \in pendingOperations /\ pick[b] \in Ops /\ b \in Bytes
    BY <1>1, <1>2, <2>1, SelectionFacts, SpanFacts
  <2>2. ASSUME NEW t \in Taken(op, pick) PROVE t \in Ops /\ pc[t] = "pending"
    <3>1. PICK b \in Span(op) : pick[b] # NoOp /\ t = pick[b]
      BY <2>2 DEF Taken
    <3>2. <<b, t>> \in pendingOperations /\ t \in Ops /\ b \in Bytes
      BY <2>1, <3>1
    <3> QED BY <3>2 DEF QueueExact
  <2> QED BY <1>2, <1>3, <2>2
<1>5. /\ \A o \in Active : o # call => o \in Active'
      /\ Taken(op, pick) \subseteq Active'
  BY <1>1, <1>2, <1>4 DEF Active
<1>6. ListsExact'
  BY <1>1, <1>2, <1>4 DEF ListsExact, Taken
<1>7. NothingLost'
  BY <1>1, <1>2, <1>3, <1>4 DEF NothingLost
<1>8. QueueExact'
  <2>1. \A o \in Ops, b \in Bytes :
          <<b, o>> \in pendingOperations' <=>
            <<b, o>> \in pendingOperations /\ ~(o \in Taken(op, pick) /\ b \in Span(o))
    BY <1>1 DEF Removed, Taken, Benign
  <2> QED BY <1>1, <1>2, <1>4, <2>1 DEF QueueExact
<1>9. NoStrandedMark'
  <2>1. SUFFICES ASSUME NEW c \in operationRunning' PROVE \E o \in Active' : c \in Span(o)
    BY DEF NoStrandedMark
  <2>2. CASE c \in operationRunning \ Span(op)
    <3>1. PICK o \in Active : c \in Span(o)
      BY <2>2 DEF NoStrandedMark
    <3> QED BY <1>2, <1>5, <2>2, <3>1 DEF Active
  <2>3. CASE \E t \in Taken(op, pick) : c \in Span(t)
    BY <1>5, <2>3
  <2> QED BY <1>1, <2>1, <2>2, <2>3
<1>10. WaitsForMarked'
  <2>1. SUFFICES ASSUME NEW o \in Ops, pc'[o] = "pending"
                 PROVE  Span(o) \cap operationRunning' # {}
    BY DEF WaitsForMarked
  <2>2. pc[o] = "pending"
    BY <1>1, <1>2, <2>1
  <2>3. PICK b \in Span(o) : b \in operationRunning
    BY <2>2 DEF WaitsForMarked
  <2>4. CASE b \notin Span(op)
    BY <1>1, <2>3, <2>4
  <2>5. CASE b \in Span(op)
    <3>1. <<b, o>> \in pendingOperations
      BY <2>2, <2>3, SpanFacts DEF QueueExact
    <3>2. CASE pick[b] # NoOp
      BY <1>1, <2>3, <2>5, <3>2 DEF Taken
    <3>3. CASE pick[b] = NoOp
      BY <1>1, <1>2, <2>5, <3>1, <3>3, SelectionFacts
    <3> QED BY <3>2, <3>3
  <2> QED BY <2>4, <2>5
<1> QED BY <1>6, <1>7, <1>8, <1>9, <1>10

LEMMA NextBenignInv == Benign /\ BenignInv /\ [Next]_vars => BenignInv'
<1> SUFFICES ASSUME Benign, BenignInv, [Next]_vars PROVE BenignInv'
  OBVIOUS
<1>1. IInv'
  BY NextIInv DEF BenignInv
<1>2. CASE Next
  BY <1>1, <1>2, NextCases, CalmBenignInv, AcceptBenignInv, FinishedBenignInv
<1>3. CASE UNCHANGED vars
  BY <1>1, <1>3 DEF vars, BenignInv, QueueExact, ListsExact, NothingLost, NoStrandedMark,
                    Active, WaitsForMarked
<1> QED BY <1>2, <1>3

LEMMA BenignInvariant ==
  ASSUME Benign
  PROVE  Spec => []BenignInv
<1>1. BenignInv /\ [Next]_vars => BenignInv'
  BY NextBenignInv
<1> QED BY <1>1, InitBenignInv, PTL DEF Spec

(***************************************************************************)
(* An operation that waits touches a marked byte of one that is active,    *)
(* whose end will make operationFinished look at it, and no byte stays     *)
(* blocked, whatever a delegate calls or executes once more.               *)
(***************************************************************************)
THEOREM NoLostWakeupHolds ==
  ASSUME Benign
  PROVE  Spec => [](NoLostWakeup /\ NoStrandedMark)
<1>1. BenignInv => NoLostWakeup /\ NoStrandedMark
  <2> SUFFICES ASSUME BenignInv PROVE NoLostWakeup /\ NoStrandedMark
    OBVIOUS
  <2>1. NoStrandedMark
    BY DEF BenignInv
  <2>2. ASSUME NEW op \in Ops, pc[op] = "pending"
        PROVE  /\ Entries(op) \subseteq pendingOperations
               /\ \E other \in Active : Span(op) \cap Span(other) \cap operationRunning # {}
    <3>1. Entries(op) \subseteq pendingOperations
      BY <2>2, SpanFacts DEF BenignInv, QueueExact, Entries
    <3>2. PICK b \in Span(op) : b \in operationRunning
      BY <2>2 DEF BenignInv, WaitsForMarked
    <3>3. PICK other \in Active : b \in Span(other)
      BY <2>1, <3>2 DEF NoStrandedMark
    <3> QED BY <3>1, <3>2, <3>3
  <2> QED BY <2>1, <2>2 DEF NoLostWakeup
<1> QED BY <1>1, BenignInvariant, PTL

(***************************************************************************)
(* runOperation, called from operationFinished, always finds the callback, *)
(* provided that the id of the erased entry can still be read.             *)
(***************************************************************************)
THEOREM FinishedDoesNotThrowHolds ==
  ASSUME Benign
  PROVE  Spec => []FinishedDoesNotThrow
<1>1. BenignInv => FinishedDoesNotThrow
  BY LookupsSucceed DEF FinishedDoesNotThrow
<1> QED BY <1>1, BenignInvariant, PTL

-----------------------------------------------------------------------------
(* Every step is a step of AtomicRegisters or leaves its state alone.      *)

LEMMA SteadyFacts ==
  /\ \A op \in Steady : op \in Ops /\ op \in Calls /\ Op(op) = op /\ op \notin Late
  /\ \A call \in Calls : Op(call) \in Steady => Op(call) = call
  /\ \A op \in Ops : op \notin Steady => Span(op) \cap SafeBytes = {}
  /\ \A call \in Repeats : call \notin Steady /\ Op(call) \notin Steady
  /\ SafeBytes \subseteq Bytes
  BY CallFacts DEF Steady, SafeBytes, Unsteady

LEMMA SafeNotExposed ==
  ASSUME TypeOK
  PROVE  SafeBytes \cap Exposed = {}
  BY CallFacts, DelegateAssumption DEF TypeOK, SafeBytes, Exposed, Disturbed, Unsteady

\* A success is reported only for a write that was executed.
OutcomeSound ==
  \A op \in Steady :
    /\ <<op, "write">> \in performed =>
         pc[op] \in {"writing", "finish", "finishing", "starting", "done"}
    /\ pc[op] \in {"finish", "finishing", "starting"} =>
         \/ outcome[op] = "failure"
         \/ outcome[op] = "success" /\ <<op, "write">> \in performed

LEMMA InitOutcomeSound == Init => OutcomeSound
  BY SteadyFacts DEF Init, OutcomeSound

LEMMA NextOutcomeSound == IInv /\ OutcomeSound /\ [Next]_vars => OutcomeSound'
<1> SUFFICES ASSUME IInv, OutcomeSound, [Next]_vars PROVE OutcomeSound'
  OBVIOUS
<1> USE DEF deviceVars
<1>1. TypeOK
  BY DEF IInv
<1>2. ASSUME NEW op \in Ops, Submit(op) \/ Accept(op) PROVE OutcomeSound'
  BY <1>1, <1>2, SteadyFacts DEF Submit, Accept, TypeOK, OutcomeSound
<1>3. ASSUME NEW op \in Ops, Run(op) PROVE OutcomeSound'
  <2>1. /\ pc[op] = "run" /\ UNCHANGED performed
        /\ \A o \in Calls : o # op => pc'[o] = pc[o] /\ outcome'[o] = outcome[o]
        /\ \/ pc'[op] \in {"reading", "writing", "lost"}
           \/ pc'[op] = "finish" /\ outcome'[op] = "failure"
    BY <1>1, <1>3, CallFacts DEF Run, RunSubmitted, RejectSubmitted, ThrowSubmitted, Requested,
                                 TypeOK
  <2> QED BY <2>1, SteadyFacts DEF OutcomeSound
<1>4. ASSUME NEW op \in Ops, PerformRead(op) PROVE OutcomeSound'
  <2>1. /\ pc[op] = "reading" /\ pc'[op] = "read" /\ UNCHANGED outcome
        /\ \A o \in Calls : o # op => pc'[o] = pc[o]
        /\ \A o \in Steady : <<o, "write">> \in performed' <=> <<o, "write">> \in performed
    BY <1>1, <1>4, CallFacts DEF PerformRead, TypeOK
  <2> QED BY <2>1, SteadyFacts DEF OutcomeSound
<1>5. ASSUME NEW call \in Calls, Answer(call) PROVE OutcomeSound'
  <2>1. CASE PerformWrite(call)
    BY <1>1, <2>1, SteadyFacts DEF PerformWrite, TypeOK, OutcomeSound
  <2>2. CASE WriteUpdated(call) \/ UpdateThrows(call) \/ Fail(call)
    BY <1>1, <2>2, SteadyFacts DEF WriteUpdated, UpdateThrows, Fail, TypeOK, OutcomeSound
  <2>3. CASE Succeed(call)
    BY <1>1, <2>3, SteadyFacts DEF Succeed, TypeOK, OutcomeSound
  <2> QED BY <1>5, <2>1, <2>2, <2>3 DEF Answer
<1>6. ASSUME NEW call \in Calls, Finish(call) PROVE OutcomeSound'
  <2>1. CASE EnterFinished(call) \/ Notify(call)
    BY <1>1, <2>1, SteadyFacts DEF EnterFinished, Notify, TypeOK, OutcomeSound
  <2>2. CASE OperationFinished(call)
    <3>1. /\ UNCHANGED <<outcome, performed>> /\ pc[call] = "finishing" /\ pc'[call] = "starting"
          /\ \A o \in Calls : o # call =>
               pc'[o] = pc[o] \/ (pc[o] = "pending" /\ pc'[o] = "selected")
      BY <1>1, <2>2, FinishedStep DEF IInv, OperationFinished
    <3> QED BY <3>1, SteadyFacts DEF OutcomeSound
  <2>3. CASE RunNext(call) \/ RejectNext(call)
    <3>1. PICK b \in Bytes, next \in Ops :
            /\ IsNext(call, b, next) /\ LookupFinds(next)
            /\ \/ pc' = [pc EXCEPT ![next] = Requested(next)] /\ UNCHANGED outcome
               \/ /\ pc' = [pc EXCEPT ![next] = "finish"]
                  /\ outcome' = [outcome EXCEPT ![next] = "failure"]
            /\ performed' = performed
      BY <2>3 DEF RunNext, RejectNext
    <3>2. pc[next] = "selected"
      BY <3>1, NextSelected
    <3> QED BY <1>1, <3>1, <3>2, SteadyFacts DEF Requested, TypeOK, OutcomeSound
  <2>4. CASE ThrowNext(call)
    <3>1. /\ UNCHANGED <<outcome, performed>>
          /\ \A o \in Calls : pc'[o] = pc[o] \/ (pc[o] = "selected" /\ pc'[o] = "lost")
      BY <1>1, <2>4 DEF ThrowNext, TypeOK
    <3> QED BY <3>1, SteadyFacts DEF OutcomeSound
  <2> QED BY <1>6, <2>1, <2>2, <2>3, <2>4 DEF Finish
<1>7. ASSUME NEW call \in Repeats, RepeatFailure(call) \/ RepeatSuccess(call) PROVE OutcomeSound'
  <2>1. /\ UNCHANGED performed
        /\ \A o \in Calls : o # call => pc'[o] = pc[o] /\ outcome'[o] = outcome[o]
    BY <1>1, <1>7, CallFacts DEF RepeatFailure, RepeatSuccess, TypeOK
  <2> QED BY <2>1, SteadyFacts DEF OutcomeSound
<1>8. ASSUME NEW op \in Late, ReadLate(op) \/ WriteLate(op) PROVE OutcomeSound'
  <2>1. op \notin Steady
    BY SteadyFacts
  <2>2. /\ UNCHANGED <<pc, outcome>>
        /\ \A o \in Steady : <<o, "write">> \in performed' <=> <<o, "write">> \in performed
    BY <1>8, <2>1 DEF ReadLate, WriteLate
  <2> QED BY <2>2 DEF OutcomeSound
<1>9. CASE UNCHANGED vars
  BY <1>9 DEF vars, OutcomeSound
<1> QED BY <1>2, <1>3, <1>4, <1>5, <1>6, <1>7, <1>8, <1>9 DEF Next, Step, Disturb

AbstractOutcome == [op \in Steady |-> IF pc[op] = "done" THEN outcome[op] ELSE "none"]
AbstractMemory == [b \in SafeBytes |-> memory[b]]

\* A step that AtomicRegisters does not see.
LEMMA HiddenStep ==
  ASSUME \A op \in Steady :
           /\ pc'[op] = "done" <=> pc[op] = "done"
           /\ pc'[op] \in {"new", "submitting"} <=> pc[op] \in {"new", "submitting"}
           /\ pc[op] = "done" => outcome'[op] = outcome[op]
           /\ <<op, "write">> \in performed' <=> <<op, "write">> \in performed,
         \A b \in SafeBytes : memory'[b] = memory[b]
  PROVE  UNCHANGED Abstract!vars
<1>1. AbstractState' = AbstractState
  BY DEF AbstractState
<1>2. AbstractOutcome' = AbstractOutcome
  BY DEF AbstractOutcome
<1>3. AbstractMemory' = AbstractMemory
  BY DEF AbstractMemory
<1> QED BY <1>1, <1>2, <1>3 DEF Abstract!vars, AbstractOutcome, AbstractMemory

\* The execution of a write.
LEMMA WriteRefines ==
  ASSUME TypeOK, UpdateAtomic, NEW call \in Calls, PerformWrite(call)
  PROVE  Abstract!Next \/ UNCHANGED Abstract!vars
<1> USE DEF deviceVars
<1>1. /\ pc[call] = "writing" /\ <<Op(call), "write">> \notin performed
      /\ memory' = Written(Op(call))
      /\ performed' = performed \cup {<<Op(call), "write">>}
      /\ UNCHANGED <<pc, outcome>>
  BY DEF PerformWrite
<1>2. CASE Op(call) \in Steady
  <2>1. PICK op \in Steady : op = Op(call) /\ op = call
    BY <1>2, SteadyFacts
  <2>2. AbstractState[op] = "open" /\ AbstractState' = [AbstractState EXCEPT ![op] = "applied"]
    BY <1>1, <2>1 DEF AbstractState
  <2>3. AbstractOutcome' = AbstractOutcome
    BY <1>1 DEF AbstractOutcome
  <2>4. \A b \in Span(op) \cap SafeBytes :
          NewValue(op, b) = (IF Kind[op] = "write" THEN {} ELSE memory[b]) \cup {op}
    BY <1>1, <2>1, SafeNotExposed, SteadyFacts, OpsAssumption DEF UpdateAtomic, NewValue
  <2>5. AbstractMemory' =
          [b \in SafeBytes |->
             IF b \in Span(op)
               THEN (IF Kind[op] = "write" THEN {} ELSE AbstractMemory[b]) \cup {op}
               ELSE AbstractMemory[b]]
    BY <1>1, <2>1, <2>4, SteadyFacts DEF AbstractMemory, Written
  <2>6. Abstract!Apply(op)
    BY <2>2, <2>3, <2>5 DEF Abstract!Apply, AbstractOutcome, AbstractMemory
  <2> QED BY <2>6 DEF Abstract!Next
<1>3. CASE Op(call) \notin Steady
  <2>1. \A b \in SafeBytes : memory'[b] = memory[b]
    BY <1>1, <1>3, SteadyFacts, CallFacts DEF Written
  <2>2. \A o \in Steady : <<o, "write">> \in performed' <=> <<o, "write">> \in performed
    BY <1>1, <1>3
  <2> QED BY <1>1, <2>1, <2>2, HiddenStep
<1> QED BY <1>2, <1>3

\* The call of the caller's callback.
LEMMA NotifyRefines ==
  ASSUME TypeOK, OutcomeSound, NEW call \in Calls, Notify(call)
  PROVE  Abstract!Next \/ UNCHANGED Abstract!vars
<1> USE DEF deviceVars
<1>1. /\ pc[call] = "starting" /\ pc' = [pc EXCEPT ![call] = "done"]
      /\ UNCHANGED <<outcome, memory, performed>>
  BY DEF Notify
<1>2. CASE call \notin Steady
  BY <1>1, <1>2, HiddenStep, SteadyFacts DEF TypeOK
<1>3. CASE call \in Steady
  <2>1. AbstractState' = [AbstractState EXCEPT ![call] = "done"]
    BY <1>1, <1>3, SteadyFacts DEF AbstractState, TypeOK
  <2>2. AbstractOutcome' = [AbstractOutcome EXCEPT ![call] = outcome[call]]
    BY <1>1, <1>3, SteadyFacts DEF AbstractOutcome, TypeOK
  <2>3. AbstractMemory' = AbstractMemory
    BY <1>1 DEF AbstractMemory
  <2>4. CASE outcome[call] = "success" /\ <<call, "write">> \in performed
    <3>1. AbstractState[call] = "applied"
      BY <1>1, <1>3, <2>4 DEF AbstractState
    <3>2. Abstract!Succeed(call)
      BY <2>1, <2>2, <2>3, <2>4, <3>1 DEF Abstract!Succeed, AbstractOutcome, AbstractMemory
    <3> QED BY <1>3, <3>2 DEF Abstract!Next
  <2>5. CASE outcome[call] = "failure"
    <3>1. AbstractState[call] \in {"open", "applied"}
      BY <1>1, <1>3 DEF AbstractState
    <3>2. Abstract!Fail(call)
      BY <2>1, <2>2, <2>3, <2>5, <3>1 DEF Abstract!Fail, AbstractOutcome, AbstractMemory
    <3> QED BY <1>3, <3>2 DEF Abstract!Next
  <2> QED BY <1>1, <1>3, <2>4, <2>5 DEF OutcomeSound
<1> QED BY <1>2, <1>3

LEMMA StepRefines ==
  IInv /\ UpdateAtomic /\ OutcomeSound /\ [Next]_vars => [Abstract!Next]_(Abstract!vars)
<1> SUFFICES ASSUME IInv, UpdateAtomic, OutcomeSound, [Next]_vars
             PROVE  Abstract!Next \/ UNCHANGED Abstract!vars
  OBVIOUS
<1> USE DEF deviceVars
<1>1. TypeOK
  BY DEF IInv
<1>2. ASSUME NEW op \in Ops, Submit(op) PROVE UNCHANGED Abstract!vars
  BY <1>1, <1>2, HiddenStep, SteadyFacts DEF Submit, TypeOK
<1>3. ASSUME NEW op \in Ops, Accept(op) PROVE Abstract!Next \/ UNCHANGED Abstract!vars
  <2>1. /\ pc[op] = "submitting" /\ pc'[op] \in {"run", "pending"}
        /\ \A o \in Calls : o # op => pc'[o] = pc[o]
        /\ UNCHANGED <<memory, performed, outcome>>
    BY <1>1, <1>3, CallFacts DEF Accept, TypeOK
  <2>2. CASE op \notin Steady
    BY <2>1, <2>2, HiddenStep, SteadyFacts
  <2>3. CASE op \in Steady
    <3>1. <<op, "write">> \notin performed
      BY <2>1, <2>3 DEF OutcomeSound
    <3>2. AbstractState[op] = "new" /\ AbstractState' = [AbstractState EXCEPT ![op] = "open"]
      BY <2>1, <2>3, <3>1, SteadyFacts DEF AbstractState
    <3>3. AbstractOutcome' = AbstractOutcome /\ AbstractMemory' = AbstractMemory
      BY <2>1, SteadyFacts DEF AbstractOutcome, AbstractMemory
    <3>4. Abstract!Submit(op)
      BY <3>2, <3>3 DEF Abstract!Submit, AbstractOutcome, AbstractMemory
    <3> QED BY <2>3, <3>4 DEF Abstract!Next
  <2> QED BY <2>2, <2>3
<1>4. ASSUME NEW op \in Ops, Run(op) \/ PerformRead(op) PROVE UNCHANGED Abstract!vars
  <2>1. /\ pc[op] \in {"run", "reading"} /\ pc'[op] \in {"reading", "read", "writing", "finish", "lost"}
        /\ UNCHANGED memory
        /\ \A o \in Calls : o # op => pc'[o] = pc[o] /\ outcome'[o] = outcome[o]
    BY <1>1, <1>4, CallFacts DEF Run, RunSubmitted, RejectSubmitted, ThrowSubmitted, PerformRead,
                                 Requested, TypeOK
  <2>2. \A o \in Steady : <<o, "write">> \in performed' <=> <<o, "write">> \in performed
    BY <1>4 DEF Run, RunSubmitted, RejectSubmitted, ThrowSubmitted, PerformRead
  <2> QED BY <2>1, <2>2, HiddenStep, SteadyFacts
<1>5. ASSUME NEW call \in Calls, Answer(call) PROVE Abstract!Next \/ UNCHANGED Abstract!vars
  <2>1. CASE WriteUpdated(call) \/ UpdateThrows(call) \/ Succeed(call) \/ Fail(call)
    <3>1. /\ pc[call] \in {"reading", "read", "writing"} /\ pc'[call] \in {"writing", "finish"}
          /\ UNCHANGED <<memory, performed>>
          /\ \A o \in Calls : o # call => pc'[o] = pc[o] /\ outcome'[o] = outcome[o]
      BY <1>1, <2>1 DEF WriteUpdated, UpdateThrows, Succeed, Fail, TypeOK
    <3> QED BY <3>1, HiddenStep, SteadyFacts
  <2> QED BY <1>1, <1>5, <2>1, WriteRefines DEF Answer
<1>6. ASSUME NEW call \in Calls, Finish(call) PROVE Abstract!Next \/ UNCHANGED Abstract!vars
  <2>1. CASE EnterFinished(call)
    BY <1>1, <2>1, HiddenStep, SteadyFacts DEF EnterFinished, TypeOK
  <2>2. CASE OperationFinished(call)
    <3>1. /\ UNCHANGED <<memory, outcome, performed>>
          /\ pc[call] = "finishing" /\ pc'[call] = "starting"
          /\ \A o \in Calls : o # call =>
               pc'[o] = pc[o] \/ (pc[o] = "pending" /\ pc'[o] = "selected")
      BY <1>1, <2>2, FinishedStep DEF IInv, OperationFinished
    <3> QED BY <3>1, HiddenStep, SteadyFacts
  <2>3. CASE RunNext(call) \/ RejectNext(call)
    <3>1. PICK b \in Bytes, next \in Ops :
            /\ IsNext(call, b, next) /\ LookupFinds(next)
            /\ \/ pc' = [pc EXCEPT ![next] = Requested(next)] /\ UNCHANGED outcome
               \/ /\ pc' = [pc EXCEPT ![next] = "finish"]
                  /\ outcome' = [outcome EXCEPT ![next] = "failure"]
            /\ UNCHANGED <<memory, performed>>
      BY <2>3 DEF RunNext, RejectNext
    <3>2. pc[next] = "selected"
      BY <3>1, NextSelected
    <3>3. /\ pc'[next] \in {"reading", "writing", "finish"}
          /\ \A o \in Calls : o # next => pc'[o] = pc[o] /\ outcome'[o] = outcome[o]
      BY <1>1, <3>1, CallFacts DEF Requested, TypeOK
    <3> QED BY <3>1, <3>2, <3>3, HiddenStep, SteadyFacts
  <2>4. CASE ThrowNext(call)
    <3>1. /\ UNCHANGED <<outcome, memory, performed>>
          /\ \A o \in Calls : pc'[o] = pc[o] \/ (pc[o] = "selected" /\ pc'[o] = "lost")
      BY <1>1, <2>4 DEF ThrowNext, TypeOK
    <3> QED BY <3>1, HiddenStep, SteadyFacts
  <2> QED BY <1>1, <1>6, <2>1, <2>2, <2>3, <2>4, NotifyRefines DEF Finish
<1>7. ASSUME NEW call \in Repeats, RepeatFailure(call) \/ RepeatSuccess(call)
      PROVE  UNCHANGED Abstract!vars
  <2>1. /\ UNCHANGED <<memory, performed>>
        /\ \A o \in Calls : o # call => pc'[o] = pc[o] /\ outcome'[o] = outcome[o]
    BY <1>1, <1>7, CallFacts DEF RepeatFailure, RepeatSuccess, TypeOK
  <2> QED BY <2>1, HiddenStep, SteadyFacts
<1>8. ASSUME NEW op \in Late, ReadLate(op) \/ WriteLate(op) PROVE UNCHANGED Abstract!vars
  <2>1. op \in Ops /\ op \notin Steady
    BY DelegateAssumption DEF Steady, Unsteady
  <2>2. /\ UNCHANGED <<pc, outcome>>
        /\ \A o \in Steady : <<o, "write">> \in performed' <=> <<o, "write">> \in performed
        /\ memory' = memory \/ memory' = Written(op)
    BY <1>8, <2>1 DEF ReadLate, WriteLate
  <2>3. \A b \in SafeBytes : memory'[b] = memory[b]
    BY <2>1, <2>2, SteadyFacts DEF Written
  <2> QED BY <2>2, <2>3, HiddenStep
<1>9. CASE UNCHANGED vars
  BY <1>9, HiddenStep DEF vars
<1> QED BY <1>2, <1>3, <1>4, <1>5, <1>6, <1>7, <1>8, <1>9 DEF Next, Step, Disturb

(***************************************************************************)
(* The safety part of ImplementsAtomicRegisters, which holds whatever the  *)
(* undefined behaviours do: operations to which the delegate is steady are *)
(* atomic on the registers that only they touch, their callbacks are       *)
(* called at most once, and a success is never reported for a write that   *)
(* was not executed; other operations do not spoil that.                   *)
(***************************************************************************)
THEOREM QueueIsAtomic == Spec => Abstract!Spec
<1>1. Init => Abstract!Init
  BY SteadyFacts DEF Init, Abstract!Init, AbstractState
<1>2. Spec => [](UpdateAtomic /\ OutcomeSound)
  BY InitOutcomeSound, NextOutcomeSound, InductiveInvariant, UpdateAtomicHolds, PTL DEF Spec
<1> QED BY <1>1, <1>2, StepRefines, InductiveInvariant, PTL DEF Spec, Abstract!Spec
=============================================================================
