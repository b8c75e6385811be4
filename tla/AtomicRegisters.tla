--------------------------- MODULE AtomicRegisters ---------------------------
(***************************************************************************)
(* What MrfConsistentMemoryAccess promises to its callers: each write or   *)
(* update takes effect in one step, at most once, between its submission   *)
(* and its callback, and the callback is called once.  An update keeps the *)
(* bits of the register that it does not change.  The promise is kept for  *)
(* Bytes that only Ops touch.                                              *)
(***************************************************************************)
CONSTANTS Ops, Bytes, Kind, Span(_)

VARIABLES
  state,     \* state[op]: "new", "open", "applied" or "done"
  outcome,   \* outcome[op]: what the callback was told
  memory     \* memory[b]: operations that made up the byte's value

vars == <<state, outcome, memory>>

Init ==
  /\ state = [op \in Ops |-> "new"]
  /\ outcome = [op \in Ops |-> "none"]
  /\ memory = [b \in Bytes |-> {}]

Submit(op) ==
  /\ state[op] = "new"
  /\ state' = [state EXCEPT ![op] = "open"]
  /\ UNCHANGED <<outcome, memory>>

Apply(op) ==
  /\ state[op] = "open"
  /\ state' = [state EXCEPT ![op] = "applied"]
  /\ memory' = [b \in Bytes |->
                  IF b \in Span(op)
                    THEN (IF Kind[op] = "write" THEN {} ELSE memory[b]) \cup {op}
                    ELSE memory[b]]
  /\ UNCHANGED outcome

\* Success is only reported for an operation that took effect.
Succeed(op) ==
  /\ state[op] = "applied"
  /\ state' = [state EXCEPT ![op] = "done"]
  /\ outcome' = [outcome EXCEPT ![op] = "success"]
  /\ UNCHANGED memory

\* A failure leaves open whether the operation took effect.
Fail(op) ==
  /\ state[op] \in {"open", "applied"}
  /\ state' = [state EXCEPT ![op] = "done"]
  /\ outcome' = [outcome EXCEPT ![op] = "failure"]
  /\ UNCHANGED memory

Next == \E op \in Ops : Submit(op) \/ Apply(op) \/ Succeed(op) \/ Fail(op)

Spec == Init /\ [][Next]_vars

\* The callback of every submitted operation is called.
FairSpec == Spec /\ \A op \in Ops : WF_vars(Succeed(op) \/ Fail(op))
=============================================================================
