------------------------------ MODULE MCRecords ------------------------------
(* One record of each kind: what the bounds choose is the kind. *)
EXTENDS ElementRecords, FineDelayRecord

vars == <<epicsVars, elementVars, fineDelayVars>>

\* The first value enables both outputs, the second one disables them and keeps
\* the delay of the first.
MCBitsOf == [v \in Values |-> IF v = Zero THEN {0, 7, 9, 17, 24} ELSE {8, 10, 19, 20, 31}]

Init ==
  /\ ProcessInit /\ ElementInit /\ FineDelayInit
  /\ kind = "fineDelay" => device = val

Next ==
  \/ kind # "fineDelay" /\ ElementNext /\ UNCHANGED fineDelayVars
  \/ kind = "fineDelay" /\ FineDelayNext /\ UNCHANGED elementVars

Spec == Init /\ [][Next]_vars

RecordFairness ==
  /\ WF_vars(kind # "fineDelay" /\ (ProcessCallback \/ ScanOnce) /\ UNCHANGED fineDelayVars)
  /\ WF_vars(kind # "fineDelay" /\ AnswerAny /\ UNCHANGED fineDelayVars)
  /\ WF_vars(kind = "fineDelay" /\ (ProcessCallbackDelay \/ ScanOnceDelay) /\ UNCHANGED elementVars)
  /\ WF_vars(kind = "fineDelay" /\ (TransferCallback \/ WriteStep) /\ UNCHANGED elementVars)

FairSpec == Spec /\ RecordFairness
TypeOK == ProcessTypeOK /\ ElementTypeOK /\ FineDelayTypeOK


\* Every record comes to rest: no callback that is called twice or never needed,
\* no request that fails at once and no value put meanwhile leaves it active
\* for ever (PACT set and nobody to process it) or has it processed for ever.
Settles == <>[]Quiet
=============================================================================
