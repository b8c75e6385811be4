-------------------------- MODULE RecordProcessing --------------------------
(***************************************************************************)
(* An EPICS record whose device support works asynchronously: processing   *)
(* it the first time makes requests to the device and leaves PACT set; the *)
(* callback of the requests has the record processed again, which clears   *)
(* PACT and finishes.  The device support tells the two by PACT alone.     *)
(*                                                                         *)
(* EPICS is external.  It holds the record's lock while it processes the   *)
(* record or changes a field, so that each of these is one step here.  A   *)
(* value put while PACT is set is only noted (RPRO), and the record is     *)
(* processed once more after it has finished.  A process callback calls    *)
(* the record's process function whatever PACT is; everyone else finds an  *)
(* active record busy and leaves it alone.                                 *)
(*                                                                         *)
(* Modules for the kinds of records define how processing starts and how   *)
(* it completes.                                                           *)
(***************************************************************************)
EXTENDS Integers, Sequences, FiniteSets

CONSTANTS
  Kinds,       \* the device supports to be checked
  N,           \* number of elements of an array
  Values,      \* values of an element
  Zero,        \* the value a record has that is not initialized
  MaxRequests  \* bound on the times the record is put to or scanned

ASSUME RecordAssumption ==
  /\ N \in Nat \ {0}
  /\ Zero \in Values
  /\ MaxRequests \in Nat

ScalarKinds == {"output", "input", "fineDelay"}
OutputKinds == {"output", "waveformOut", "fineDelay"}
AllKinds == ScalarKinds \cup OutputKinds \cup {"waveformIn", "stringin"}

ASSUME KindsAssumption == Kinds \subseteq AllKinds

VARIABLES
  kind,              \* the device support of the record, never changes
  verify,            \* option of the record address, never changes
  val,               \* VAL, an array of N elements for every kind
  pact,
  rpro,
  alarm,             \* SEVR is INVALID
  processCallbacks,  \* requests of callbackRequestProcessCallback
  scanOnce,          \* requests of scanOnce, made for RPRO
  made               \* puts and scans so far

configVars == <<kind, verify>>
processVars == <<val, pact, rpro, alarm, processCallbacks, scanOnce>>
epicsVars == <<configVars, processVars, made>>

Elements == IF kind \in ScalarKinds THEN {1} ELSE 1 .. N

ProcessTypeOK ==
  /\ kind \in AllKinds
  /\ verify \in BOOLEAN
  /\ val \in [1 .. N -> Values]
  /\ pact \in BOOLEAN
  /\ rpro \in BOOLEAN
  /\ alarm \in BOOLEAN
  /\ processCallbacks \in Nat
  /\ scanOnce \in Nat
  /\ made \in 0 .. MaxRequests

ProcessInit ==
  /\ kind \in Kinds
  /\ verify \in (IF kind \in {"output", "waveformOut"} THEN BOOLEAN ELSE {FALSE})
  /\ pact = FALSE
  /\ rpro = FALSE
  /\ processCallbacks = 0
  /\ scanOnce = 0
  /\ made = 0

\* processRecord of the device support leaves PACT set: EPICS returns, and
\* the alarm stays what it was.  The numbers of process callbacks and of scans
\* change by those that are used up and those that are requested meanwhile.
Active(value, callbacks, scans) ==
  /\ val' = value
  /\ pact' = TRUE
  /\ processCallbacks' = processCallbacks + callbacks
  /\ scanOnce' = scanOnce + scans
  /\ UNCHANGED <<rpro, alarm>>

\* processRecord leaves PACT unset, or throws, which sets the alarm: EPICS
\* finishes, and asks for a scan if a value has been put meanwhile.
Finished(value, failed, callbacks, scans) ==
  /\ val' = value
  /\ pact' = FALSE
  /\ rpro' = FALSE
  /\ alarm' = failed
  /\ processCallbacks' = processCallbacks + callbacks
  /\ scanOnce' = scanOnce + scans + (IF rpro THEN 1 ELSE 0)

\* What dbPutField does to a record that is active.
PutWhileActive(value) ==
  /\ val' = value
  /\ rpro' = TRUE
  /\ UNCHANGED <<pact, alarm, processCallbacks, scanOnce>>

\* Nothing is under way and nobody is going to process the record.
Quiet == ~pact /\ processCallbacks = 0 /\ scanOnce = 0
=============================================================================
