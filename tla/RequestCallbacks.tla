-------------------------- MODULE RequestCallbacks --------------------------
(***************************************************************************)
(* What MrfUdpIpClient promises to those who queue requests: the callback  *)
(* of each request is called with its answer, once, be it a reply or the   *)
(* reason why there is none.  A retransmission that fails may be reported  *)
(* besides, at most once, and the report may come before or after the      *)
(* answer: for the callback, it looks like one.                            *)
(***************************************************************************)
EXTENDS Naturals

CONSTANT Requests

VARIABLES
  sent,      \* requests that the client has got
  open,      \* those among them that have not been answered
  reported   \* those among them whose failed retransmission has been reported

promiseVars == <<sent, open, reported>>

Init == sent = {} /\ open = {} /\ reported = {}

Queue(r) ==
  /\ r \notin sent
  /\ sent' = sent \cup {r}
  /\ open' = open \cup {r}
  /\ UNCHANGED reported

Answer(r) ==
  /\ r \in open
  /\ open' = open \ {r}
  /\ UNCHANGED <<sent, reported>>

Report(r) ==
  /\ r \in sent \ reported
  /\ reported' = reported \cup {r}
  /\ UNCHANGED <<sent, open>>

Next == \E r \in Requests : Queue(r) \/ Answer(r) \/ Report(r)

Spec == Init /\ [][Next]_promiseVars

\* Requests are answered as long as there are any.
Fairness == WF_promiseVars(\E r \in Requests : Answer(r))

FairSpec == Spec /\ Fairness

\* How often the callback of a request has been called.
Calls(r) == (IF r \in sent \ open THEN 1 ELSE 0) + (IF r \in reported THEN 1 ELSE 0)
=============================================================================
