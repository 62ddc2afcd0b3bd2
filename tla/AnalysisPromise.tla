--------------------------- MODULE AnalysisPromise ---------------------------
(***************************************************************************)
(* What the analysis service promises the user about one submission that   *)
(* is never edited: it is picked up, its result appears together with the  *)
(* status DONE and stays, and it is sent at most once.  A run that failed, *)
(* or whose worker was killed, may be the last word; a failed one may also *)
(* be taken up again.                                                      *)
(***************************************************************************)
EXTENDS Naturals

CONSTANT Requests

VARIABLES
  status,    \* AnalysisStatus of the request, "absent" before its submission
  answered,  \* is there a result to retrieve?
  sends      \* answers sent to the user

vars == <<status, answered, sends>>

Init ==
  /\ status = [r \in Requests |-> "absent"]
  /\ answered = [r \in Requests |-> FALSE]
  /\ sends = [r \in Requests |-> 0]

Become(r, from, to) ==
  /\ status[r] \in from
  /\ status' = [status EXCEPT ![r] = to]

Accept(r) == Become(r, {"absent"}, "queued") /\ UNCHANGED <<answered, sends>>

PickUp(r) == Become(r, {"queued"}, "running") /\ UNCHANGED <<answered, sends>>

TakeUpAgain(r) == Become(r, {"failed"}, "running") /\ UNCHANGED <<answered, sends>>

Answer(r) ==
  /\ Become(r, {"running"}, "done")
  /\ answered' = [answered EXCEPT ![r] = TRUE]
  /\ UNCHANGED sends

Fail(r) == Become(r, {"running"}, "failed") /\ UNCHANGED <<answered, sends>>

Send(r) ==
  /\ answered[r]
  /\ sends[r] = 0
  /\ sends' = [sends EXCEPT ![r] = 1]
  /\ UNCHANGED <<status, answered>>

Next ==
  \E r \in Requests :
    \/ Accept(r) \/ PickUp(r) \/ TakeUpAgain(r)
    \/ Answer(r) \/ Fail(r) \/ Send(r)

Spec == Init /\ [][Next]_vars
=============================================================================
