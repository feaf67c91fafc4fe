--------------------------- MODULE SerialBackend ---------------------------
(***************************************************************************)
(* What the session worker of crates/foxreq-py/src/worker.rs promises the  *)
(* threads that share it, without its locks, channels and thread: a        *)
(* request runs in the backend at one instant between its call and its     *)
(* return, never after the backend has shut, and a close returns only when *)
(* the backend has been released.                                          *)
(***************************************************************************)
CONSTANT Callers

VARIABLES
  service,  \* "absent", then "open", then "shut", then "released"
  call,     \* what each caller has asked for and not yet been given
  outcome   \* what each caller's last call returned

absVars == << service, call, outcome >>

Asked  == {"request", "close"}
Served == {"ok", "error", "panic"}

Init ==
  /\ service = "absent"
  /\ call = [c \in Callers |-> "idle"]
  /\ outcome = [c \in Callers |-> "none"]

\* The backend exists from here on, or never will.
Open ==
  /\ service = "absent"
  /\ service' \in {"open", "released"}
  /\ UNCHANGED << call, outcome >>

Ask(c) ==
  /\ service # "absent"
  /\ call[c] = "idle"
  /\ \E op \in Asked : call' = [call EXCEPT ![c] = op]
  /\ outcome' = [outcome EXCEPT ![c] = "none"]
  /\ UNCHANGED service

\* The backend runs the request.  A panic shuts it.
Execute(c) ==
  /\ service = "open"
  /\ call[c] = "request"
  /\ \E result \in Served :
       /\ call' = [call EXCEPT ![c] = result]
       /\ service' = IF result = "panic" THEN "shut" ELSE service
  /\ UNCHANGED outcome

\* The backend is closed, on the demand of a caller.
Shut ==
  /\ service = "open"
  /\ \E c \in Callers : call[c] = "close"
  /\ service' = "shut"
  /\ UNCHANGED << call, outcome >>

Release ==
  /\ service = "shut"
  /\ service' = "released"
  /\ UNCHANGED << call, outcome >>

Finish(c, result) ==
  /\ call' = [call EXCEPT ![c] = "idle"]
  /\ outcome' = [outcome EXCEPT ![c] = result]
  /\ UNCHANGED service

\* An executed request returns what the backend answered.
Return(c) ==
  /\ call[c] \in Served
  /\ Finish(c, call[c])

\* A request that was not executed is refused, and only when it cannot be.
Refuse(c) ==
  /\ call[c] = "request"
  /\ service \in {"shut", "released"}
  /\ \E result \in {"closed", "panic"} : Finish(c, result)

CloseReturn(c) ==
  /\ call[c] = "close"
  /\ service = "released"
  /\ \E result \in {"ok", "panic"} : Finish(c, result)

Next ==
  \/ Open \/ Shut \/ Release
  \/ \E c \in Callers :
       Ask(c) \/ Execute(c) \/ Return(c) \/ Refuse(c) \/ CloseReturn(c)

Spec == Init /\ [][Next]_absVars
=============================================================================
