---------------------------- MODULE RadiusRequests ----------------------------
(***************************************************************************)
(* What the RADIUS client promises to the code that hands it requests: a   *)
(* request is taken once, then it is either answered, once, or dropped,    *)
(* and neither comes back.  Taking one request may drop others (a full     *)
(* list, an identifier used again), and a flush drops several at once.     *)
(***************************************************************************)
EXTENDS Naturals

CONSTANT Requests

VARIABLES
  status,    \* where each request is
  answers    \* how often its answer was given to a handler

vars == <<status, answers>>

Pending == {r \in Requests : status[r] = "pending"}

Init ==
  /\ status = [r \in Requests |-> "new"]
  /\ answers = [r \in Requests |-> 0]

Ask(r, gone) ==
  /\ status[r] = "new"
  /\ \E s \in {"pending", "dropped"} :
       status' = [q \in Requests |-> IF q = r THEN s
                                     ELSE IF q \in gone THEN "dropped"
                                     ELSE status[q]]
  /\ answers' = answers

Answer(r) ==
  /\ r \in Pending
  /\ status' = [status EXCEPT ![r] = "answered"]
  /\ answers' = [answers EXCEPT ![r] = @ + 1]

Drop(gone) ==
  /\ status' = [q \in Requests |-> IF q \in gone THEN "dropped" ELSE status[q]]
  /\ answers' = answers

Next ==
  \/ \E r \in Requests : Answer(r)
  \/ \E gone \in SUBSET Pending : Drop(gone) \/ \E r \in Requests : Ask(r, gone)

Spec == Init /\ [][Next]_vars

===============================================================================
