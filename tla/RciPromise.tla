----------------------------- MODULE RciPromise -----------------------------
(***************************************************************************)
(* What a caller of KeeneticClient may conclude from the result of a call: *)
(* the router executes an operation at most once; an answer with a success *)
(* status means that it did, a failure to authenticate that it never does. *)
(* An error status leaves open whether it did, and a transport error or a  *)
(* dropped future even whether it still will.                              *)
(***************************************************************************)
EXTENDS Naturals

CONSTANT Requests
VARIABLES executions, report

Answered == {"Success", "Decode"}
ErrorStatus == {"Http"}
NeverExecuted ==
  {"Required", "UnauthorizedAfterAuthentication", "AuthTransport", "AuthHttp",
   "BadChallenge", "RejectedCredentials"}
Unknown == {"Transport", "Cancelled"}

Init ==
  /\ executions = [r \in Requests |-> 0]
  /\ report = [r \in Requests |-> "pending"]

Execute(r) ==
  /\ executions[r] = 0
  /\ report[r] \in {"pending"} \cup Unknown
  /\ executions' = [executions EXCEPT ![r] = 1]
  /\ UNCHANGED report

Return(r) ==
  /\ report[r] = "pending"
  /\ \E result \in Answered \cup ErrorStatus \cup NeverExecuted \cup Unknown :
       /\ result \in Answered => executions[r] = 1
       /\ result \in NeverExecuted => executions[r] = 0
       /\ report' = [report EXCEPT ![r] = result]
  /\ UNCHANGED executions

Next == \E r \in Requests : Execute(r) \/ Return(r)

Spec == Init /\ [][Next]_<<executions, report>>
=============================================================================
