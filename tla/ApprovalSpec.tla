---------------------------- MODULE ApprovalSpec ----------------------------
(***************************************************************************)
(* What the host promises for each app-server approval request, without    *)
(* threads, tables or a device: a request is open from its registration to *)
(* its resolution, it carries a fixed set of decisions the server allows,  *)
(* and in between it is answered at most once, with one of them.           *)
(*                                                                         *)
(* Approval.tla (the contract and the coordinator with their locks and     *)
(* three threads) is shown to implement this module.                       *)
(***************************************************************************)
CONSTANTS Requests,    \* JSON-RPC ids of server requests
          Decisions    \* decision names that can be sent

VARIABLES status,      \* lifecycle of each request
          allowed,     \* decisions the open request may be answered with
          answer       \* the decision sent for the open request, if any

vars == <<status, allowed, answer>>

Status == {"absent", "awaiting", "answered"}

NoAnswer == "none"

Init ==
  /\ status = [r \in Requests |-> "absent"]
  /\ allowed = [r \in Requests |-> {}]
  /\ answer = [r \in Requests |-> NoAnswer]

(* A request is registered; an id may be used again once it was resolved.  *)
Open(r) ==
  /\ status[r] = "absent"
  /\ status' = [status EXCEPT ![r] = "awaiting"]
  /\ \E D \in SUBSET Decisions : allowed' = [allowed EXCEPT ![r] = D]
  /\ UNCHANGED answer

(* The one answer.                                                         *)
Answer(r) ==
  /\ status[r] = "awaiting"
  /\ status' = [status EXCEPT ![r] = "answered"]
  /\ \E d \in allowed[r] : answer' = [answer EXCEPT ![r] = d]
  /\ UNCHANGED allowed

(* serverRequest/resolved closes the request, answered or not.             *)
Close(r) ==
  /\ status[r] # "absent"
  /\ status' = [status EXCEPT ![r] = "absent"]
  /\ allowed' = [allowed EXCEPT ![r] = {}]
  /\ answer' = [answer EXCEPT ![r] = NoAnswer]

Next == \E r \in Requests : Open(r) \/ Answer(r) \/ Close(r)

Spec == Init /\ [][Next]_vars
=============================================================================
