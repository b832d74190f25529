----------------------------- MODULE UserInput -----------------------------
(***************************************************************************)
(* Questions of the app-server: UserInputContract and                      *)
(* HostUserInputCoordinator (user_input/), the attention mark of slot 1    *)
(* (_sync_attention and ControllerState), and the threads that use them:   *)
(* the pump (requests, resolutions, turn completions), the console         *)
(* ("main": answers and interrupts) and the serial thread (interrupts).    *)
(*                                                                         *)
(* Contract and coordinator have a lock each; every critical section is    *)
(* one step.  A thread that works on both, or reads the queues and then    *)
(* sets the mark, does so in several steps.  Only requests of the          *)
(* controller's thread are modelled; answers are reduced to being given.   *)
(***************************************************************************)
EXTENDS Naturals, FiniteSets, Sequences

CONSTANTS
  Requests,   \* JSON-RPC ids of the server's requests
  Questions,  \* the questions of each request
  Secret,     \* questions with isSecret
  Turn, None, \* turns of the controller's thread
  MaxInbox    \* bound: unread messages

ASSUME UserInputAssumption ==
  /\ None \notin Turn
  /\ \A r \in Requests : IsFiniteSet(Questions[r])
  /\ MaxInbox \in Nat

VARIABLES
  srv,        \* the app-server: requests issued, open ones, running turn, used turns
  inbox,      \* messages waiting for the pump
  status,     \* contract: status of each pending request
  staged,     \* contract: _answers / answered_question_ids
  turnOf,     \* contract: the request's turn_id
  rejected,   \* pump: _rejected_request_ids
  byInput,    \* coordinator: _by_input_id (and _bindings)
  byRequest,  \* coordinator: _by_request_id
  nextId,     \* _next_input_id
  slot,       \* ControllerState: the slot's turn
  attention,  \* ControllerState: the slot's attention_kind
  approvals,  \* is an approval of slot 1 pending?  (see Approval.tla)
  pc, job,    \* per thread: step; requests, turn and local id it works on, new mark
  sent,       \* history: responses written for a request
  given,      \* history: questions the user answered for a request
  void        \* history: requests whose answers were discarded

contract == <<status, staged, turnOf, rejected>>
tables == <<byInput, byRequest, nextId>>
mark == <<slot, attention, approvals>>
history == <<sent, given, void>>
vars == <<srv, inbox, contract, tables, mark, pc, job, history>>

Threads == {"pump", "serial", "main"}
NoJob == [reqs |-> {}, turn |-> None, input |-> 0, mark |-> "none"]
AllQuestions == UNION {Questions[r] : r \in Requests}

Goto(t, label, j) == pc' = [pc EXCEPT ![t] = label] /\ job' = [job EXCEPT ![t] = j]
Done(t) == Goto(t, "idle", NoJob)

-----------------------------------------------------------------------------
(* The app-server (external).                                              *)

Post(msg) == Len(inbox) < MaxInbox /\ inbox' = Append(inbox, msg)

ServerStartsTurn(t) ==
  /\ srv.turn = None /\ t \notin srv.turns
  /\ srv' = [srv EXCEPT !.turn = t, !.turns = @ \cup {t}]
  /\ Post([t |-> "started", turn |-> t])
  /\ UNCHANGED <<contract, tables, mark, pc, job, history>>

ServerAsks(r) ==
  /\ srv.turn # None /\ r \notin srv.issued
  /\ srv' = [srv EXCEPT !.issued = @ \cup {r}, !.open = @ \cup {r}]
  /\ Post([t |-> "request", req |-> r, turn |-> srv.turn])
  /\ UNCHANGED <<contract, tables, mark, pc, job, history>>

(* A server request that is neither a question nor an approval.            *)
ServerAsksUnsupported(r) ==
  /\ srv.turn # None /\ r \notin srv.issued
  /\ srv' = [srv EXCEPT !.issued = @ \cup {r}, !.open = @ \cup {r}]
  /\ Post([t |-> "unsupported", req |-> r])
  /\ UNCHANGED <<contract, tables, mark, pc, job, history>>

(* After an answer, by autoResolutionMs, or with the end of the turn.      *)
ServerResolves(r) ==
  /\ r \in srv.open
  /\ srv' = [srv EXCEPT !.open = @ \ {r}]
  /\ Post([t |-> "resolved", req |-> r])
  /\ UNCHANGED <<contract, tables, mark, pc, job, history>>

ServerCompletesTurn ==
  /\ srv.turn # None
  /\ srv' = [srv EXCEPT !.turn = None]
  /\ Post([t |-> "completed", turn |-> srv.turn])
  /\ UNCHANGED <<contract, tables, mark, pc, job, history>>

-----------------------------------------------------------------------------
(* Event pump.                                                             *)

Receive(kind) == pc["pump"] = "idle" /\ inbox # <<>> /\ Head(inbox).t = kind /\ inbox' = Tail(inbox)

PumpRegister ==
  /\ Receive("request")
  /\ LET r == Head(inbox).req IN
     \/ /\ status[r] = "absent"
        /\ status' = [status EXCEPT ![r] = "awaiting"]
        /\ staged' = [staged EXCEPT ![r] = {}]
        /\ turnOf' = [turnOf EXCEPT ![r] = Head(inbox).turn]
        /\ UNCHANGED rejected
        /\ Goto("pump", "bind", [NoJob EXCEPT !.reqs = {r}])
     \/ /\ status[r] # "absent"
        /\ Goto("pump", "dead", NoJob)
        /\ UNCHANGED contract
  /\ UNCHANGED <<srv, tables, mark, history>>

(* The questions of a request in the order in which it lists them.         *)
Listing(r) ==
  CHOOSE f \in [1..Cardinality(Questions[r]) -> Questions[r]] :
    \A q \in Questions[r] : \E i \in DOMAIN f : f[i] = q

FirstId == nextId + 1

(* Mutant: the counter advances once per request.                          *)
LastIdPerRequest(r) == nextId + 1

LastId(r) == nextId + Cardinality(Questions[r])

(* One local id per question.                                              *)
Bind(r) ==
  [i \in FirstId..(FirstId + Cardinality(Questions[r]) - 1) |->
     [req |-> r, question |-> Listing(r)[i - FirstId + 1]]]

(* A dictionary after the assignment of new entries.                       *)
Assigned(table, new) ==
  [k \in DOMAIN table \cup DOMAIN new |-> IF k \in DOMAIN new THEN new[k] ELSE table[k]]

PumpBind ==
  /\ pc["pump"] = "bind"
  /\ \E r \in job["pump"].reqs :
       \/ /\ r \in DOMAIN byRequest
          /\ UNCHANGED tables
       \/ /\ r \notin DOMAIN byRequest
          /\ nextId' = LastId(r)
          /\ byInput' = Assigned(byInput, Bind(r))
          /\ byRequest' = Assigned(byRequest, [req \in {r} |-> DOMAIN Bind(r)])
  /\ Goto("pump", "sync", NoJob)
  /\ UNCHANGED <<srv, inbox, contract, mark, history>>

(* An unsupported request is answered with an error and remembered.        *)
PumpReject ==
  /\ Receive("unsupported")
  /\ rejected' = rejected \cup {Head(inbox).req}
  /\ UNCHANGED <<srv, status, staged, turnOf, tables, mark, pc, job, history>>

(* ... so that its resolution is not taken for an approval's.              *)
PumpResolvedRejected ==
  /\ Receive("resolved") /\ Head(inbox).req \in rejected
  /\ rejected' = rejected \ {Head(inbox).req}
  /\ UNCHANGED <<srv, status, staged, turnOf, tables, mark, pc, job, history>>

(* A resolution goes to the contract that owns the request; the approval   *)
(* contract does not know a question's id and raises.                      *)
PumpResolve ==
  /\ Receive("resolved") /\ Head(inbox).req \notin rejected
  /\ LET r == Head(inbox).req IN
     \/ /\ status[r] # "absent"
        /\ status' = [status EXCEPT ![r] = "absent"]
        /\ staged' = [staged EXCEPT ![r] = {}]
        /\ Goto("pump", "unbind", [NoJob EXCEPT !.reqs = {r}])
     \/ /\ status[r] = "absent"
        /\ Goto("pump", "dead", NoJob)
        /\ UNCHANGED <<status, staged>>
  /\ UNCHANGED <<srv, turnOf, rejected, tables, mark, history>>

PumpStarted ==
  /\ Receive("started")
  /\ slot' = Head(inbox).turn /\ attention' = "none"
  /\ UNCHANGED <<srv, contract, tables, approvals, pc, job, history>>

(* An approval request or its resolution, as in Approval.tla.              *)
PumpApproval ==
  /\ pc["pump"] = "idle"
  /\ approvals' = ~approvals
  /\ Goto("pump", "sync", NoJob)
  /\ UNCHANGED <<srv, inbox, contract, tables, slot, attention, history>>

(* A completed turn's questions are discarded, then the slot is done.      *)
PumpCompleted ==
  /\ Receive("completed")
  /\ Goto("pump", "discard", [NoJob EXCEPT !.turn = Head(inbox).turn])
  /\ UNCHANGED <<srv, contract, tables, mark, history>>

PumpTurnDone ==
  /\ pc["pump"] = "slot_done"
  /\ slot' = None /\ attention' = "done"
  /\ Done("pump")
  /\ UNCHANGED <<srv, inbox, contract, tables, approvals, history>>

-----------------------------------------------------------------------------
(* discard_user_input, of the pump and of the interrupting threads.        *)

(* What follows a discard: the pump finishes a completed turn.             *)
After(t) == IF t = "pump" /\ job[t].turn # None THEN Goto(t, "slot_done", NoJob) ELSE Done(t)

(* An interrupt of the slot's turn (device) or of the turn the ledger      *)
(* holds active (console) that will be acknowledged.                       *)
Interrupted(t, turn) ==
  /\ pc[t] = "idle"
  /\ turn \in {slot, srv.turn}
  /\ Goto(t, "discard", [NoJob EXCEPT !.turn = turn])
  /\ UNCHANGED <<srv, inbox, contract, tables, mark, history>>

(* _OperationsInterruptAdapter.interrupt                                   *)
DeviceInterrupt(turn) == Interrupted("serial", turn)

(* "interrupt"                                                             *)
InterruptCommand(turn) == Interrupted("main", turn)

DiscardedBy(turn) == {r \in Requests : status[r] = "awaiting" /\ turnOf[r] = turn}

(* Mutant: no tombstone.                                                   *)
DiscardedStatusForgotten == "absent"

DiscardedStatus == "discarded"

ContractDiscard(t) ==
  /\ pc[t] = "discard"
  /\ LET gone == DiscardedBy(job[t].turn) IN
     /\ status' = [r \in Requests |-> IF r \in gone THEN DiscardedStatus ELSE status[r]]
     /\ staged' = [r \in Requests |-> IF r \in gone THEN {} ELSE staged[r]]
     /\ void' = void \cup gone
     /\ IF gone = {} THEN After(t)
        ELSE Goto(t, "unbind", [job[t] EXCEPT !.reqs = gone])
  /\ UNCHANGED <<srv, inbox, turnOf, rejected, tables, mark, sent, given>>

(* Mutant: only the table by request is cleared.                           *)
BoundIdsNone(reqs) == {}

BoundIds(reqs) == UNION {byRequest[r] : r \in reqs \cap DOMAIN byRequest}

(* _remove_request, for a resolution and for a discard.                    *)
Unbind(t) ==
  /\ pc[t] = "unbind"
  /\ byInput' = [i \in DOMAIN byInput \ BoundIds(job[t].reqs) |-> byInput[i]]
  /\ byRequest' = [r \in DOMAIN byRequest \ job[t].reqs |-> byRequest[r]]
  /\ Goto(t, "sync", job[t])
  /\ UNCHANGED <<srv, inbox, contract, nextId, mark, history>>

-----------------------------------------------------------------------------
(* _sync_attention: approvals first, then questions still listed; the mark *)
(* is set afterwards, if a turn is active by then.                         *)

Listed == {i \in DOMAIN byInput : status[byInput[i].req] # "absent"}

SyncApprovals(t) ==
  /\ pc[t] = "sync"
  /\ IF approvals THEN Goto(t, "mark", [job[t] EXCEPT !.mark = "approval"])
                  ELSE Goto(t, "sync_questions", job[t])
  /\ UNCHANGED <<srv, inbox, contract, tables, mark, history>>

SyncQuestions(t) ==
  /\ pc[t] = "sync_questions"
  /\ Goto(t, "mark", [job[t] EXCEPT !.mark = IF Listed # {} THEN "question" ELSE "none"])
  /\ UNCHANGED <<srv, inbox, contract, tables, mark, history>>

(* Mutant: require_active is not tested.                                   *)
SetAttentionAlways(kind) == attention' = kind

(* set_attention with require_active.                                      *)
SetAttention(kind) == attention' = IF slot = None THEN attention ELSE kind

SyncSet(t) ==
  /\ pc[t] = "mark"
  /\ SetAttention(job[t].mark)
  /\ After(t)
  /\ UNCHANGED <<srv, inbox, contract, tables, slot, approvals, history>>

-----------------------------------------------------------------------------
(* Console answers.  respond_host's first look at the contract is repeated *)
(* by the contract under its own lock; any refusal returns False.          *)

(* Mutant: a discarded request can still be answered.                      *)
AnswerableAfterDiscard(r, q) == status[r] \in {"awaiting", "discarded"} /\ q \notin staged[r]

Answerable(r, q) == status[r] = "awaiting" /\ q \notin staged[r]

(* The last answer sends the response, before the status is set.           *)
RespondHost(i, secretSurface) ==
  LET r == byInput[i].req  q == byInput[i].question
      candidate == staged[r] \cup {q} IN
  /\ i \in DOMAIN byInput /\ Answerable(r, q)
  /\ q \in Secret <=> secretSurface
  /\ staged' = [staged EXCEPT ![r] = candidate]
  /\ given' = [given EXCEPT ![r] = @ \cup {q}]
  /\ \/ candidate # Questions[r] /\ UNCHANGED <<status, sent>>
     \/ /\ candidate = Questions[r]
        /\ sent' = [sent EXCEPT ![r] = @ + 1]
        /\ status' = [status EXCEPT ![r] = "response_sent"]
  /\ UNCHANGED <<srv, inbox, turnOf, rejected, tables, mark, void>>

Rejected == UNCHANGED <<srv, inbox, contract, tables, mark, history>>

(* "answer <id> <text>"                                                    *)
AnswerCommand(i) ==
  /\ pc["main"] = "idle"
  /\ RespondHost(i, FALSE)
  /\ UNCHANGED <<pc, job>>

(* "secret <id>": accepts_secret, then the prompt ...                      *)
SecretCommand(i) ==
  /\ pc["main"] = "idle" /\ i \in DOMAIN byInput
  /\ byInput[i].question \in Secret /\ Answerable(byInput[i].req, byInput[i].question)
  /\ Goto("main", "prompt", [NoJob EXCEPT !.input = i])
  /\ Rejected

(* ... then respond_host, which may find the question gone; or no answer.  *)
SecretAnswered(i) ==
  /\ pc["main"] = "prompt" /\ job["main"].input = i
  /\ Done("main")
  /\ RespondHost(i, TRUE) \/ Rejected

(* The app-server is gone when the last answer is given: client.respond    *)
(* raises, nothing is staged, and the console loop ends.                   *)
AnswerFails(i) ==
  /\ pc["main"] \in {"idle", "prompt"} /\ i \in DOMAIN byInput
  /\ LET r == byInput[i].req  q == byInput[i].question IN
     Answerable(r, q) /\ staged[r] \cup {q} = Questions[r]
  /\ Goto("main", "dead", NoJob)
  /\ Rejected

-----------------------------------------------------------------------------
Init ==
  /\ srv = [issued |-> {}, open |-> {}, turn |-> None, turns |-> {}]
  /\ inbox = <<>>
  /\ status = [r \in Requests |-> "absent"] /\ staged = [r \in Requests |-> {}]
  /\ turnOf = [r \in Requests |-> None] /\ rejected = {}
  /\ byInput = <<>> /\ byRequest = <<>> /\ nextId = 0
  /\ slot = None /\ attention = "none" /\ approvals = FALSE
  /\ pc = [t \in Threads |-> "idle"] /\ job = [t \in Threads |-> NoJob]
  /\ sent = [r \in Requests |-> 0] /\ given = [r \in Requests |-> {}] /\ void = {}

ServerStep ==
  \/ \E t \in Turn : ServerStartsTurn(t)
  \/ \E r \in Requests : ServerAsks(r) \/ ServerAsksUnsupported(r) \/ ServerResolves(r)
  \/ ServerCompletesTurn

PumpStep ==
  PumpRegister \/ PumpBind \/ PumpReject \/ PumpResolvedRejected \/ PumpResolve
    \/ PumpStarted \/ PumpApproval \/ PumpCompleted \/ PumpTurnDone

MainStep ==
  \E i \in 1..nextId : AnswerCommand(i) \/ SecretCommand(i) \/ SecretAnswered(i) \/ AnswerFails(i)

DiscardStep(t) ==
  ContractDiscard(t) \/ Unbind(t) \/ SyncApprovals(t) \/ SyncQuestions(t) \/ SyncSet(t)

Next ==
  \/ ServerStep \/ PumpStep \/ MainStep
  \/ \E turn \in Turn : DeviceInterrupt(turn) \/ InterruptCommand(turn)
  \/ \E t \in Threads : DiscardStep(t)

Spec == Init /\ [][Next]_vars

-----------------------------------------------------------------------------
(* Properties.                                                             *)

(* host-user-input.md: the response goes out once, when every question has *)
(* its own answer, and never for a request discarded before, even by the   *)
(* no-echo prompt of a secret question that was open at the time.          *)
AnsweredCompletely ==
  \A r \in Requests :
    /\ sent[r] <= 1
    /\ sent[r] = 1 => given[r] = Questions[r]
    /\ r \in void => sent[r] = 0

(* A question that waits for an answer can be given one: but for the gap  *)
(* between the contract's and the coordinator's registration, each of its  *)
(* questions has a local id, whatever interrupts and resolutions of other  *)
(* requests remove meanwhile.                                              *)
AwaitingIsAnswerable ==
  \A r \in Requests :
    status[r] = "awaiting" /\ ~(pc["pump"] = "bind" /\ r \in job["pump"].reqs) =>
      \A q \in Questions[r] : \E i \in DOMAIN byInput : byInput[i] = [req |-> r, question |-> q]

(* host-user-input.md: a discarded request stays owned until it is         *)
(* resolved, so its resolution never reaches the approval contract: with a *)
(* correct server the pump does not fail.                                  *)
PumpSurvives == pc["pump"] # "dead"

Quiet == inbox = <<>> /\ \A t \in Threads : pc[t] \in {"idle", "dead"}

(* Whatever the order of registration, discards and resolution, a resolved *)
(* request leaves no local id behind.                                      *)
ResolvedUnlisted ==
  Quiet => \A i \in DOMAIN byInput : byInput[i].req \in srv.open

(* testing.md: a finished turn shows "done": a synchronisation that began  *)
(* while the turn ran and ends after it does not mark the slot again.      *)
EndedTurnUnmarked == attention \in {"approval", "question"} => slot # None
=============================================================================
