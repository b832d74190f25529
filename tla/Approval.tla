------------------------------ MODULE Approval ------------------------------
(***************************************************************************)
(* Host side of an approval: ApprovalContract (approval/contract.py) and   *)
(* ApprovalCoordinator (approval/coordinator.py) as the controller wires   *)
(* them.  Three threads share them:                                        *)
(*   pump    the event pump, which applies app-server messages in order;   *)
(*   serial  the serial thread, which applies device decisions and calls   *)
(*           republish after every handshake;                              *)
(*   main    the console loop, which applies approve/decline/cancel.       *)
(*                                                                         *)
(* The contract is updated under its own lock, one atomic step here.  The  *)
(* coordinator's tables are updated under the coordinator's lock (`lock'), *)
(* which a thread keeps while it reads the contract, responds and writes   *)
(* frames: those are separate steps, because the pump deletes contract     *)
(* entries without holding the coordinator's lock, and because the USB     *)
(* link comes and goes meanwhile.                                          *)
(*                                                                         *)
(* The link is reduced to `linked' (handshake complete) and `display': the *)
(* approval a device shows once it has consumed every frame sent in the    *)
(* current session.  Sequence numbers, sessions and frames in flight are   *)
(* the subject of DeviceLink.tla.                                          *)
(***************************************************************************)
EXTENDS Naturals, Sequences, FiniteSets

CONSTANTS
  Requests,      \* JSON-RPC ids the app-server uses for its requests
  NoRequest,     \* not one of them
  Profiles,      \* the request contents considered
  FallbackKnown, \* is the Codex version one with a fixed decision contract?
  FaultyServer,  \* may the server repeat or invent requests and resolutions?
  MaxInbox,      \* bound: unread app-server messages
  MaxDeviceId    \* bound: requests issued (device approval ids handed out)

VARIABLES
  srv,        \* which requests the app-server holds open
  alive,      \* is the app-server process running?
  inbox,      \* AppServerClient's queue of server messages
  contract,   \* ApprovalContract._pending (status and request)
  sent,       \* history: responses written for each pending request
  bindings,   \* ApprovalCoordinator._bindings, oldest first
  byRequest,  \* _by_request_id
  byDevice,   \* _by_device_id
  nextId,     \* _next_device_id
  lock,       \* holder of the coordinator's lock
  pc, job,    \* what each thread is doing, and its local variables
  linked,     \* DeviceControllerSession._handshake_complete
  display     \* the approval shown by a device that read every frame

tables == <<bindings, byRequest, byDevice, nextId>>
device == <<linked, display>>
vars == <<srv, alive, inbox, contract, sent, tables, lock, pc, job, device>>

Threads == {"pump", "serial", "main"}
Nobody == "nobody"

Decisions == {"accept", "acceptForSession", "decline", "cancel"}
NoDecision == "none"

(***************************************************************************)
(* Request contents, reduced to what the projection looks at.  `command',  *)
(* `context' and `fits' stand for: a command text is present; network      *)
(* context or a policy amendment is attached; body and cwd fit the display *)
(* without truncation.  `mapped': the thread has a device slot.  `raw' is  *)
(* availableDecisions: absent, malformed, or a list whose string members   *)
(* are `listed'.                                                           *)
(***************************************************************************)
Profile == [kind : {"command", "file"}, mapped : BOOLEAN, command : BOOLEAN,
            context : BOOLEAN, fits : BOOLEAN, risky : BOOLEAN,
            raw : {"absent", "malformed", "list"}, listed : SUBSET Decisions]

NoProfile == [kind |-> "file", mapped |-> FALSE, command |-> FALSE,
              context |-> FALSE, fits |-> FALSE, risky |-> FALSE,
              raw |-> "malformed", listed |-> {}]

ASSUME ApprovalAssumption ==
  /\ NoRequest \notin Requests
  /\ Profiles \subseteq Profile
  /\ FallbackKnown \in BOOLEAN
  /\ FaultyServer \in BOOLEAN
  /\ MaxInbox \in Nat
  /\ MaxDeviceId \in Nat

-----------------------------------------------------------------------------
(* Projection of a request (_project_request and its helpers).             *)

SemanticComplete(p) == p.kind = "command" /\ p.command /\ ~p.context

ContentComplete(p) == SemanticComplete(p) /\ p.fits

HighRisk(p) == p.kind = "command" /\ p.risky

NormalizedSimpleDecisions(p) ==
  {d \in Decisions :
     \/ p.raw = "absent" /\ FallbackKnown /\ d \in {"accept", "decline", "cancel"}
     \/ p.raw = "list" /\ d \in p.listed}

HostDecisions(p) ==
  {d \in NormalizedSimpleDecisions(p) \cap {"accept", "decline", "cancel"} :
     d = "accept" => SemanticComplete(p)}

(* Mutant: the risk class is ignored.                                      *)
DeviceDecisionsAnyRisk(p) ==
  {d \in NormalizedSimpleDecisions(p) \cap {"accept", "decline"} :
     d = "accept" => ContentComplete(p)}

DeviceDecisions(p) ==
  {d \in NormalizedSimpleDecisions(p) \cap {"accept", "decline"} :
     d = "accept" => ~HighRisk(p) /\ ContentComplete(p)}

DeviceVisible(p) == p.mapped /\ DeviceDecisions(p) # {}

-----------------------------------------------------------------------------
(* Contract entries, bindings, jobs and frames.                            *)

Entry == [status : {"absent", "awaiting", "response_sent"}, profile : Profile]
NoEntry == [status |-> "absent", profile |-> NoProfile]

Binding == [req : Requests, id : Nat, profile : Profile]
NoBinding == [req |-> NoRequest, id |-> 0, profile |-> NoProfile]

Job == [binding : Binding \cup {NoBinding}, decision : Decisions \cup {NoDecision}]
NoJob == [binding |-> NoBinding, decision |-> NoDecision]

PC == {"idle", "register", "resolve", "send_resolved", "publish",
       "republish", "respond", "dead"}

Frame == [id : Nat, sending : BOOLEAN, decisions : SUBSET Decisions, remaining : Nat]
NoFrame == [id |-> 0, sending |-> FALSE, decisions |-> {}, remaining |-> 0]

VisibleAt(s) == {i \in DOMAIN s : DeviceVisible(s[i].profile)}

(* Mutant: the newest visible binding.                                     *)
CurrentDeviceBindingNewest(s) ==
  IF VisibleAt(s) = {} THEN NoBinding
  ELSE s[CHOOSE i \in VisibleAt(s) : \A j \in VisibleAt(s) : j <= i]

(* First visible binding; NoBinding stands for None.                       *)
CurrentDeviceBinding(s) ==
  IF VisibleAt(s) = {} THEN NoBinding
  ELSE s[CHOOSE i \in VisibleAt(s) : \A j \in VisibleAt(s) : i <= j]

Put(f, k, v) == [x \in DOMAIN f \cup {k} |-> IF x = k THEN v ELSE f[x]]

(* Mutant: the entry is not popped.                                        *)
DropNothing(f, k) == f

Drop(f, k) == [x \in DOMAIN f \ {k} |-> f[x]]

(* list.remove: the elements of s other than the one at position i.        *)
IndexOf(s, b) == CHOOSE i \in DOMAIN s : s[i] = b

RemoveIndex(s, i) == [j \in 1..(Len(s) - 1) |-> IF j < i THEN s[j] ELSE s[j + 1]]

Holding(t) == lock = t
Acquire(t) == lock = Nobody /\ lock' = t

(* Leaving the operation, by return or by an exception.  An exception ends *)
(* the pump and the console loop; the serial thread catches it, drops the  *)
(* link and reconnects.  The console loop stops after a command when the   *)
(* pump has failed (raise_if_failed).                                      *)
Return(t) ==
  /\ lock' = Nobody
  /\ pc' = [pc EXCEPT ![t] = IF t = "main" /\ pc["pump"] = "dead" THEN "dead" ELSE "idle"]
  /\ job' = [job EXCEPT ![t] = NoJob]

(* Mutant: an exception leaves the lock taken.                             *)
RaiseLocked(t) ==
  /\ UNCHANGED lock
  /\ pc' = [pc EXCEPT ![t] = IF t = "serial" THEN "idle" ELSE "dead"]
  /\ job' = [job EXCEPT ![t] = NoJob]
  /\ linked' = (linked /\ t # "serial")

Raise(t) ==
  /\ lock' = IF lock = t THEN Nobody ELSE lock
  /\ pc' = [pc EXCEPT ![t] = IF t = "serial" THEN "idle" ELSE "dead"]
  /\ job' = [job EXCEPT ![t] = NoJob]
  /\ linked' = (linked /\ t # "serial")

Goto(t, label) == pc' = [pc EXCEPT ![t] = label]

-----------------------------------------------------------------------------
(* The app-server (external).  A correct one never reuses an open id and   *)
(* resolves only what it opened; a faulty one repeats and invents.         *)

ServerRequest(r, p) ==
  /\ alive /\ Len(inbox) < MaxInbox /\ nextId + Len(inbox) < MaxDeviceId
  /\ FaultyServer \/ r \notin srv
  /\ srv' = srv \cup {r}
  /\ inbox' = Append(inbox, [t |-> "request", req |-> r, profile |-> p, match |-> TRUE])
  /\ UNCHANGED <<alive, contract, sent, tables, lock, pc, job, device>>

(* `match': the notification names the thread of the request.              *)
ServerResolved(r, match) ==
  /\ alive /\ Len(inbox) < MaxInbox
  /\ FaultyServer \/ (r \in srv /\ match)
  /\ srv' = srv \ {r}
  /\ inbox' = Append(inbox, [t |-> "resolved", req |-> r, profile |-> NoProfile,
                             match |-> match])
  /\ UNCHANGED <<alive, contract, sent, tables, lock, pc, job, device>>

ServerExits ==
  /\ alive /\ alive' = FALSE
  /\ UNCHANGED <<srv, inbox, contract, sent, tables, lock, pc, job, device>>

-----------------------------------------------------------------------------
(* Event pump: contract first, under the contract's lock ...               *)

(* Mutant: a pending id is registered again.                               *)
IdFreeAlways(r) == TRUE

IdFree(r) == contract[r].status = "absent"

PumpContractRegister ==
  /\ pc["pump"] = "idle" /\ inbox # <<>> /\ Head(inbox).t = "request"
  /\ inbox' = Tail(inbox)
  /\ LET r == Head(inbox).req  p == Head(inbox).profile IN
     \/ /\ IdFree(r)
        /\ contract' = [contract EXCEPT ![r] = [status |-> "awaiting", profile |-> p]]
        /\ UNCHANGED sent
        /\ Goto("pump", "register")
        /\ job' = [job EXCEPT !["pump"] =
                     [binding |-> [req |-> r, id |-> 0, profile |-> p],
                      decision |-> NoDecision]]
        /\ UNCHANGED <<lock, linked>>
     \/ /\ ~IdFree(r)                             \* id already pending
        /\ Raise("pump")
        /\ UNCHANGED <<contract, sent>>
  /\ UNCHANGED <<srv, alive, tables, display>>

(* The decision of the response, None when the server resolved by itself.  *)
ResponseResult(r) ==
  IF contract[r].status = "response_sent" THEN sent[r][1].decision ELSE NoDecision

PumpContractResolve ==
  /\ pc["pump"] = "idle" /\ inbox # <<>> /\ Head(inbox).t = "resolved"
  /\ inbox' = Tail(inbox)
  /\ LET r == Head(inbox).req IN
     \/ /\ contract[r].status # "absent" /\ Head(inbox).match
        /\ contract' = [contract EXCEPT ![r] = NoEntry]
        /\ sent' = [sent EXCEPT ![r] = <<>>]
        /\ Goto("pump", "resolve")
        /\ job' = [job EXCEPT !["pump"] =
                     [binding |-> [req |-> r, id |-> 0, profile |-> contract[r].profile],
                      decision |-> ResponseResult(r)]]
        /\ UNCHANGED <<lock, linked>>
     \/ /\ contract[r].status = "absent" \/ ~Head(inbox).match
        /\ Raise("pump")
        /\ UNCHANGED <<contract, sent>>
  /\ UNCHANGED <<srv, alive, tables, display>>

(* next_message raises the fatal error at once: messages still queued are  *)
(* lost.                                                                   *)
PumpServerClosed ==
  /\ pc["pump"] = "idle" /\ ~alive
  /\ Raise("pump")
  /\ UNCHANGED <<srv, alive, inbox, contract, sent, tables, display>>

(* ... then the coordinator, under the coordinator's lock.                 *)
Register ==
  /\ pc["pump"] = "register" /\ lock = Nobody
  /\ LET r == job["pump"].binding.req
         b == [job["pump"].binding EXCEPT !.id = nextId + 1] IN
     \/ /\ r \in DOMAIN byRequest
        /\ Return("pump")
        /\ UNCHANGED tables
     \/ /\ r \notin DOMAIN byRequest
        /\ Acquire("pump")
        /\ nextId' = nextId + 1
        /\ bindings' = Append(bindings, b)
        /\ byRequest' = Put(byRequest, r, b)
        /\ byDevice' = Put(byDevice, b.id, b)
        /\ Goto("pump", "publish")
        /\ UNCHANGED job
  /\ UNCHANGED <<srv, alive, inbox, contract, sent, device>>

Resolve ==
  /\ pc["pump"] = "resolve" /\ lock = Nobody
  /\ LET r == job["pump"].binding.req IN
     \/ /\ r \notin DOMAIN byRequest
        /\ Return("pump")
        /\ UNCHANGED tables
     \/ /\ r \in DOMAIN byRequest
        /\ Acquire("pump")
        /\ LET b == byRequest[r] IN
           /\ byRequest' = Drop(byRequest, r)
           /\ bindings' = RemoveIndex(bindings, IndexOf(bindings, b))
           /\ byDevice' = Drop(byDevice, b.id)
           /\ Goto("pump", IF CurrentDeviceBinding(bindings) = b
                           THEN "send_resolved" ELSE "publish")
           /\ job' = [job EXCEPT !["pump"].binding = b]
        /\ UNCHANGED nextId
  /\ UNCHANGED <<srv, alive, inbox, contract, sent, device>>

(* The frame that tells the device its approval is over.                   *)
SendDeviceResolved ==
  /\ pc["pump"] = "send_resolved" /\ Holding("pump")
  /\ \/ /\ Goto("pump", "publish")
        /\ display' = IF linked /\ display.id = job["pump"].binding.id THEN NoFrame
                                                                       ELSE display
        /\ UNCHANGED <<lock, job, linked>>
     \/ /\ linked                                 \* OSError from the write
        /\ Raise("pump")
        /\ UNCHANGED display
  /\ UNCHANGED <<srv, alive, inbox, contract, sent, tables>>

-----------------------------------------------------------------------------
(* _publish_current_locked: the oldest visible binding and how many wait   *)
(* behind it.  Without one, or while the contract no longer knows it,      *)
(* nothing is sent.  Ends the critical section of every operation.         *)

(* Mutant: one too few requests behind the shown one.                      *)
ApprovalFrameMiscounted(b) ==
  [id |-> b.id, sending |-> FALSE, decisions |-> {},
   remaining |-> Cardinality(VisibleAt(bindings)) - 2]

ApprovalFrame(b) ==
  LET sending == contract[b.req].status = "response_sent" IN
  [id |-> b.id, sending |-> sending,
   decisions |-> IF sending THEN {} ELSE DeviceDecisions(b.profile),
   remaining |-> Cardinality(VisibleAt(bindings)) - 1]

(* Mutant: only requests awaiting a decision are published.                *)
PublishableAwaiting ==
  /\ VisibleAt(bindings) # {}
  /\ contract[CurrentDeviceBinding(bindings).req].status = "awaiting"

Publishable ==
  /\ VisibleAt(bindings) # {}
  /\ contract[CurrentDeviceBinding(bindings).req].status # "absent"

PublishCurrent(t) ==
  /\ pc[t] = "publish" /\ Holding(t)
  /\ \/ /\ ~Publishable \/ ~linked
        /\ Return(t)
        /\ UNCHANGED device
     \/ /\ Publishable /\ linked
        /\ Return(t)
        /\ display' = ApprovalFrame(CurrentDeviceBinding(bindings))
        /\ UNCHANGED linked
     \/ /\ Publishable /\ linked                  \* OSError from the write
        /\ Raise(t)
        /\ UNCHANGED display
  /\ UNCHANGED <<srv, alive, inbox, contract, sent, tables>>

-----------------------------------------------------------------------------
(* Decisions.  A call that fails one of the checks returns False and       *)
(* changes nothing, so the checks are guards.                              *)

(* Mutant: an answered request may be answered again.                      *)
AwaitingOrAnswered(b) == contract[b.req].status # "absent"

Awaiting(b) == contract[b.req].status = "awaiting"

StartRespond(t, b, d) ==
  /\ Acquire(t)
  /\ Awaiting(b)
  /\ d \in HostDecisions(b.profile)
  /\ Goto(t, "respond")
  /\ job' = [job EXCEPT ![t] = [binding |-> b, decision |-> d]]
  /\ UNCHANGED <<srv, alive, inbox, contract, sent, tables, device>>

HandleDeviceDecision(id, d) ==
  /\ pc["serial"] = "idle" /\ linked
  /\ VisibleAt(bindings) # {}
  /\ LET current == CurrentDeviceBinding(bindings) IN
     /\ current.id = id
     /\ d \in DeviceDecisions(current.profile)
     /\ StartRespond("serial", current, d)

RespondHost(id, d) ==
  /\ pc["main"] = "idle"
  /\ id \in DOMAIN byDevice
  /\ StartRespond("main", byDevice[id], d)

(* ApprovalContract._respond: the pump may have deleted the entry since    *)
(* Awaiting was checked, and the app-server may be gone.                   *)
Respond(t) ==
  /\ pc[t] = "respond" /\ Holding(t)
  /\ LET b == job[t].binding  r == b.req IN
     \/ /\ Awaiting(b) /\ contract[r].profile.kind = b.profile.kind /\ alive
        /\ sent' = [sent EXCEPT ![r] = Append(@, [decision |-> job[t].decision, by |-> t])]
        /\ contract' = [contract EXCEPT ![r].status = "response_sent"]
        /\ IF CurrentDeviceBinding(bindings) = b
           THEN Goto(t, "publish") /\ UNCHANGED <<lock, job>>
           ELSE Return(t)
        /\ UNCHANGED linked
     \/ /\ ~Awaiting(b) \/ contract[r].profile.kind # b.profile.kind \/ ~alive
        /\ Raise(t)
        /\ UNCHANGED <<contract, sent>>
  /\ UNCHANGED <<srv, alive, inbox, tables, display>>

(* Any other command: back at the top of the loop, raise_if_failed.        *)
ConsoleNoticesFailure ==
  /\ pc["main"] = "idle" /\ pc["pump"] = "dead"
  /\ Goto("main", "dead")
  /\ UNCHANGED <<srv, alive, inbox, contract, sent, tables, lock, job, device>>

-----------------------------------------------------------------------------
(* The USB link, seen from the coordinator.  Only the serial thread opens  *)
(* and drops it.  A new session clears the device's approval; the ready    *)
(* handler then republishes.                                               *)

LinkReady ==
  /\ pc["serial"] = "idle" /\ ~linked
  /\ linked' = TRUE
  /\ display' = NoFrame
  /\ Goto("serial", "republish")
  /\ UNCHANGED <<srv, alive, inbox, contract, sent, tables, lock, job>>

LinkLost ==
  /\ pc["serial"] = "idle" /\ linked
  /\ linked' = FALSE
  /\ UNCHANGED <<srv, alive, inbox, contract, sent, tables, lock, pc, job, display>>

Republish ==
  /\ pc["serial"] = "republish"
  /\ Acquire("serial")
  /\ Goto("serial", "publish")
  /\ UNCHANGED <<srv, alive, inbox, contract, sent, tables, job, device>>

-----------------------------------------------------------------------------
Init ==
  /\ srv = {} /\ alive = TRUE /\ inbox = <<>>
  /\ contract = [r \in Requests |-> NoEntry]
  /\ sent = [r \in Requests |-> <<>>]
  /\ bindings = <<>> /\ byRequest = <<>> /\ byDevice = <<>> /\ nextId = 0
  /\ lock = Nobody
  /\ pc = [t \in Threads |-> "idle"]
  /\ job = [t \in Threads |-> NoJob]
  /\ linked = FALSE /\ display = NoFrame

ServerStep ==
  \/ \E r \in Requests, p \in Profiles : ServerRequest(r, p)
  \/ \E r \in Requests, match \in BOOLEAN : ServerResolved(r, match)
  \/ ServerExits

PumpStep ==
  \/ PumpContractRegister \/ PumpContractResolve \/ PumpServerClosed
  \/ Register \/ Resolve \/ SendDeviceResolved \/ PublishCurrent("pump")

(* _on_message: a decision the device can express.                         *)
OnDecision ==
  \E id \in 1..nextId, d \in {"accept", "decline"} : HandleDeviceDecision(id, d)

(* "approve", "decline" and "cancel" of the console.                       *)
Execute ==
  \E id \in 1..nextId, d \in {"accept", "decline", "cancel"} : RespondHost(id, d)

SerialStep ==
  \/ OnDecision
  \/ Respond("serial") \/ PublishCurrent("serial")
  \/ LinkReady \/ LinkLost \/ Republish

MainStep ==
  \/ Execute
  \/ Respond("main") \/ PublishCurrent("main") \/ ConsoleNoticesFailure

Next == ServerStep \/ PumpStep \/ SerialStep \/ MainStep

Spec == Init /\ [][Next]_vars

-----------------------------------------------------------------------------
(* Fairness for the liveness property.  A thread that entered an operation *)
(* finishes it.  The pump gets the coordinator's lock eventually even if   *)
(* reconnects keep taking it: the serial thread leaves it free for the     *)
(* reconnect delay (0.25 s) in between, hence SF.  The app-server resolves *)
(* every request it was answered (external).                               *)
Fairness ==
  /\ WF_vars(PumpContractRegister) /\ WF_vars(PumpContractResolve)
  /\ WF_vars(PumpServerClosed)
  /\ SF_vars(Register) /\ SF_vars(Resolve) /\ WF_vars(SendDeviceResolved)
  /\ \A t \in Threads : WF_vars(PublishCurrent(t)) /\ WF_vars(Respond(t))
  /\ SF_vars(Republish)
  /\ \A r \in Requests :
       SF_vars(contract[r].status = "response_sent" /\ ServerResolved(r, TRUE))

FairSpec == Spec /\ Fairness

-----------------------------------------------------------------------------
(* Properties.                                                             *)

Message == [t : {"request", "resolved"}, req : Requests, profile : Profile, match : BOOLEAN]
Response == [decision : Decisions, by : Threads]

(* Type invariant of the tables, the threads' locals and the device view.  *)
TypeOK ==
  /\ srv \subseteq Requests /\ alive \in BOOLEAN
  /\ inbox \in Seq(Message)
  /\ contract \in [Requests -> Entry]
  /\ sent \in [Requests -> Seq(Response)]
  /\ bindings \in Seq(Binding)
  /\ DOMAIN byRequest \subseteq Requests
  /\ \A r \in DOMAIN byRequest : byRequest[r] \in Binding
  /\ DOMAIN byDevice \subseteq Nat
  /\ \A i \in DOMAIN byDevice : byDevice[i] \in Binding
  /\ nextId \in Nat
  /\ lock \in Threads \cup {Nobody}
  /\ pc \in [Threads -> PC]
  /\ job \in [Threads -> Job]
  /\ linked \in BOOLEAN
  /\ display \in Frame

(* A registration of a request is answered at most once, whichever of the  *)
(* console and the device answers and however the two interleave with the  *)
(* pump (safety.md: "respond exactly once").                               *)
OneResponse ==
  \A r \in Requests :
    /\ Len(sent[r]) <= 1
    /\ sent[r] # <<>> <=> contract[r].status = "response_sent"

(* What is sent was offered by the server for that very request; accept    *)
(* from the device only for a complete, normal-risk request of a slot,     *)
(* accept from the console only when nothing semantic is hidden.           *)
AnswerAllowed ==
  \A r \in Requests : \A i \in DOMAIN sent[r] :
    LET a == sent[r][i]  p == contract[r].profile IN
    /\ a.decision \in NormalizedSimpleDecisions(p)
    /\ a.decision = "accept" => SemanticComplete(p)
    /\ a.by = "serial" => p.mapped
    /\ a.by = "serial" /\ a.decision = "accept" => ContentComplete(p) /\ ~HighRisk(p)

(* The coordinator's list and its two dictionaries hold the same bindings, *)
(* keyed by their own ids, in the order of the ids; and they name exactly  *)
(* the contract's pending requests, except for the one request the pump    *)
(* has applied to the contract but not yet to the tables.                  *)
TablesAgree ==
  /\ {bindings[i] : i \in DOMAIN bindings} = {byRequest[r] : r \in DOMAIN byRequest}
  /\ {bindings[i] : i \in DOMAIN bindings} = {byDevice[d] : d \in DOMAIN byDevice}
  /\ \A r \in DOMAIN byRequest : byRequest[r].req = r
  /\ \A d \in DOMAIN byDevice : byDevice[d].id = d
  /\ \A i, j \in DOMAIN bindings : i < j => bindings[i].id < bindings[j].id
  /\ \A r \in Requests :
       IF pc["pump"] \in {"register", "resolve"} /\ job["pump"].binding.req = r
       THEN /\ contract[r].status # "absent" <=> pc["pump"] = "register"
            /\ r \in DOMAIN byRequest <=> pc["pump"] = "resolve"
       ELSE contract[r].status # "absent" <=> r \in DOMAIN byRequest

(* Whenever no operation is under way on a working link, the device shows  *)
(* the oldest visible pending request, with its current sending flag, its  *)
(* current decisions and the number of requests behind it -- or, when none *)
(* is visible, nothing.                                                    *)
DisplayCurrent ==
  (/\ linked /\ lock = Nobody
   /\ pc["pump"] \in {"idle", "register"}
   /\ pc["serial"] = "idle" /\ pc["main"] = "idle")
  => display = IF VisibleAt(bindings) = {} THEN NoFrame
               ELSE ApprovalFrame(CurrentDeviceBinding(bindings))

(* safety.md items 5 and 4: within a session the device's request is not   *)
(* replaced before it is resolved, and once shown as being sent it stays   *)
(* so until then.                                                          *)
ShownUntilResolved ==
  [][/\ display.id # 0 /\ display'.id # display.id /\ linked
          => display.id \notin DOMAIN byDevice'
     /\ display.sending /\ display'.id = display.id => display'.sending]_vars

(* An answered request leaves the queue, unless the pump has failed.       *)
AnsweredLeavesQueue ==
  \A r \in Requests :
    contract[r].status = "response_sent" ~> (r \notin DOMAIN byRequest \/ pc["pump"] = "dead")

(* Refinement: the contract's entries implement the abstract lifecycle.    *)
A == INSTANCE ApprovalSpec WITH
       status <- [r \in Requests |->
                    IF contract[r].status = "response_sent" THEN "answered"
                                                            ELSE contract[r].status],
       allowed <- [r \in Requests |-> HostDecisions(contract[r].profile)],
       answer <- [r \in Requests |->
                    IF sent[r] = <<>> THEN NoDecision ELSE sent[r][1].decision]

ImplementsApprovalSpec == A!Spec

(* README: the controller recovers from a USB disconnect.  With a correct, *)
(* running app-server the event pump should therefore survive; it does not *)
(* when a frame's write fails in the pump thread.                          *)
UsbFaultSparesPump == pc["pump"] = "dead" => ~alive
=============================================================================
