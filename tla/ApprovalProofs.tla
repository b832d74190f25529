--------------------------- MODULE ApprovalProofs ---------------------------
(***************************************************************************)
(* Proofs about Approval.tla, for any set of requests and any contents.    *)
(* The inductive invariant adds to the checked properties what the threads *)
(* know between two steps: which of them holds the lock, that the binding  *)
(* a responding thread read from a table is still in that table, and that  *)
(* a binding and the contract's entry describe the same registration.      *)
(***************************************************************************)
EXTENDS Approval, FiniteSetTheorems, WellFoundedInduction, TLAPS

(* A binding that the dictionaries still hold.                             *)
Bound(b) == b.req \in DOMAIN byRequest /\ byRequest[b.req] = b

TablesInv ==
  /\ \A i \in DOMAIN bindings : Bound(bindings[i]) /\ bindings[i].id \in 1..nextId
  /\ \A i, j \in DOMAIN bindings : i < j => bindings[i].id < bindings[j].id
  /\ \A r \in DOMAIN byRequest :
       /\ byRequest[r].req = r
       /\ \E i \in DOMAIN bindings : bindings[i] = byRequest[r]
       /\ byRequest[r].id \in DOMAIN byDevice
       /\ byDevice[byRequest[r].id] = byRequest[r]
  /\ \A d \in DOMAIN byDevice : byDevice[d].id = d /\ Bound(byDevice[d])

PhaseInv ==
  /\ pc["pump"] \in {"register", "resolve"} => job["pump"].binding.req \in Requests
  /\ \A r \in Requests :
       IF pc["pump"] \in {"register", "resolve"} /\ job["pump"].binding.req = r
       THEN /\ contract[r].status # "absent" <=> pc["pump"] = "register"
            /\ r \in DOMAIN byRequest <=> pc["pump"] = "resolve"
       ELSE contract[r].status # "absent" <=> r \in DOMAIN byRequest

ProfileInv ==
  /\ \A r \in DOMAIN byRequest :
       contract[r].status # "absent" => contract[r].profile = byRequest[r].profile
  /\ pc["pump"] = "register" =>
       contract[job["pump"].binding.req].profile = job["pump"].binding.profile

LockInv ==
  /\ \A t \in Threads : pc[t] \in {"send_resolved", "publish", "respond"} => lock = t
  /\ pc["pump"] \notin {"respond", "republish"}
  /\ pc["serial"] \notin {"register", "resolve", "send_resolved"}
  /\ pc["main"] \notin {"register", "resolve", "send_resolved", "republish"}

RespondInv ==
  \A t \in Threads : pc[t] = "respond" =>
    /\ Bound(job[t].binding)
    /\ job[t].decision \in HostDecisions(job[t].binding.profile)
    /\ t = "serial" => /\ job[t].binding.profile.mapped
                       /\ job[t].decision \in DeviceDecisions(job[t].binding.profile)

IInv == /\ TypeOK /\ TablesInv /\ PhaseInv /\ ProfileInv /\ LockInv /\ RespondInv
        /\ OneResponse /\ AnswerAllowed

-----------------------------------------------------------------------------
(* Lemmas about the operators of Approval.                                 *)

(* A nonempty set of naturals has a least element.                         *)
LEMMA LeastElement ==
  ASSUME NEW S \in SUBSET Nat, S # {}
  PROVE  \E m \in S : \A k \in S : m <= k
<1> DEFINE R == {ss \in Nat \X Nat : ss[1] < ss[2]}
<1>1. IsWellFoundedOn(R, Nat)
  BY NatLessThanWellFounded DEF OpToRel
<1> HIDE DEF R
<1>2. PICK x \in S : \A y \in S : ~ (<<y, x>> \in R)
  BY <1>1, WFMin
<1>3. \A y \in S : ~ (y < x)
  BY <1>2 DEF R
<1> QED BY <1>3

(* The binding the device is offered is one of the list, and visible.      *)
LEMMA CurrentIsVisible ==
  ASSUME NEW s \in Seq(Binding), VisibleAt(s) # {}
  PROVE  \E i \in DOMAIN s : /\ CurrentDeviceBinding(s) = s[i]
                             /\ DeviceVisible(s[i].profile)
<1>1. VisibleAt(s) \in SUBSET Nat
  BY DEF VisibleAt
<1>2. \E m \in VisibleAt(s) : \A k \in VisibleAt(s) : m <= k
  BY <1>1, LeastElement
<1> DEFINE c == CHOOSE i \in VisibleAt(s) : \A j \in VisibleAt(s) : i <= j
<1>3. c \in VisibleAt(s)
  BY <1>2
<1>4. CurrentDeviceBinding(s) = s[c]
  BY DEF CurrentDeviceBinding
<1> QED BY <1>3, <1>4 DEF VisibleAt

(* The number of requests behind the shown one is a natural number.        *)
LEMMA RemainingIsNat ==
  ASSUME NEW s \in Seq(Binding), VisibleAt(s) # {}
  PROVE  Cardinality(VisibleAt(s)) - 1 \in Nat
<1>1. IsFiniteSet(1..Len(s))
  BY FS_Interval
<1>2. VisibleAt(s) \subseteq 1..Len(s)
  BY DEF VisibleAt
<1>3. IsFiniteSet(VisibleAt(s))
  BY <1>1, <1>2, FS_Subset
<1>4. Cardinality(VisibleAt(s)) \in Nat /\ Cardinality(VisibleAt(s)) # 0
  BY <1>3, FS_CardinalityType, FS_EmptySet
<1> QED BY <1>4

(* list.remove finds the binding it is asked to remove.                    *)
LEMMA IndexOfFound ==
  ASSUME NEW s, NEW b, \E i \in DOMAIN s : s[i] = b
  PROVE  IndexOf(s, b) \in DOMAIN s /\ s[IndexOf(s, b)] = b
BY DEF IndexOf

(* A decision offered to the device is also allowed on the host: the       *)
(* device's set is never the larger one.                                   *)
LEMMA DeviceWithinHost ==
  ASSUME NEW p \in Profile
  PROVE  /\ DeviceDecisions(p) \subseteq HostDecisions(p)
         /\ HostDecisions(p) \subseteq Decisions
         /\ HostDecisions(p) \subseteq NormalizedSimpleDecisions(p)
<1>1. NormalizedSimpleDecisions(p) \subseteq Decisions
  BY DEF NormalizedSimpleDecisions, Profile, Decisions
<1> QED BY <1>1 DEF DeviceDecisions, HostDecisions, ContentComplete

(* Members of the contents considered, and the placeholder, are profiles.  *)
LEMMA ProfileFacts == NoProfile \in Profile /\ Profiles \subseteq Profile
BY ApprovalAssumption DEF NoProfile, Profile, Decisions

-----------------------------------------------------------------------------
(* Every step preserves the types.                                         *)

(* The placeholder for "no binding" is not a binding; the other            *)
(* placeholders have their types.                                          *)
LEMMA PlaceholderTypes ==
  NoBinding \notin Binding /\ NoJob \in Job /\ NoFrame \in Frame /\ NoEntry \in Entry
<1>1. NoBinding \notin Binding
  BY ApprovalAssumption DEF NoBinding, Binding
<1>2. NoJob \in Job /\ NoFrame \in Frame /\ NoEntry \in Entry
  BY ProfileFacts DEF NoJob, Job, NoFrame, Frame, NoEntry, Entry
<1> QED BY <1>1, <1>2

(* The initial tables and locals have their types.                         *)
LEMMA TypeInit == Init => TypeOK
<1> SUFFICES ASSUME Init PROVE TypeOK
  OBVIOUS
<1>1. DOMAIN byRequest = {} /\ DOMAIN byDevice = {} /\ bindings \in Seq(Binding)
  BY DEF Init
<1>2. inbox \in Seq(Message) /\ sent \in [Requests -> Seq(Response)]
  BY DEF Init
<1>3. contract \in [Requests -> Entry] /\ job \in [Threads -> Job] /\ display \in Frame
  BY PlaceholderTypes DEF Init
<1> QED BY <1>1, <1>2, <1>3 DEF Init, TypeOK, PC

(* Return and Raise, the two ways out of an operation, keep the types.     *)
LEMMA ExitTypes ==
  ASSUME TypeOK, NEW t \in Threads, Return(t) \/ Raise(t)
  PROVE  /\ lock' \in Threads \cup {Nobody}
         /\ pc' \in [Threads -> PC]
         /\ job' \in [Threads -> Job]
         /\ Raise(t) => linked' \in BOOLEAN
BY PlaceholderTypes DEF TypeOK, Return, Raise, PC

(* Moving a thread to one of the labels keeps the type of pc.              *)
LEMMA GotoTypes ==
  ASSUME TypeOK, NEW t \in Threads, NEW label \in PC, Goto(t, label)
  PROVE  pc' \in [Threads -> PC]
BY DEF TypeOK, Goto

(* Every step of every thread preserves the types; Register and Respond    *)
(* need the rest of the invariant to know that the binding they handle is  *)
(* one.                                                                    *)
LEMMA TypeStep == IInv /\ [Next]_vars => TypeOK'
<1> SUFFICES ASSUME IInv, [Next]_vars PROVE TypeOK'
  OBVIOUS
<1> USE DEF IInv
<1>T. "pump" \in Threads /\ "serial" \in Threads /\ "main" \in Threads
  BY DEF Threads
<1>1. ASSUME ServerStep PROVE TypeOK'
  <2>1. \A r \in Requests, p \in Profile, m \in BOOLEAN, k \in {"request", "resolved"} :
          [t |-> k, req |-> r, profile |-> p, match |-> m] \in Message
    BY DEF Message
  <2>2. inbox' \in Seq(Message) /\ srv' \subseteq Requests /\ alive' \in BOOLEAN
    <3>1. CASE ServerExits
      BY <3>1 DEF TypeOK, ServerExits
    <3>2. ASSUME NEW r \in Requests, NEW p \in Profiles, ServerRequest(r, p)
          PROVE  inbox' \in Seq(Message) /\ srv' \subseteq Requests /\ alive' \in BOOLEAN
      <4>1. [t |-> "request", req |-> r, profile |-> p, match |-> TRUE] \in Message
        BY <2>1, ProfileFacts
      <4> QED BY <3>2, <4>1 DEF TypeOK, ServerRequest
    <3>3. ASSUME NEW r \in Requests, NEW m \in BOOLEAN, ServerResolved(r, m)
          PROVE  inbox' \in Seq(Message) /\ srv' \subseteq Requests /\ alive' \in BOOLEAN
      <4>1. [t |-> "resolved", req |-> r, profile |-> NoProfile, match |-> m] \in Message
        BY <2>1, ProfileFacts
      <4> QED BY <3>3, <4>1 DEF TypeOK, ServerResolved
    <3> QED BY <1>1, <3>1, <3>2, <3>3 DEF ServerStep
  <2>3. UNCHANGED <<contract, sent, tables, lock, pc, job, device>>
    BY <1>1 DEF ServerStep, ServerRequest, ServerResolved, ServerExits
  <2> QED BY <2>2, <2>3 DEF TypeOK, tables, device
<1>2. ASSUME PumpContractRegister PROVE TypeOK'
  <2> DEFINE m == Head(inbox)
  <2>1. m \in Message /\ inbox' \in Seq(Message)
    BY <1>2 DEF PumpContractRegister, TypeOK
  <2>2. m.req \in Requests /\ m.profile \in Profile
    BY <2>1 DEF Message
  <2>3. CASE IdFree(m.req)
    <3>1. [status |-> "awaiting", profile |-> m.profile] \in Entry
      BY <2>2 DEF Entry
    <3>2. [req |-> m.req, id |-> 0, profile |-> m.profile] \in Binding
      BY <2>2 DEF Binding
    <3>3. [binding |-> [req |-> m.req, id |-> 0, profile |-> m.profile],
           decision |-> NoDecision] \in Job
      BY <3>2 DEF Job
    <3>4. contract' \in [Requests -> Entry]
      BY <1>2, <2>2, <2>3, <3>1 DEF PumpContractRegister, TypeOK
    <3>5. job' \in [Threads -> Job]
      BY <1>2, <1>T, <2>3, <3>3 DEF PumpContractRegister, TypeOK
    <3>6. pc' \in [Threads -> PC]
      BY <1>2, <1>T, <2>3, GotoTypes DEF PumpContractRegister, PC
    <3>7. UNCHANGED <<sent, lock, linked>>
      BY <1>2, <2>3 DEF PumpContractRegister
    <3> QED BY <1>2, <2>1, <3>4, <3>5, <3>6, <3>7 DEF PumpContractRegister, TypeOK, tables
  <2>4. CASE ~IdFree(m.req)
    <3>1. Raise("pump") /\ UNCHANGED <<contract, sent>>
      BY <1>2, <2>4 DEF PumpContractRegister
    <3> QED BY <1>2, <1>T, <2>1, <3>1, ExitTypes DEF PumpContractRegister, TypeOK, tables
  <2> QED BY <2>3, <2>4
<1>3. ASSUME PumpContractResolve PROVE TypeOK'
  <2> DEFINE m == Head(inbox)
  <2>1. m \in Message /\ inbox' \in Seq(Message)
    BY <1>3 DEF PumpContractResolve, TypeOK
  <2>2. m.req \in Requests
    BY <2>1 DEF Message
  <2>3. CASE contract[m.req].status # "absent" /\ m.match
    <3>1. contract[m.req].profile \in Profile
      BY <2>2 DEF TypeOK, Entry
    <3>2. [req |-> m.req, id |-> 0, profile |-> contract[m.req].profile] \in Binding
      BY <2>2, <3>1 DEF Binding
    <3>3. ResponseResult(m.req) \in Decisions \cup {NoDecision}
      <4>1. CASE contract[m.req].status = "response_sent"
        <5>1. sent[m.req] \in Seq(Response) /\ sent[m.req] # <<>>
          BY <2>2, <4>1 DEF TypeOK, OneResponse
        <5>2. sent[m.req][1] \in Response
          BY <5>1
        <5> QED BY <4>1, <5>2 DEF ResponseResult, Response
      <4> QED BY <4>1 DEF ResponseResult
    <3>4. [binding |-> [req |-> m.req, id |-> 0, profile |-> contract[m.req].profile],
           decision |-> ResponseResult(m.req)] \in Job
      BY <3>2, <3>3 DEF Job
    <3>5. contract' \in [Requests -> Entry] /\ sent' \in [Requests -> Seq(Response)]
      <4>1. <<>> \in Seq(Response)
        OBVIOUS
      <4>2. contract' = [contract EXCEPT ![m.req] = NoEntry] /\ sent' = [sent EXCEPT ![m.req] = <<>>]
        BY <1>3, <2>3 DEF PumpContractResolve
      <4> QED BY <2>2, <4>1, <4>2, PlaceholderTypes DEF TypeOK
    <3>6. job' \in [Threads -> Job]
      BY <1>3, <1>T, <2>3, <3>4 DEF PumpContractResolve, TypeOK
    <3>7. pc' \in [Threads -> PC]
      BY <1>3, <1>T, <2>3, GotoTypes DEF PumpContractResolve, PC
    <3>8. UNCHANGED <<lock, linked>>
      BY <1>3, <2>3 DEF PumpContractResolve
    <3> QED BY <1>3, <2>1, <3>5, <3>6, <3>7, <3>8 DEF PumpContractResolve, TypeOK, tables
  <2>4. CASE ~(contract[m.req].status # "absent" /\ m.match)
    <3>1. Raise("pump") /\ UNCHANGED <<contract, sent>>
      BY <1>3, <2>4 DEF PumpContractResolve
    <3> QED BY <1>3, <1>T, <2>1, <3>1, ExitTypes DEF PumpContractResolve, TypeOK, tables
  <2> QED BY <2>3, <2>4
<1>4. ASSUME PumpServerClosed PROVE TypeOK'
  BY <1>4, <1>T, ExitTypes DEF TypeOK, PumpServerClosed, tables
<1>5. ASSUME Register PROVE TypeOK'
  <2> DEFINE r == job["pump"].binding.req
             b == [job["pump"].binding EXCEPT !.id = nextId + 1]
  <2>1. r \in Requests /\ b \in Binding /\ b.id = nextId + 1 /\ nextId \in Nat
    <3>1. job["pump"].binding \in Binding \cup {NoBinding}
      BY <1>T DEF TypeOK, Job
    <3>2. r \in Requests
      BY <1>5 DEF Register, PhaseInv
    <3>3. job["pump"].binding \in Binding
      BY <3>1, <3>2, ApprovalAssumption DEF NoBinding
    <3>4. nextId \in Nat
      BY DEF TypeOK
    <3> QED BY <3>2, <3>3, <3>4 DEF Binding
  <2>2. CASE r \in DOMAIN byRequest
    <3>1. Return("pump") /\ UNCHANGED tables
      BY <1>5, <2>2 DEF Register
    <3> QED BY <1>5, <1>T, <3>1, ExitTypes DEF Register, TypeOK, tables, device
  <2>3. CASE r \notin DOMAIN byRequest
    <3>1. /\ lock' = "pump" /\ nextId' = nextId + 1
          /\ bindings' = Append(bindings, b)
          /\ byRequest' = Put(byRequest, r, b)
          /\ byDevice' = Put(byDevice, b.id, b)
          /\ Goto("pump", "publish") /\ UNCHANGED job
      BY <1>5, <2>3 DEF Register, Acquire
    <3>2. bindings' \in Seq(Binding)
      BY <2>1, <3>1 DEF TypeOK
    <3>3. /\ DOMAIN byRequest' \subseteq Requests
          /\ \A x \in DOMAIN byRequest' : byRequest'[x] \in Binding
      BY <2>1, <3>1 DEF TypeOK, Put
    <3>4. /\ DOMAIN byDevice' \subseteq Nat
          /\ \A x \in DOMAIN byDevice' : byDevice'[x] \in Binding
      BY <2>1, <3>1 DEF TypeOK, Put
    <3>5. pc' \in [Threads -> PC]
      BY <1>T, <3>1, GotoTypes DEF PC
    <3>6. nextId' \in Nat /\ lock' \in Threads \cup {Nobody} /\ job' \in [Threads -> Job]
      BY <1>T, <2>1, <3>1 DEF TypeOK
    <3>7. UNCHANGED <<srv, alive, inbox, contract, sent, device>>
      BY <1>5 DEF Register
    <3> QED BY <3>2, <3>3, <3>4, <3>5, <3>6, <3>7 DEF TypeOK, device
  <2> QED BY <2>2, <2>3
<1>6. ASSUME Resolve PROVE TypeOK'
  <2> DEFINE r == job["pump"].binding.req
             b == byRequest[r]
  <2>1. CASE r \notin DOMAIN byRequest
    <3>1. Return("pump") /\ UNCHANGED tables
      BY <1>6, <2>1 DEF Resolve
    <3> QED BY <1>6, <1>T, <3>1, ExitTypes DEF Resolve, TypeOK, tables, device
  <2>2. CASE r \in DOMAIN byRequest
    <3>1. /\ lock' = "pump" /\ UNCHANGED nextId
          /\ byRequest' = Drop(byRequest, r)
          /\ bindings' = RemoveIndex(bindings, IndexOf(bindings, b))
          /\ byDevice' = Drop(byDevice, b.id)
          /\ Goto("pump", "send_resolved") \/ Goto("pump", "publish")
          /\ job' = [job EXCEPT !["pump"].binding = b]
      BY <1>6, <2>2 DEF Resolve, Acquire
    <3>2. b \in Binding /\ \E i \in DOMAIN bindings : bindings[i] = b
      BY <2>2 DEF TypeOK, TablesInv
    <3>3. IndexOf(bindings, b) \in 1..Len(bindings)
      <4>1. IndexOf(bindings, b) \in DOMAIN bindings
        BY <3>2, IndexOfFound
      <4> QED BY <4>1 DEF TypeOK
    <3>4. bindings' \in Seq(Binding)
      <4> DEFINE k == IndexOf(bindings, b)
      <4>1. Len(bindings) - 1 \in Nat
        BY <3>3 DEF TypeOK
      <4>2. \A j \in 1..(Len(bindings) - 1) :
              (IF j < k THEN bindings[j] ELSE bindings[j + 1]) \in Binding
        BY <3>3 DEF TypeOK
      <4> QED BY <3>1, <4>1, <4>2 DEF RemoveIndex
    <3>5. job' \in [Threads -> Job]
      BY <1>T, <3>1, <3>2 DEF TypeOK, Job
    <3>6. pc' \in [Threads -> PC]
      BY <1>T, <3>1, GotoTypes DEF PC
    <3> QED BY <1>6, <1>T, <3>1, <3>4, <3>5, <3>6 DEF Resolve, TypeOK, Drop, device
  <2> QED BY <2>1, <2>2
<1>7. ASSUME SendDeviceResolved PROVE TypeOK'
  <2>1. CASE Raise("pump") /\ UNCHANGED display
    BY <1>7, <1>T, <2>1, ExitTypes DEF SendDeviceResolved, TypeOK, tables
  <2>2. CASE Goto("pump", "publish") /\ UNCHANGED <<lock, job, linked>>
    <3>1. pc' \in [Threads -> PC]
      BY <1>T, <2>2, GotoTypes DEF PC
    <3>2. display' \in Frame
      BY <1>7, PlaceholderTypes DEF SendDeviceResolved, TypeOK
    <3> QED BY <1>7, <2>2, <3>1, <3>2 DEF SendDeviceResolved, TypeOK, tables
  <2> QED BY <1>7, <2>1, <2>2 DEF SendDeviceResolved
<1>8. ASSUME NEW t \in Threads, PublishCurrent(t) PROVE TypeOK'
  <2>1. ASSUME Publishable PROVE ApprovalFrame(CurrentDeviceBinding(bindings)) \in Frame
    <3>1. PICK i \in DOMAIN bindings : CurrentDeviceBinding(bindings) = bindings[i]
      BY <2>1, CurrentIsVisible DEF Publishable, TypeOK
    <3>2. bindings[i] \in Binding
      BY <3>1 DEF TypeOK
    <3>3. Cardinality(VisibleAt(bindings)) - 1 \in Nat
      BY <2>1, RemainingIsNat DEF Publishable, TypeOK
    <3>4. DeviceDecisions(bindings[i].profile) \subseteq Decisions /\ bindings[i].id \in Nat
      BY <3>2, DeviceWithinHost DEF Binding
    <3> QED BY <3>1, <3>3, <3>4 DEF ApprovalFrame, Frame
  <2>2. CASE Return(t) /\ UNCHANGED device
    BY <1>8, <2>2, ExitTypes DEF PublishCurrent, TypeOK, tables, device
  <2>3. CASE /\ Publishable /\ Return(t) /\ UNCHANGED linked
             /\ display' = ApprovalFrame(CurrentDeviceBinding(bindings))
    BY <1>8, <2>1, <2>3, ExitTypes DEF PublishCurrent, TypeOK, tables
  <2>4. CASE Raise(t) /\ UNCHANGED display
    BY <1>8, <2>4, ExitTypes DEF PublishCurrent, TypeOK, tables
  <2> QED BY <1>8, <2>2, <2>3, <2>4 DEF PublishCurrent
<1>9. ASSUME NEW t \in Threads, NEW b \in Binding, NEW d \in Decisions, StartRespond(t, b, d)
      PROVE  TypeOK'
  <2>1. [binding |-> b, decision |-> d] \in Job
    BY DEF Job
  <2>2. pc' \in [Threads -> PC]
    BY <1>9, GotoTypes DEF StartRespond, PC
  <2> QED BY <1>9, <2>1, <2>2 DEF StartRespond, Acquire, TypeOK, tables, device
<1>10. ASSUME NEW id \in 1..nextId, NEW d \in Decisions,
              HandleDeviceDecision(id, d) \/ RespondHost(id, d)
       PROVE  TypeOK'
  <2>1. CASE HandleDeviceDecision(id, d)
    <3>1. CurrentDeviceBinding(bindings) \in Binding
      BY <2>1, CurrentIsVisible DEF HandleDeviceDecision, TypeOK
    <3> QED BY <1>9, <1>T, <2>1, <3>1 DEF HandleDeviceDecision
  <2>2. CASE RespondHost(id, d)
    BY <1>9, <1>T, <2>2 DEF RespondHost, TypeOK
  <2> QED BY <1>10, <2>1, <2>2
<1>11. ASSUME NEW t \in Threads, Respond(t) PROVE TypeOK'
  <2> DEFINE b == job[t].binding
             r == b.req
  <2>1. CASE Raise(t) /\ UNCHANGED <<contract, sent>>
    BY <1>11, <2>1, ExitTypes DEF Respond, TypeOK, tables
  <2>2. CASE /\ sent' = [sent EXCEPT ![r] = Append(@, [decision |-> job[t].decision, by |-> t])]
             /\ contract' = [contract EXCEPT ![r].status = "response_sent"]
             /\ (Goto(t, "publish") /\ UNCHANGED <<lock, job>>) \/ Return(t)
             /\ UNCHANGED linked
    <3>1. b \in Binding /\ r \in Requests /\ job[t].decision \in Decisions
      <4>1. b \in Binding /\ job[t].decision \in HostDecisions(b.profile)
        BY <1>11 DEF Respond, RespondInv, Bound, TypeOK
      <4> QED BY <4>1, DeviceWithinHost DEF Binding
    <3>2. [decision |-> job[t].decision, by |-> t] \in Response
      BY <3>1 DEF Response
    <3>3. sent' \in [Requests -> Seq(Response)]
      BY <2>2, <3>1, <3>2 DEF TypeOK
    <3>4. contract' \in [Requests -> Entry]
      BY <2>2, <3>1 DEF TypeOK, Entry
    <3>5. pc' \in [Threads -> PC] /\ lock' \in Threads \cup {Nobody} /\ job' \in [Threads -> Job]
      BY <2>2, ExitTypes, GotoTypes DEF PC, TypeOK
    <3> QED BY <1>11, <2>2, <3>3, <3>4, <3>5 DEF Respond, TypeOK, tables
  <2> QED BY <1>11, <2>1, <2>2 DEF Respond
<1>12. ASSUME LinkReady \/ LinkLost \/ Republish \/ ConsoleNoticesFailure PROVE TypeOK'
  <2>1. pc' \in [Threads -> PC]
    BY <1>12, <1>T, GotoTypes DEF LinkReady, LinkLost, Republish, ConsoleNoticesFailure, PC, TypeOK
  <2> QED
    BY <1>12, <1>T, <2>1, PlaceholderTypes DEF TypeOK, LinkReady, LinkLost, Republish,
       ConsoleNoticesFailure, Acquire, tables, device
<1>13. CASE UNCHANGED vars
  BY <1>13 DEF TypeOK, vars, tables, device
<1> QED
  BY <1>1, <1>2, <1>3, <1>4, <1>5, <1>6, <1>7, <1>8, <1>10, <1>11, <1>12, <1>13, <1>T
     DEF Next, PumpStep, SerialStep, MainStep, OnDecision, Execute, Decisions

-----------------------------------------------------------------------------
(* Every step preserves the rest of the invariant.                         *)

(* The invariant holds initially, when every table is empty.               *)
LEMMA InvInit == Init => IInv
<1> SUFFICES ASSUME Init PROVE IInv
  OBVIOUS
<1>1. DOMAIN byRequest = {} /\ DOMAIN byDevice = {} /\ DOMAIN bindings = {}
  BY DEF Init
<1>2. TablesInv /\ ProfileInv
  BY <1>1 DEF Init, TablesInv, ProfileInv, Threads
<1>3. PhaseInv
  BY <1>1 DEF Init, PhaseInv, NoEntry, Threads
<1>4. LockInv /\ RespondInv
  BY DEF Init, LockInv, RespondInv, Threads
<1>5. OneResponse /\ AnswerAllowed
  BY DEF Init, OneResponse, AnswerAllowed, NoEntry
<1> QED BY <1>2, <1>3, <1>4, <1>5, TypeInit DEF IInv

(* A thread inside the coordinator's critical section holds its lock, and  *)
(* each thread runs only its own operations.                               *)
LEMMA LockStep == IInv /\ [Next]_vars => LockInv'
<1> SUFFICES ASSUME IInv, [Next]_vars PROVE LockInv'
  OBVIOUS
<1> USE DEF IInv, LockInv, TypeOK, Threads, Nobody
<1>1. CASE ServerStep
  BY <1>1 DEF ServerStep, ServerRequest, ServerResolved, ServerExits
<1>2. CASE PumpContractRegister
  BY <1>2 DEF PumpContractRegister, Raise, Goto
<1>3. CASE PumpContractResolve
  BY <1>3 DEF PumpContractResolve, Raise, Goto
<1>4. CASE PumpServerClosed
  BY <1>4 DEF PumpServerClosed, Raise
<1>5. CASE Register
  BY <1>5 DEF Register, Return, Acquire, Goto
<1>6. CASE Resolve
  BY <1>6 DEF Resolve, Return, Acquire, Goto
<1>7. CASE SendDeviceResolved
  BY <1>7 DEF SendDeviceResolved, Raise, Goto, Holding
<1>8. ASSUME NEW t \in Threads, PublishCurrent(t) PROVE LockInv'
  BY <1>8 DEF PublishCurrent, Return, Raise, Holding
<1>9. ASSUME NEW id \in 1..nextId, NEW d \in Decisions,
             HandleDeviceDecision(id, d) \/ RespondHost(id, d)
      PROVE  LockInv'
  BY <1>9 DEF HandleDeviceDecision, RespondHost, StartRespond, Acquire, Goto
<1>10. ASSUME NEW t \in Threads, Respond(t) PROVE LockInv'
  BY <1>10 DEF Respond, Return, Raise, Goto, Holding
<1>11. CASE LinkReady \/ LinkLost \/ Republish \/ ConsoleNoticesFailure
  BY <1>11 DEF LinkReady, LinkLost, Republish, ConsoleNoticesFailure, Acquire, Goto
<1>12. CASE UNCHANGED vars
  BY <1>12 DEF vars
<1> QED
  BY <1>1, <1>2, <1>3, <1>4, <1>5, <1>6, <1>7, <1>8, <1>9, <1>10, <1>11, <1>12
     DEF Next, PumpStep, SerialStep, MainStep, OnDecision, Execute, Decisions

(* Only Register and Resolve touch the tables, and under the invariant     *)
(* neither takes its early return.                                         *)
LEMMA OtherStepsKeepTables ==
  ASSUME [Next]_vars, ~Register, ~Resolve
  PROVE  UNCHANGED tables
BY DEF Next, vars, ServerStep, PumpStep, SerialStep, MainStep, OnDecision, Execute,
   Decisions, ServerRequest, ServerResolved,
   ServerExits, PumpContractRegister, PumpContractResolve, PumpServerClosed,
   SendDeviceResolved, PublishCurrent, HandleDeviceDecision, RespondHost, StartRespond,
   Respond, LinkReady, LinkLost, Republish, ConsoleNoticesFailure

(* The effect of Register: a binding with a fresh id is appended and       *)
(* entered in both dictionaries.                                           *)
LEMMA RegisterAdds ==
  ASSUME IInv, Register
  PROVE  \E b \in Binding :
           /\ b.req = job["pump"].binding.req /\ b.profile = job["pump"].binding.profile
           /\ b.id = nextId + 1 /\ b.req \notin DOMAIN byRequest
           /\ bindings' = Append(bindings, b)
           /\ byRequest' = Put(byRequest, b.req, b)
           /\ byDevice' = Put(byDevice, b.id, b)
           /\ nextId' = nextId + 1
           /\ Goto("pump", "publish")
           /\ UNCHANGED <<job, contract, sent>>
<1> DEFINE r == job["pump"].binding.req
           b == [job["pump"].binding EXCEPT !.id = nextId + 1]
<1>1. r \in Requests /\ r \notin DOMAIN byRequest
  BY DEF IInv, PhaseInv, Register
<1>2. job["pump"].binding \in Binding
  <2>1. job["pump"].binding \in Binding \cup {NoBinding}
    BY DEF IInv, TypeOK, Job, Threads
  <2> QED BY <1>1, <2>1, ApprovalAssumption DEF NoBinding
<1>3. nextId \in Nat
  BY DEF IInv, TypeOK
<1>4. b \in Binding /\ b.req = r /\ b.profile = job["pump"].binding.profile /\ b.id = nextId + 1
  BY <1>2, <1>3 DEF Binding
<1>5. /\ bindings' = Append(bindings, b)
      /\ byRequest' = Put(byRequest, r, b)
      /\ byDevice' = Put(byDevice, b.id, b)
      /\ nextId' = nextId + 1
      /\ Goto("pump", "publish")
      /\ UNCHANGED <<job, contract, sent>>
  BY <1>1 DEF Register
<1> HIDE DEF b
<1> QED BY <1>1, <1>4, <1>5

(* The effect of Resolve: one binding leaves the list and both             *)
(* dictionaries.                                                           *)
LEMMA ResolveRemoves ==
  ASSUME IInv, Resolve
  PROVE  \E b \in Binding, k \in DOMAIN bindings :
           /\ b.req = job["pump"].binding.req /\ b.req \in DOMAIN byRequest
           /\ byRequest[b.req] = b /\ bindings[k] = b
           /\ bindings' = RemoveIndex(bindings, k)
           /\ byRequest' = Drop(byRequest, b.req)
           /\ byDevice' = Drop(byDevice, b.id)
           /\ nextId' = nextId
           /\ Goto("pump", "send_resolved") \/ Goto("pump", "publish")
           /\ job' = [job EXCEPT !["pump"].binding = b]
           /\ UNCHANGED <<contract, sent>>
<1> DEFINE r == job["pump"].binding.req
           b == byRequest[r]
           k == IndexOf(bindings, b)
<1>1. r \in Requests /\ r \in DOMAIN byRequest
  BY DEF IInv, PhaseInv, Resolve
<1>2. b \in Binding /\ b.req = r /\ \E i \in DOMAIN bindings : bindings[i] = b
  BY <1>1 DEF IInv, TypeOK, TablesInv
<1>3. k \in DOMAIN bindings /\ bindings[k] = b
  BY <1>2, IndexOfFound
<1>4. /\ bindings' = RemoveIndex(bindings, k)
      /\ byRequest' = Drop(byRequest, r)
      /\ byDevice' = Drop(byDevice, b.id)
      /\ nextId' = nextId
      /\ Goto("pump", "send_resolved") \/ Goto("pump", "publish")
      /\ job' = [job EXCEPT !["pump"].binding = b]
      /\ UNCHANGED <<contract, sent>>
  BY <1>1 DEF Resolve
<1> HIDE DEF b, k
<1>5. byRequest[r] = b
  BY DEF b
<1> QED BY <1>1, <1>2, <1>3, <1>4, <1>5

(* Registering and resolving keep the list and the dictionaries in step.   *)
LEMMA TablesStep == IInv /\ [Next]_vars => TablesInv'
<1> SUFFICES ASSUME IInv, [Next]_vars PROVE TablesInv'
  OBVIOUS
<1>0. bindings \in Seq(Binding) /\ nextId \in Nat /\ TablesInv
  BY DEF IInv, TypeOK
<1>a. \A i \in DOMAIN bindings :
        /\ bindings[i].req \in DOMAIN byRequest
        /\ byRequest[bindings[i].req] = bindings[i]
        /\ bindings[i].id \in 1..nextId
  BY <1>0 DEF TablesInv, Bound
<1>b. \A d \in DOMAIN byDevice :
        /\ byDevice[d].id = d
        /\ byDevice[d].req \in DOMAIN byRequest
        /\ byRequest[byDevice[d].req] = byDevice[d]
  BY <1>0 DEF TablesInv, Bound
<1>c. \A r \in DOMAIN byRequest :
        byRequest[r].req = r /\ \E i \in DOMAIN bindings : bindings[i] = byRequest[r]
  BY <1>0 DEF TablesInv
<1>d. \A i, j \in DOMAIN bindings : i < j => bindings[i].id < bindings[j].id
  BY <1>0 DEF TablesInv
<1>1. CASE Register
  <2>1. PICK b \in Binding :
           /\ b.id = nextId + 1 /\ b.req \notin DOMAIN byRequest
           /\ bindings' = Append(bindings, b)
           /\ byRequest' = Put(byRequest, b.req, b)
           /\ byDevice' = Put(byDevice, b.id, b)
           /\ nextId' = nextId + 1
    BY <1>1, RegisterAdds
  <2>2. /\ DOMAIN bindings' = 1..(Len(bindings) + 1)
        /\ \A i \in DOMAIN bindings : i \in DOMAIN bindings' /\ bindings'[i] = bindings[i]
        /\ bindings'[Len(bindings) + 1] = b
        /\ DOMAIN bindings = 1..Len(bindings) /\ Len(bindings) \in Nat
    BY <1>0, <2>1
  <2>3. /\ DOMAIN byRequest' = DOMAIN byRequest \cup {b.req}
        /\ byRequest'[b.req] = b
        /\ \A x \in DOMAIN byRequest : byRequest'[x] = byRequest[x]
    BY <2>1 DEF Put
  <2>4. /\ DOMAIN byDevice' = DOMAIN byDevice \cup {b.id}
        /\ byDevice'[b.id] = b
        /\ \A x \in DOMAIN byDevice \ {b.id} : byDevice'[x] = byDevice[x]
    BY <2>1 DEF Put
  <2>5. \A i \in DOMAIN bindings : bindings[i].id \in 1..nextId
    BY <1>0 DEF TablesInv
  <2>6. b.id \notin DOMAIN byDevice
    <3>1. \A d \in DOMAIN byDevice : \E i \in DOMAIN bindings : bindings[i].id = d
      BY <1>b, <1>c
    <3> QED BY <1>0, <2>1, <2>5, <3>1
  <2>7. \A i \in DOMAIN bindings' : Bound(bindings[i])' /\ bindings'[i].id \in 1..nextId'
    <3> SUFFICES ASSUME NEW i \in DOMAIN bindings'
                 PROVE  /\ bindings'[i].req \in DOMAIN byRequest'
                        /\ byRequest'[bindings'[i].req] = bindings'[i]
                        /\ bindings'[i].id \in 1..nextId'
      BY DEF Bound
    <3>1. CASE i \in DOMAIN bindings
      BY <1>0, <1>a, <2>1, <2>2, <2>3, <3>1
    <3>2. CASE bindings'[i] = b
      BY <1>0, <2>1, <2>3, <3>2
    <3> QED BY <2>2, <3>1, <3>2
  <2>8. \A i, j \in DOMAIN bindings' : i < j => bindings'[i].id < bindings'[j].id
    BY <1>0, <2>1, <2>2, <2>5 DEF TablesInv
  <2>9. \A r \in DOMAIN byRequest' :
          /\ byRequest'[r].req = r
          /\ \E i \in DOMAIN bindings' : bindings'[i] = byRequest'[r]
    BY <1>0, <2>1, <2>2, <2>3 DEF TablesInv
  <2>10. \A r \in DOMAIN byRequest' :
          /\ byRequest'[r].id \in DOMAIN byDevice'
          /\ byDevice'[byRequest'[r].id] = byRequest'[r]
    BY <1>0, <2>3, <2>4, <2>6 DEF TablesInv
  <2>11. \A d \in DOMAIN byDevice' : byDevice'[d].id = d /\ Bound(byDevice[d])'
    BY <1>0, <2>1, <2>3, <2>4, <2>6 DEF TablesInv, Bound
  <2> QED BY <2>7, <2>8, <2>9, <2>10, <2>11 DEF TablesInv
<1>2. CASE Resolve
  <2>1. PICK b \in Binding, k \in DOMAIN bindings :
           /\ b.req \in DOMAIN byRequest /\ byRequest[b.req] = b /\ bindings[k] = b
           /\ bindings' = RemoveIndex(bindings, k)
           /\ byRequest' = Drop(byRequest, b.req)
           /\ byDevice' = Drop(byDevice, b.id)
           /\ nextId' = nextId
    BY <1>2, ResolveRemoves
  <2> DEFINE n == Len(bindings)
  <2>2. /\ DOMAIN bindings = 1..n /\ n \in Nat /\ k \in 1..n
        /\ DOMAIN bindings' = 1..(n - 1)
        /\ \A i \in 1..(n - 1) : bindings'[i] = IF i < k THEN bindings[i] ELSE bindings[i + 1]
    BY <1>0, <2>1 DEF RemoveIndex
  <2> HIDE DEF n
  <2>3. /\ DOMAIN byRequest' = DOMAIN byRequest \ {b.req}
        /\ \A x \in DOMAIN byRequest' : byRequest'[x] = byRequest[x]
    BY <2>1 DEF Drop
  <2>4. /\ DOMAIN byDevice' = DOMAIN byDevice \ {b.id}
        /\ \A x \in DOMAIN byDevice' : byDevice'[x] = byDevice[x]
    BY <2>1 DEF Drop
  <2>5. \A i, j \in DOMAIN bindings : i # j => bindings[i].id # bindings[j].id
    <3>1. \A i \in DOMAIN bindings : i \in Nat /\ bindings[i].id \in Nat
      BY <1>0, <2>2 DEF TablesInv
    <3> QED BY <1>0, <3>1 DEF TablesInv
  <2>6. \A i \in DOMAIN bindings \ {k} : bindings[i].req # b.req
    BY <1>a, <2>1, <2>5
  <2>7. \A i \in DOMAIN bindings' :
          \E j \in DOMAIN bindings \ {k} : bindings'[i] = bindings[j]
    BY <2>2
  <2>8. \A j \in DOMAIN bindings \ {k} :
          \E i \in DOMAIN bindings' : bindings'[i] = bindings[j]
    <3> SUFFICES ASSUME NEW j \in DOMAIN bindings \ {k}
                 PROVE  \E i \in DOMAIN bindings' : bindings'[i] = bindings[j]
      OBVIOUS
    <3>1. CASE j < k
      BY <2>2, <3>1
    <3>2. CASE j > k
      <4>1. j - 1 \in DOMAIN bindings' /\ bindings'[j - 1] = bindings[j]
        BY <2>2, <3>2
      <4> QED BY <4>1
    <3> QED BY <2>2, <3>1, <3>2
  <2>9. \A i \in DOMAIN bindings' : Bound(bindings[i])' /\ bindings'[i].id \in 1..nextId'
    <3> SUFFICES ASSUME NEW i \in DOMAIN bindings'
                 PROVE  Bound(bindings[i])' /\ bindings'[i].id \in 1..nextId'
      OBVIOUS
    <3>1. PICK j \in DOMAIN bindings \ {k} : bindings'[i] = bindings[j]
      BY <2>7
    <3> QED BY <1>a, <2>1, <2>3, <2>6, <3>1 DEF Bound
  <2>10. \A i, j \in DOMAIN bindings' : i < j => bindings'[i].id < bindings'[j].id
    <3> SUFFICES ASSUME NEW i \in DOMAIN bindings', NEW j \in DOMAIN bindings', i < j
                 PROVE  bindings'[i].id < bindings'[j].id
      OBVIOUS
    <3>1. i \in 1..(n - 1) /\ j \in 1..(n - 1) /\ i \in DOMAIN bindings /\ j \in DOMAIN bindings
          /\ i + 1 \in DOMAIN bindings /\ j + 1 \in DOMAIN bindings
      BY <2>2
    <3>2. CASE j < k
      BY <1>d, <2>2, <3>1, <3>2
    <3>3. CASE ~(j < k) /\ i < k
      <4>1. i < j + 1 /\ bindings'[i] = bindings[i] /\ bindings'[j] = bindings[j + 1]
        BY <2>2, <3>1, <3>3
      <4> QED BY <1>d, <3>1, <4>1
    <3>4. CASE ~(j < k) /\ ~(i < k)
      <4>1. i + 1 < j + 1 /\ bindings'[i] = bindings[i + 1] /\ bindings'[j] = bindings[j + 1]
        BY <2>2, <3>1, <3>4
      <4> QED BY <1>d, <3>1, <4>1
    <3> QED BY <3>2, <3>3, <3>4
  <2>11. \A r \in DOMAIN byRequest' :
          /\ byRequest'[r].req = r
          /\ \E i \in DOMAIN bindings' : bindings'[i] = byRequest'[r]
    BY <1>0, <2>1, <2>3, <2>8 DEF TablesInv
  <2>12. \A r \in DOMAIN byRequest' : byRequest'[r].id # b.id
    BY <1>0, <2>1, <2>3, <2>5 DEF TablesInv
  <2>13. \A r \in DOMAIN byRequest' :
          /\ byRequest'[r].id \in DOMAIN byDevice'
          /\ byDevice'[byRequest'[r].id] = byRequest'[r]
    BY <1>0, <2>3, <2>4, <2>12 DEF TablesInv
  <2>14. \A d \in DOMAIN byDevice' : byDevice'[d].id = d /\ Bound(byDevice[d])'
    <3>1. \A d \in DOMAIN byDevice' : byDevice[d].req # b.req
      BY <1>b, <2>1, <2>4
    <3> QED BY <1>b, <2>3, <2>4, <3>1 DEF Bound
  <2> QED BY <2>9, <2>10, <2>11, <2>13, <2>14 DEF TablesInv
<1>3. CASE ~Register /\ ~Resolve
  BY <1>0, <1>3, OtherStepsKeepTables DEF TablesInv, Bound, tables
<1> QED BY <1>1, <1>2, <1>3

(* Apart from the pump's four table steps, a step neither opens nor closes *)
(* a contract entry and leaves a pump that is between the contract and the *)
(* tables where it is.                                                     *)
LEMMA OtherStepsQuiet ==
  ASSUME IInv, [Next]_vars,
         ~PumpContractRegister, ~PumpContractResolve, ~Register, ~Resolve
  PROVE  /\ UNCHANGED byRequest
         /\ \A r \in Requests :
              /\ contract'[r].status = "absent" <=> contract[r].status = "absent"
              /\ contract'[r].profile = contract[r].profile
         /\ (pc["pump"] \in {"register", "resolve"} \/ pc'["pump"] \in {"register", "resolve"})
              => pc'["pump"] = pc["pump"] /\ job'["pump"] = job["pump"]
<1>1. UNCHANGED byRequest
  BY OtherStepsKeepTables DEF tables
<1>2. \A r \in Requests :
        /\ contract'[r].status = "absent" <=> contract[r].status = "absent"
        /\ contract'[r].profile = contract[r].profile
  <2>1. ASSUME NEW t \in Threads, Respond(t), contract' # contract
        PROVE  \A r \in Requests :
                 /\ contract'[r].status = "absent" <=> contract[r].status = "absent"
                 /\ contract'[r].profile = contract[r].profile
    <3> DEFINE q == job[t].binding.req
    <3>1. /\ contract' = [contract EXCEPT ![q].status = "response_sent"]
          /\ contract[q].status = "awaiting"
      BY <2>1 DEF Respond, Awaiting
    <3>2. contract \in [Requests -> Entry]
      BY DEF IInv, TypeOK
    <3> QED BY <3>1, <3>2 DEF Entry
  <2>2. CASE UNCHANGED contract
    BY <2>2
  <2>3. \/ UNCHANGED contract \/ \E t \in Threads : Respond(t)
    BY DEF Next, vars, ServerStep, PumpStep, SerialStep, MainStep, OnDecision, Execute,
       Decisions, ServerRequest, ServerResolved,
       ServerExits, PumpServerClosed, SendDeviceResolved, PublishCurrent, HandleDeviceDecision,
       RespondHost, StartRespond, LinkReady, LinkLost, Republish, ConsoleNoticesFailure, Threads
  <2> QED BY <2>1, <2>2, <2>3
<1>3. (pc["pump"] \in {"register", "resolve"} \/ pc'["pump"] \in {"register", "resolve"})
        => pc'["pump"] = pc["pump"] /\ job'["pump"] = job["pump"]
  <2> USE DEF Threads
  <2>0. pc \in [Threads -> PC] /\ job \in [Threads -> Job] /\ LockInv
    BY DEF IInv, TypeOK
  <2>1. CASE ServerStep \/ UNCHANGED vars
    BY <2>1 DEF ServerStep, ServerRequest, ServerResolved, ServerExits, vars
  <2>2. CASE PumpServerClosed \/ SendDeviceResolved \/ PublishCurrent("pump")
    BY <2>0, <2>2 DEF PumpServerClosed, SendDeviceResolved, PublishCurrent, Return, Raise, Goto
  <2>3. ASSUME NEW t \in {"serial", "main"}, PublishCurrent(t) \/ Respond(t)
        PROVE  pc'["pump"] = pc["pump"] /\ job'["pump"] = job["pump"]
    BY <2>0, <2>3 DEF PublishCurrent, Respond, Return, Raise, Goto
  <2>4. ASSUME NEW id \in 1..nextId, NEW d \in Decisions,
               HandleDeviceDecision(id, d) \/ RespondHost(id, d)
        PROVE  pc'["pump"] = pc["pump"] /\ job'["pump"] = job["pump"]
    BY <2>0, <2>4 DEF HandleDeviceDecision, RespondHost, StartRespond, Goto
  <2>5. CASE LinkReady \/ LinkLost \/ Republish \/ ConsoleNoticesFailure
    BY <2>0, <2>5 DEF LinkReady, LinkLost, Republish, ConsoleNoticesFailure, Goto
  <2> QED BY <2>1, <2>2, <2>3, <2>4, <2>5
     DEF Next, PumpStep, SerialStep, MainStep, OnDecision, Execute, Decisions
<1> QED BY <1>1, <1>2, <1>3

(* The effect of the pump's two contract steps, by branch.                 *)
LEMMA ContractRegisters ==
  ASSUME IInv, PumpContractRegister
  PROVE  \E r \in Requests, p \in Profile :
           /\ pc["pump"] = "idle" /\ UNCHANGED <<sent, byRequest>>
           /\ \/ /\ contract[r].status = "absent"
                 /\ contract' = [contract EXCEPT ![r] = [status |-> "awaiting", profile |-> p]]
                 /\ pc'["pump"] = "register"
                 /\ job'["pump"] = [binding |-> [req |-> r, id |-> 0, profile |-> p],
                                    decision |-> NoDecision]
              \/ UNCHANGED contract /\ pc'["pump"] = "dead"
<1> DEFINE m == Head(inbox)
<1>1. m \in Message /\ pc \in [Threads -> PC] /\ job \in [Threads -> Job]
  BY DEF IInv, PumpContractRegister, TypeOK
<1>2. m.req \in Requests /\ m.profile \in Profile /\ "pump" \in Threads
  BY <1>1 DEF Message, Threads
<1>3. CASE IdFree(m.req)
  <2> DEFINE j == [binding |-> [req |-> m.req, id |-> 0, profile |-> m.profile],
                   decision |-> NoDecision]
  <2>1. /\ contract' = [contract EXCEPT ![m.req] = [status |-> "awaiting", profile |-> m.profile]]
        /\ contract[m.req].status = "absent"
        /\ Goto("pump", "register") /\ job' = [job EXCEPT !["pump"] = j]
        /\ pc["pump"] = "idle" /\ UNCHANGED <<sent, byRequest>>
    BY <1>3 DEF PumpContractRegister, IdFree, tables
  <2> HIDE DEF j
  <2>2. pc'["pump"] = "register" /\ job'["pump"] = j
    BY <1>1, <1>2, <2>1 DEF Goto
  <2> QED BY <1>2, <2>1, <2>2 DEF j
<1>4. CASE ~IdFree(m.req)
  <2>1. Raise("pump") /\ pc["pump"] = "idle" /\ UNCHANGED <<contract, sent, byRequest>>
    BY <1>4 DEF PumpContractRegister, tables
  <2>2. pc'["pump"] = "dead"
    BY <1>1, <1>2, <2>1 DEF Raise
  <2> QED BY <1>2, <2>1, <2>2
<1> QED BY <1>3, <1>4

(* The same for a resolution.                                              *)
LEMMA ContractResolves ==
  ASSUME IInv, PumpContractResolve
  PROVE  \E r \in Requests :
           /\ pc["pump"] = "idle" /\ UNCHANGED byRequest
           /\ \/ /\ contract[r].status # "absent"
                 /\ contract' = [contract EXCEPT ![r] = NoEntry]
                 /\ sent' = [sent EXCEPT ![r] = <<>>]
                 /\ pc'["pump"] = "resolve"
                 /\ job'["pump"].binding.req = r
              \/ UNCHANGED <<contract, sent>> /\ pc'["pump"] = "dead"
<1> DEFINE m == Head(inbox)
<1>1. m \in Message /\ pc \in [Threads -> PC] /\ job \in [Threads -> Job]
  BY DEF IInv, PumpContractResolve, TypeOK
<1>2. m.req \in Requests /\ "pump" \in Threads
  BY <1>1 DEF Message, Threads
<1>3. CASE contract[m.req].status # "absent" /\ m.match
  <2> DEFINE j == [binding |-> [req |-> m.req, id |-> 0, profile |-> contract[m.req].profile],
                   decision |-> ResponseResult(m.req)]
  <2>1. /\ contract' = [contract EXCEPT ![m.req] = NoEntry]
        /\ sent' = [sent EXCEPT ![m.req] = <<>>]
        /\ Goto("pump", "resolve") /\ job' = [job EXCEPT !["pump"] = j]
        /\ pc["pump"] = "idle" /\ UNCHANGED byRequest
    BY <1>3 DEF PumpContractResolve, tables
  <2>2. j.binding.req = m.req
    OBVIOUS
  <2> HIDE DEF j
  <2>3. pc'["pump"] = "resolve" /\ job'["pump"] = j
    BY <1>1, <1>2, <2>1 DEF Goto
  <2> QED BY <1>2, <1>3, <2>1, <2>2, <2>3
<1>4. CASE ~(contract[m.req].status # "absent" /\ m.match)
  <2>1. Raise("pump") /\ pc["pump"] = "idle" /\ UNCHANGED <<contract, sent, byRequest>>
    BY <1>4 DEF PumpContractResolve, tables
  <2>2. pc'["pump"] = "dead"
    BY <1>1, <1>2, <2>1 DEF Raise
  <2> QED BY <1>2, <2>1, <2>2
<1> QED BY <1>3, <1>4

(* The contract and the tables name the same requests with the same        *)
(* contents, up to the request the pump is working on.                     *)
LEMMA PhaseStep == IInv /\ [Next]_vars => PhaseInv' /\ ProfileInv'
<1> SUFFICES ASSUME IInv, [Next]_vars PROVE PhaseInv' /\ ProfileInv'
  OBVIOUS
<1>0. /\ PhaseInv /\ ProfileInv /\ contract \in [Requests -> Entry]
      /\ pc \in [Threads -> PC] /\ "pump" \in Threads
      /\ DOMAIN byRequest \subseteq Requests
  BY DEF IInv, TypeOK, Threads
<1>1. CASE PumpContractRegister
  <2>1. PICK r \in Requests, p \in Profile :
           /\ pc["pump"] = "idle" /\ UNCHANGED <<sent, byRequest>>
           /\ \/ /\ contract[r].status = "absent"
                 /\ contract' = [contract EXCEPT ![r] = [status |-> "awaiting", profile |-> p]]
                 /\ pc'["pump"] = "register"
                 /\ job'["pump"] = [binding |-> [req |-> r, id |-> 0, profile |-> p],
                                    decision |-> NoDecision]
              \/ UNCHANGED contract /\ pc'["pump"] = "dead"
    BY <1>1, ContractRegisters
  <2>2. CASE UNCHANGED contract /\ pc'["pump"] = "dead"
    BY <1>0, <2>1, <2>2 DEF PhaseInv, ProfileInv
  <2>3. CASE ~(UNCHANGED contract /\ pc'["pump"] = "dead")
    <3>1. /\ contract'[r].status = "awaiting" /\ contract'[r].profile = p
          /\ \A q \in Requests \ {r} : contract'[q] = contract[q]
          /\ job'["pump"].binding.req = r /\ job'["pump"].binding.profile = p
          /\ pc'["pump"] = "register" /\ byRequest' = byRequest /\ pc["pump"] = "idle"
          /\ contract[r].status = "absent"
      BY <1>0, <2>1, <2>3
    <3>2. r \notin DOMAIN byRequest
      BY <1>0, <3>1 DEF PhaseInv
    <3>3. PhaseInv'
      BY <1>0, <3>1, <3>2 DEF PhaseInv
    <3> QED BY <1>0, <3>1, <3>2, <3>3 DEF ProfileInv
  <2> QED BY <2>2, <2>3
<1>2. CASE PumpContractResolve
  <2>1. PICK r \in Requests :
           /\ pc["pump"] = "idle" /\ UNCHANGED byRequest
           /\ \/ /\ contract[r].status # "absent"
                 /\ contract' = [contract EXCEPT ![r] = NoEntry]
                 /\ sent' = [sent EXCEPT ![r] = <<>>]
                 /\ pc'["pump"] = "resolve"
                 /\ job'["pump"].binding.req = r
              \/ UNCHANGED <<contract, sent>> /\ pc'["pump"] = "dead"
    BY <1>2, ContractResolves
  <2>2. CASE UNCHANGED contract /\ pc'["pump"] = "dead"
    BY <1>0, <2>1, <2>2 DEF PhaseInv, ProfileInv
  <2>3. CASE ~(UNCHANGED contract /\ pc'["pump"] = "dead")
    <3>1. /\ contract'[r].status = "absent"
          /\ \A q \in Requests \ {r} : contract'[q] = contract[q]
          /\ job'["pump"].binding.req = r
          /\ pc'["pump"] = "resolve" /\ byRequest' = byRequest /\ pc["pump"] = "idle"
          /\ contract[r].status # "absent"
      BY <1>0, <2>1, <2>3 DEF NoEntry
    <3>2. r \in DOMAIN byRequest
      BY <1>0, <3>1 DEF PhaseInv
    <3>3. PhaseInv'
      BY <1>0, <3>1, <3>2 DEF PhaseInv
    <3> QED BY <1>0, <3>1, <3>2, <3>3 DEF ProfileInv
  <2> QED BY <2>2, <2>3
<1>3. CASE Register
  <2>1. PICK b \in Binding :
           /\ b.req = job["pump"].binding.req /\ b.profile = job["pump"].binding.profile
           /\ b.req \notin DOMAIN byRequest
           /\ byRequest' = Put(byRequest, b.req, b)
           /\ Goto("pump", "publish")
           /\ UNCHANGED contract
    BY <1>3, RegisterAdds
  <2>2. /\ DOMAIN byRequest' = DOMAIN byRequest \cup {b.req}
        /\ byRequest'[b.req] = b
        /\ \A x \in DOMAIN byRequest : byRequest'[x] = byRequest[x]
    BY <2>1 DEF Put
  <2>3. pc["pump"] = "register" /\ pc'["pump"] = "publish"
    BY <1>0, <1>3, <2>1 DEF Register, Goto
  <2>4. PhaseInv'
    BY <1>0, <2>1, <2>2, <2>3 DEF PhaseInv
  <2> QED BY <1>0, <2>1, <2>2, <2>3, <2>4 DEF ProfileInv
<1>4. CASE Resolve
  <2>1. PICK b \in Binding :
           /\ b.req = job["pump"].binding.req
           /\ byRequest' = Drop(byRequest, b.req)
           /\ Goto("pump", "send_resolved") \/ Goto("pump", "publish")
           /\ UNCHANGED contract
    BY <1>4, ResolveRemoves
  <2>2. /\ DOMAIN byRequest' = DOMAIN byRequest \ {b.req}
        /\ \A x \in DOMAIN byRequest' : byRequest'[x] = byRequest[x]
    BY <2>1 DEF Drop
  <2>3. pc["pump"] = "resolve" /\ pc'["pump"] \in {"send_resolved", "publish"}
    BY <1>0, <1>4, <2>1 DEF Resolve, Goto
  <2>4. PhaseInv'
    BY <1>0, <2>1, <2>2, <2>3 DEF PhaseInv
  <2> QED BY <1>0, <2>1, <2>2, <2>3, <2>4 DEF ProfileInv
<1>5. CASE ~PumpContractRegister /\ ~PumpContractResolve /\ ~Register /\ ~Resolve
  <2>1. /\ UNCHANGED byRequest
        /\ \A r \in Requests :
             /\ contract'[r].status = "absent" <=> contract[r].status = "absent"
             /\ contract'[r].profile = contract[r].profile
        /\ (pc["pump"] \in {"register", "resolve"} \/ pc'["pump"] \in {"register", "resolve"})
             => pc'["pump"] = pc["pump"] /\ job'["pump"] = job["pump"]
    BY <1>5, OtherStepsQuiet
  <2>2. PhaseInv'
    BY <1>0, <2>1 DEF PhaseInv
  <2>3. ProfileInv'
    <3>1. \A r \in DOMAIN byRequest' :
            contract'[r].status # "absent" => contract'[r].profile = byRequest'[r].profile
      BY <1>0, <2>1 DEF ProfileInv
    <3>2. pc'["pump"] = "register" =>
            contract'[job'["pump"].binding.req].profile = job'["pump"].binding.profile
      BY <1>0, <2>1 DEF ProfileInv, PhaseInv
    <3> QED BY <3>1, <3>2 DEF ProfileInv
  <2> QED BY <2>2, <2>3
<1> QED BY <1>1, <1>2, <1>3, <1>4, <1>5

(* A thread is about to respond because it was, or because it just read a  *)
(* binding from the tables.                                                *)
LEMMA EntersRespond ==
  ASSUME IInv, [Next]_vars, NEW t \in Threads, pc'[t] = "respond"
  PROVE  \/ pc[t] = "respond" /\ job'[t] = job[t]
         \/ \E id \in 1..nextId, d \in Decisions :
              \/ t = "serial" /\ HandleDeviceDecision(id, d)
              \/ t = "main" /\ RespondHost(id, d)
<1> USE DEF Threads
<1>0. pc \in [Threads -> PC] /\ job \in [Threads -> Job] /\ LockInv
  BY DEF IInv, TypeOK
<1>1. CASE ServerStep \/ UNCHANGED vars
  BY <1>1 DEF ServerStep, ServerRequest, ServerResolved, ServerExits, vars
<1>2. CASE PumpContractRegister \/ PumpContractResolve
  BY <1>0, <1>2 DEF PumpContractRegister, PumpContractResolve, Raise, Goto
<1>3. CASE PumpServerClosed \/ SendDeviceResolved
  BY <1>0, <1>3 DEF PumpServerClosed, SendDeviceResolved, Raise, Goto
<1>4. CASE Register
  BY <1>0, <1>4 DEF Register, Return, Goto
<1>5. CASE Resolve
  BY <1>0, <1>5 DEF Resolve, Return, Goto
<1>6. ASSUME NEW u \in Threads, PublishCurrent(u) \/ Respond(u)
      PROVE  pc[t] = "respond" /\ job'[t] = job[t]
  BY <1>0, <1>6 DEF PublishCurrent, Respond, Return, Raise, Goto
<1>7. ASSUME NEW id \in 1..nextId, NEW d \in Decisions,
             HandleDeviceDecision(id, d) \/ RespondHost(id, d)
      PROVE  \/ pc[t] = "respond" /\ job'[t] = job[t]
             \/ t = "serial" /\ HandleDeviceDecision(id, d)
             \/ t = "main" /\ RespondHost(id, d)
  BY <1>0, <1>7 DEF HandleDeviceDecision, RespondHost, StartRespond, Goto
<1>8. CASE LinkReady \/ LinkLost \/ Republish \/ ConsoleNoticesFailure
  BY <1>0, <1>8 DEF LinkReady, LinkLost, Republish, ConsoleNoticesFailure, Goto
<1> QED BY <1>1, <1>2, <1>3, <1>4, <1>5, <1>6, <1>7, <1>8
        DEF Next, PumpStep, SerialStep, MainStep, OnDecision, Execute, Decisions

(* A thread about to respond holds the lock, so the binding it read stays  *)
(* in the tables until it has responded.                                   *)
LEMMA RespondStep == IInv /\ [Next]_vars => RespondInv'
<1> SUFFICES ASSUME IInv, [Next]_vars, NEW t \in Threads, pc'[t] = "respond"
             PROVE  /\ Bound(job[t].binding)'
                    /\ job'[t].decision \in HostDecisions(job'[t].binding.profile)
                    /\ t = "serial" =>
                         /\ job'[t].binding.profile.mapped
                         /\ job'[t].decision \in DeviceDecisions(job'[t].binding.profile)
  BY DEF RespondInv
<1>0. /\ pc \in [Threads -> PC] /\ job \in [Threads -> Job] /\ TablesInv /\ RespondInv /\ LockInv
      /\ bindings \in Seq(Binding)
  BY DEF IInv, TypeOK
<1>1. CASE pc[t] = "respond" /\ job'[t] = job[t]
  <2>1. lock # Nobody
    BY <1>0, <1>1 DEF LockInv, Threads, Nobody
  <2>2. UNCHANGED tables
    BY <2>1, OtherStepsKeepTables DEF Register, Resolve
  <2> QED BY <1>0, <1>1, <2>2 DEF RespondInv, Bound, tables
<1>2. ASSUME NEW id \in 1..nextId, NEW d \in Decisions, t = "serial", HandleDeviceDecision(id, d)
      PROVE  /\ Bound(job[t].binding)'
             /\ job'[t].decision \in HostDecisions(job'[t].binding.profile)
             /\ job'[t].binding.profile.mapped
             /\ job'[t].decision \in DeviceDecisions(job'[t].binding.profile)
  <2> DEFINE b == CurrentDeviceBinding(bindings)
  <2>1. /\ VisibleAt(bindings) # {} /\ d \in DeviceDecisions(b.profile)
        /\ StartRespond(t, b, d)
    BY <1>2 DEF HandleDeviceDecision
  <2>2. PICK i \in DOMAIN bindings : b = bindings[i] /\ DeviceVisible(bindings[i].profile)
    BY <1>0, <2>1, CurrentIsVisible
  <2> HIDE DEF b
  <2>3. job'[t] = [binding |-> b, decision |-> d] /\ d \in HostDecisions(b.profile)
        /\ UNCHANGED byRequest
    BY <1>0, <2>1 DEF StartRespond, tables
  <2>4. Bound(b)
    BY <1>0, <2>2 DEF TablesInv
  <2> QED BY <2>1, <2>2, <2>3, <2>4 DEF Bound, DeviceVisible
<1>3. ASSUME NEW id \in 1..nextId, NEW d \in Decisions, t = "main", RespondHost(id, d)
      PROVE  /\ Bound(job[t].binding)'
             /\ job'[t].decision \in HostDecisions(job'[t].binding.profile)
  <2> DEFINE b == byDevice[id]
  <2>1. id \in DOMAIN byDevice /\ StartRespond(t, b, d)
    BY <1>3 DEF RespondHost
  <2>2. Bound(b)
    BY <1>0, <2>1 DEF TablesInv
  <2> HIDE DEF b
  <2>3. job'[t] = [binding |-> b, decision |-> d] /\ d \in HostDecisions(b.profile)
        /\ UNCHANGED byRequest
    BY <1>0, <2>1 DEF StartRespond, tables
  <2> QED BY <2>2, <2>3 DEF Bound
<1> QED BY <1>1, <1>2, <1>3, EntersRespond

(* Only these steps change the contract.                                   *)
LEMMA ContractSteps ==
  ASSUME [Next]_vars
  PROVE  \/ UNCHANGED <<contract, sent>> \/ PumpContractRegister \/ PumpContractResolve
         \/ \E t \in Threads : Respond(t)
BY DEF Next, vars, ServerStep, PumpStep, SerialStep, MainStep, OnDecision, Execute,
   Decisions, ServerRequest, ServerResolved,
   ServerExits, PumpServerClosed, Register, Resolve, SendDeviceResolved, PublishCurrent,
   HandleDeviceDecision, RespondHost, StartRespond, LinkReady, LinkLost, Republish,
   ConsoleNoticesFailure, Threads

(* The contract and the responses written change together.                 *)
LEMMA ContractStep == IInv /\ [Next]_vars => OneResponse' /\ AnswerAllowed'
<1> SUFFICES ASSUME IInv, [Next]_vars PROVE OneResponse' /\ AnswerAllowed'
  OBVIOUS
<1>0. /\ contract \in [Requests -> Entry] /\ sent \in [Requests -> Seq(Response)]
      /\ OneResponse /\ AnswerAllowed
  BY DEF IInv, TypeOK
<1>1. CASE UNCHANGED <<contract, sent>>
  BY <1>0, <1>1 DEF OneResponse, AnswerAllowed
<1>2. ASSUME NEW r \in Requests,
             \A q \in Requests \ {r} : contract'[q] = contract[q] /\ sent'[q] = sent[q],
             sent'[r] = <<>>, contract'[r].status # "response_sent"
      PROVE  OneResponse' /\ AnswerAllowed'
  <2>1. OneResponse'
    BY <1>0, <1>2 DEF OneResponse
  <2> QED BY <1>0, <1>2, <2>1 DEF AnswerAllowed
<1>3. CASE PumpContractRegister
  <2>1. PICK r \in Requests, p \in Profile :
           /\ UNCHANGED sent
           /\ \/ /\ contract[r].status = "absent"
                 /\ contract' = [contract EXCEPT ![r] = [status |-> "awaiting", profile |-> p]]
              \/ UNCHANGED contract
    BY <1>3, ContractRegisters
  <2>2. CASE /\ contract[r].status = "absent"
             /\ contract' = [contract EXCEPT ![r] = [status |-> "awaiting", profile |-> p]]
    <3>1. sent'[r] = <<>>
      BY <1>0, <2>1, <2>2 DEF OneResponse
    <3>2. /\ contract'[r].status = "awaiting"
          /\ \A q \in Requests \ {r} : contract'[q] = contract[q] /\ sent'[q] = sent[q]
      BY <1>0, <2>1, <2>2
    <3> QED BY <1>2, <3>1, <3>2
  <2> QED BY <1>1, <2>1, <2>2
<1>4. CASE PumpContractResolve
  <2>1. PICK r \in Requests :
           \/ contract' = [contract EXCEPT ![r] = NoEntry] /\ sent' = [sent EXCEPT ![r] = <<>>]
           \/ UNCHANGED <<contract, sent>>
    BY <1>4, ContractResolves
  <2>2. CASE contract' = [contract EXCEPT ![r] = NoEntry] /\ sent' = [sent EXCEPT ![r] = <<>>]
    <3>1. /\ contract'[r].status = "absent" /\ sent'[r] = <<>>
          /\ \A q \in Requests \ {r} : contract'[q] = contract[q] /\ sent'[q] = sent[q]
      BY <1>0, <2>2 DEF NoEntry
    <3> QED BY <1>2, <3>1
  <2> QED BY <1>1, <2>1, <2>2
<1>5. ASSUME NEW t \in Threads, Respond(t) PROVE OneResponse' /\ AnswerAllowed'
  <2> DEFINE b == job[t].binding
             r == b.req
             a == [decision |-> job[t].decision, by |-> t]
  <2>1. CASE UNCHANGED <<contract, sent>>
    BY <1>1, <2>1
  <2>2. CASE ~UNCHANGED <<contract, sent>>
    <3>1. /\ sent' = [sent EXCEPT ![r] = Append(@, a)]
          /\ contract' = [contract EXCEPT ![r].status = "response_sent"]
          /\ contract[r].status = "awaiting"
      BY <1>5, <2>2 DEF Respond, Awaiting
    <3>2. /\ Bound(b) /\ job[t].decision \in HostDecisions(b.profile)
          /\ t = "serial" => /\ b.profile.mapped
                             /\ job[t].decision \in DeviceDecisions(b.profile)
      BY <1>5 DEF Respond, IInv, RespondInv
    <3>3. r \in Requests /\ b \in Binding /\ b.profile \in Profile
      <4>1. r \in Requests /\ b \in Binding
        BY <3>2 DEF Bound, IInv, TypeOK
      <4> QED BY <4>1 DEF Binding
    <3>4. contract[r].profile = b.profile
      BY <3>1, <3>2 DEF Bound, IInv, ProfileInv
    <3>5. sent[r] = <<>>
      BY <1>0, <3>1, <3>3 DEF OneResponse
    <3>6. job[t].decision \in Decisions
      BY <3>2, <3>3, DeviceWithinHost
    <3>7. /\ sent'[r] = <<a>>
          /\ contract'[r].status = "response_sent"
          /\ contract'[r].profile = b.profile
          /\ \A q \in Requests \ {r} : contract'[q] = contract[q] /\ sent'[q] = sent[q]
      BY <1>0, <3>1, <3>3, <3>4, <3>5 DEF Entry
    <3>8. OneResponse'
      <4>1. Len(sent'[r]) <= 1 /\ sent'[r] # <<>> /\ contract'[r].status = "response_sent"
        BY <3>7
      <4> HIDE DEF r
      <4>2. ASSUME NEW q \in Requests
            PROVE  /\ Len(sent'[q]) <= 1
                   /\ sent'[q] # <<>> <=> contract'[q].status = "response_sent"
        <5>1. CASE q = r
          <6>1. sent'[q] = sent'[r] /\ contract'[q] = contract'[r]
            BY <5>1
          <6> QED BY <4>1, <6>1, Zenon
        <5>2. CASE q # r
          BY <1>0, <3>7, <5>2 DEF OneResponse
        <5> QED BY <5>1, <5>2
      <4> QED BY <4>2 DEF OneResponse
    <3>9. /\ a.decision \in NormalizedSimpleDecisions(b.profile)
          /\ a.decision = "accept" => SemanticComplete(b.profile)
          /\ a.by = "serial" => b.profile.mapped
          /\ a.by = "serial" /\ a.decision = "accept"
               => ContentComplete(b.profile) /\ ~HighRisk(b.profile)
      BY <3>2, <3>3, DeviceWithinHost DEF HostDecisions, DeviceDecisions
    <3>10. AnswerAllowed'
      BY <1>0, <3>3, <3>7, <3>9 DEF AnswerAllowed
    <3> QED BY <3>8, <3>10
  <2> QED BY <2>1, <2>2
<1>6. \/ UNCHANGED <<contract, sent>> \/ PumpContractRegister \/ PumpContractResolve
      \/ \E t \in Threads : Respond(t)
  BY ContractSteps
<1> QED BY <1>1, <1>3, <1>4, <1>5, <1>6

-----------------------------------------------------------------------------
(* Theorems.                                                               *)

(* The inductive invariant holds in every reachable state.                 *)
THEOREM Invariance == Spec => []IInv
<1>1. IInv /\ [Next]_vars => IInv'
  BY TypeStep, TablesStep, PhaseStep, LockStep, RespondStep, ContractStep DEF IInv
<1> QED BY <1>1, InvInit, PTL DEF Spec

(* Tables, thread locals and device view keep their types.                 *)
THEOREM TypeCorrect == Spec => []TypeOK
<1>1. IInv => TypeOK
  BY DEF IInv
<1> QED BY <1>1, Invariance, PTL

(* Every registration is answered at most once, and is marked as answered  *)
(* exactly when a response was written, however the console, the serial    *)
(* thread and the pump interleave and whatever the server sends.           *)
THEOREM AnsweredOnce == Spec => []OneResponse
<1>1. IInv => OneResponse
  BY DEF IInv
<1> QED BY <1>1, Invariance, PTL

(* Every answer was offered for that registration, and the device accepts  *)
(* only complete, normal-risk requests of a slot.                          *)
THEOREM OnlyAllowedAnswers == Spec => []AnswerAllowed
<1>1. IInv => AnswerAllowed
  BY DEF IInv
<1> QED BY <1>1, Invariance, PTL

(* The coordinator's three tables agree with one another and with the      *)
(* contract, up to the one request the pump is working on.                 *)
THEOREM TablesStayInStep == Spec => []TablesAgree
<1>1. IInv => TablesAgree
  <2> SUFFICES ASSUME IInv PROVE TablesAgree
    OBVIOUS
  <2>1. TablesInv /\ PhaseInv
    BY DEF IInv
  <2>2. {bindings[i] : i \in DOMAIN bindings} = {byRequest[r] : r \in DOMAIN byRequest}
    BY <2>1 DEF TablesInv, Bound
  <2>3. {bindings[i] : i \in DOMAIN bindings} = {byDevice[d] : d \in DOMAIN byDevice}
    BY <2>1 DEF TablesInv, Bound
  <2> QED BY <2>1, <2>2, <2>3 DEF TablesAgree, TablesInv, PhaseInv
<1> QED BY <1>1, Invariance, PTL

-----------------------------------------------------------------------------
(* Refinement.                                                             *)

AbsStatus(e) == IF e.status = "response_sent" THEN "answered" ELSE e.status
AbsAnswer(s) == IF s = <<>> THEN NoDecision ELSE s[1].decision

(* The placeholder profile offers no decision, as a closed request does.   *)
LEMMA NoProfileOffersNothing == HostDecisions(NoProfile) = {}
BY DEF HostDecisions, NormalizedSimpleDecisions, NoProfile

(* The host's initial state maps to the abstract initial state.            *)
LEMMA RefinesInit == Init => A!Init
<1> SUFFICES ASSUME Init PROVE A!Init
  OBVIOUS
<1>1. \A r \in Requests : contract[r] = NoEntry /\ sent[r] = <<>>
  BY DEF Init
<1>2. \A r \in Requests : /\ contract[r].status = "absent"
                          /\ HostDecisions(contract[r].profile) = {}
  BY <1>1, NoProfileOffersNothing DEF NoEntry
<1> QED BY <1>1, <1>2 DEF A!Init, A!NoAnswer, NoDecision

(* Every step maps to an abstract step or a stutter: the register and      *)
(* resolve steps of the contract to Open and Close, a response to Answer.  *)
LEMMA RefinesStep == IInv /\ [Next]_vars => [A!Next]_A!vars
<1> SUFFICES ASSUME IInv, [Next]_vars PROVE [A!Next]_A!vars
  OBVIOUS
<1> DEFINE st == [q \in Requests |-> AbsStatus(contract[q])]
           al == [q \in Requests |-> HostDecisions(contract[q].profile)]
           an == [q \in Requests |-> AbsAnswer(sent[q])]
<1>0. /\ contract \in [Requests -> Entry] /\ sent \in [Requests -> Seq(Response)]
      /\ OneResponse
  BY DEF IInv, TypeOK
<1>1. CASE UNCHANGED <<contract, sent>>
  BY <1>1 DEF A!vars
<1>2. CASE PumpContractRegister
  <2>1. PICK r \in Requests, p \in Profile :
           /\ UNCHANGED sent
           /\ \/ /\ contract[r].status = "absent"
                 /\ contract' = [contract EXCEPT ![r] = [status |-> "awaiting", profile |-> p]]
              \/ UNCHANGED contract
    BY <1>2, ContractRegisters
  <2>2. CASE /\ contract[r].status = "absent"
             /\ contract' = [contract EXCEPT ![r] = [status |-> "awaiting", profile |-> p]]
    <3>1. /\ contract'[r].status = "awaiting" /\ contract'[r].profile = p
          /\ \A q \in Requests \ {r} : contract'[q] = contract[q]
      BY <1>0, <2>2
    <3>2. st[r] = "absent" /\ st' = [st EXCEPT ![r] = "awaiting"]
      <4>1. AbsStatus(contract[r]) = "absent" /\ AbsStatus(contract'[r]) = "awaiting"
        BY <2>2, <3>1 DEF AbsStatus
      <4> QED BY <3>1, <4>1
    <3>3. al' = [al EXCEPT ![r] = HostDecisions(p)] /\ HostDecisions(p) \in SUBSET Decisions
      BY <3>1, DeviceWithinHost
    <3>4. an' = an
      BY <2>1
    <3>5. A!Open(r)
      BY <3>2, <3>3, <3>4 DEF A!Open, AbsStatus, AbsAnswer
    <3> QED BY <3>5 DEF A!Next
  <2> QED BY <1>1, <2>1, <2>2
<1>3. CASE PumpContractResolve
  <2>1. PICK r \in Requests :
           \/ /\ contract[r].status # "absent"
              /\ contract' = [contract EXCEPT ![r] = NoEntry] /\ sent' = [sent EXCEPT ![r] = <<>>]
           \/ UNCHANGED <<contract, sent>>
    BY <1>3, ContractResolves
  <2>2. CASE /\ contract[r].status # "absent"
             /\ contract' = [contract EXCEPT ![r] = NoEntry] /\ sent' = [sent EXCEPT ![r] = <<>>]
    <3>1. /\ contract'[r].status = "absent" /\ contract'[r].profile = NoProfile /\ sent'[r] = <<>>
          /\ \A q \in Requests \ {r} : contract'[q] = contract[q] /\ sent'[q] = sent[q]
      BY <1>0, <2>2 DEF NoEntry
    <3>2. st[r] # "absent" /\ st' = [st EXCEPT ![r] = "absent"]
      <4>1. AbsStatus(contract[r]) # "absent" /\ AbsStatus(contract'[r]) = "absent"
        BY <2>2, <3>1 DEF AbsStatus
      <4> QED BY <3>1, <4>1
    <3>3. al' = [al EXCEPT ![r] = {}]
      BY <3>1, NoProfileOffersNothing
    <3>4. an' = [an EXCEPT ![r] = NoDecision]
      BY <3>1 DEF AbsAnswer
    <3>5. A!Close(r)
      BY <3>2, <3>3, <3>4 DEF A!Close, A!NoAnswer, NoDecision, AbsStatus, AbsAnswer
    <3> QED BY <3>5 DEF A!Next
  <2> QED BY <1>1, <2>1, <2>2
<1>4. ASSUME NEW t \in Threads, Respond(t), ~UNCHANGED <<contract, sent>> PROVE A!Next
  <2> DEFINE b == job[t].binding
             a == [decision |-> job[t].decision, by |-> t]
  <2>1. Bound(b) /\ job[t].decision \in HostDecisions(b.profile)
    BY <1>4 DEF Respond, IInv, RespondInv
  <2>2. PICK r \in Requests : r = b.req
    BY <2>1 DEF Bound, IInv, TypeOK
  <2>3. /\ sent' = [sent EXCEPT ![r] = Append(@, a)]
        /\ contract' = [contract EXCEPT ![r].status = "response_sent"]
        /\ contract[r].status = "awaiting"
    BY <1>4, <2>2 DEF Respond, Awaiting
  <2>4. contract[r].profile = b.profile
    BY <2>3, <2>1, <2>2 DEF Bound, IInv, ProfileInv
  <2>5. sent[r] = <<>>
    BY <1>0, <2>3, <2>2 DEF OneResponse
  <2>6. /\ sent'[r] = <<a>> /\ contract'[r].status = "response_sent"
        /\ contract'[r].profile = b.profile
        /\ \A q \in Requests \ {r} : contract'[q] = contract[q] /\ sent'[q] = sent[q]
    BY <1>0, <2>3, <2>2, <2>4, <2>5 DEF Entry
  <2>7. AbsAnswer(sent'[r]) = job[t].decision
    BY <2>6 DEF AbsAnswer
  <2>8. st[r] = "awaiting" /\ st' = [st EXCEPT ![r] = "answered"]
    BY <2>3, <2>2, <2>6 DEF AbsStatus
  <2>9. al' = al /\ al[r] = HostDecisions(b.profile)
    BY <2>2, <2>4, <2>6
  <2>10. an' = [an EXCEPT ![r] = job[t].decision]
    BY <2>2, <2>6, <2>7
  <2>11. A!Answer(r)
    BY <2>1, <2>8, <2>9, <2>10 DEF A!Answer, AbsStatus, AbsAnswer
  <2> QED BY <2>2, <2>11 DEF A!Next
<1>5. \/ UNCHANGED <<contract, sent>> \/ PumpContractRegister \/ PumpContractResolve
      \/ \E t \in Threads : Respond(t)
  BY ContractSteps
<1> QED BY <1>1, <1>2, <1>3, <1>4, <1>5

(* The contract and the coordinator, with their locks and their threads,   *)
(* implement the abstract lifecycle of a request: opened once, answered at *)
(* most once with a decision allowed for it, closed.                       *)
THEOREM Implements == Spec => ImplementsApprovalSpec
<1>1. Spec => A!Spec
  BY RefinesInit, RefinesStep, Invariance, PTL DEF Spec, A!Spec
<1> QED BY <1>1 DEF ImplementsApprovalSpec
=============================================================================
