---------------------------- MODULE DisplayProofs ----------------------------
(***************************************************************************)
(* What the device shows (Approval.tla): on an idle link the oldest visible*)
(* request, and within a session never another one before it is resolved.  *)
(* Rests on the invariant IInv of ApprovalProofs.                          *)
(***************************************************************************)
EXTENDS ApprovalProofs

Current == CurrentDeviceBinding(bindings)

(* The frame that describes the tables as they are.                        *)
ShownFrame == IF VisibleAt(bindings) = {} THEN NoFrame ELSE ApprovalFrame(Current)

(* No thread is about to publish, or died before it could.                 *)
Settled ==
  /\ pc["pump"] \in {"idle", "register"}
  /\ pc["serial"] \in {"idle", "respond"} /\ pc["main"] \in {"idle", "respond"}

(* A shown request that is over: the pump is about to say so, or died.     *)
Outdated ==
  /\ display.id \notin DOMAIN byDevice
  /\ \/ pc["pump"] = "dead"
     \/ pc["pump"] = "send_resolved" /\ display.id = job["pump"].binding.id

DisplayInv ==
  /\ display = NoFrame \/ display.id \in 1..nextId
  /\ pc["pump"] = "send_resolved" => job["pump"].binding.id \notin DOMAIN byDevice
  /\ display.sending /\ display.id \in DOMAIN byDevice =>
       contract[byDevice[display.id].req].status # "awaiting"
  /\ linked /\ display # NoFrame =>
       (VisibleAt(bindings) # {} /\ display.id = Current.id) \/ Outdated
  /\ linked /\ Settled => display = ShownFrame


-----------------------------------------------------------------------------
(* The first visible binding of a list is the one current.                 *)
LEMMA FirstVisible ==
  ASSUME NEW s \in Seq(Binding), VisibleAt(s) # {}
  PROVE  \E i \in VisibleAt(s) :
           (\A j \in VisibleAt(s) : i <= j) /\ CurrentDeviceBinding(s) = s[i]
<1>1. VisibleAt(s) \in SUBSET Nat
  BY DEF VisibleAt
<1>2. \E m \in VisibleAt(s) : \A k \in VisibleAt(s) : m <= k
  BY <1>1, LeastElement
<1> QED
  BY <1>2 DEF CurrentDeviceBinding

(* It is the one with the least position.                                  *)
LEMMA FirstIsCurrent ==
  ASSUME NEW s \in Seq(Binding), NEW i \in VisibleAt(s), \A j \in VisibleAt(s) : i <= j
  PROVE  CurrentDeviceBinding(s) = s[i]
<1>1. VisibleAt(s) \in SUBSET Nat
  BY DEF VisibleAt
<1>2. PICK k \in VisibleAt(s) :
        (\A j \in VisibleAt(s) : k <= j) /\ CurrentDeviceBinding(s) = s[k]
  BY FirstVisible
<1>3. k = i
  BY <1>1, <1>2
<1> QED
  BY <1>2, <1>3

(* A request that arrives goes behind the shown one ...                    *)
LEMMA AppendKeepsCurrent ==
  ASSUME NEW s \in Seq(Binding), NEW b \in Binding, VisibleAt(s) # {}, NEW z, z = Append(s, b)
  PROVE  VisibleAt(z) # {} /\ CurrentDeviceBinding(z) = CurrentDeviceBinding(s)
<1>1. PICK i \in VisibleAt(s) :
        (\A j \in VisibleAt(s) : i <= j) /\ CurrentDeviceBinding(s) = s[i]
  BY FirstVisible
<1>2. /\ z \in Seq(Binding) /\ Len(s) \in Nat
      /\ DOMAIN s = 1..Len(s) /\ DOMAIN z = 1..(Len(s) + 1)
      /\ \A j \in DOMAIN s : z[j] = s[j]
  OBVIOUS
<1>3. i \in VisibleAt(z) /\ z[i] = s[i] /\ i \in 1..Len(s)
  BY <1>2 DEF VisibleAt
<1>4. \A j \in VisibleAt(z) : i <= j
  BY <1>1, <1>2, <1>3 DEF VisibleAt
<1> QED
  BY <1>1, <1>2, <1>3, <1>4, FirstIsCurrent

(* ... and removing another request leaves the shown one first.            *)
LEMMA RemoveKeepsCurrent ==
  ASSUME NEW s \in Seq(Binding), NEW k \in DOMAIN s, NEW z, z = RemoveIndex(s, k),
         z \in Seq(Binding), VisibleAt(s) # {}, s[k] # CurrentDeviceBinding(s)
  PROVE  VisibleAt(z) # {} /\ CurrentDeviceBinding(z) = CurrentDeviceBinding(s)
<1>1. PICK i \in VisibleAt(s) :
        (\A j \in VisibleAt(s) : i <= j) /\ CurrentDeviceBinding(s) = s[i]
  BY FirstVisible
<1>2. /\ DOMAIN s = 1..Len(s) /\ Len(s) \in Nat /\ DOMAIN z = 1..(Len(s) - 1)
      /\ \A j \in 1..(Len(s) - 1) : z[j] = IF j < k THEN s[j] ELSE s[j + 1]
  BY DEF RemoveIndex
<1>3. i \in DOMAIN s /\ i # k /\ k \in 1..Len(s) /\ i \in 1..Len(s)
  BY <1>1, <1>2 DEF VisibleAt
<1>4. ASSUME NEW j \in VisibleAt(z) PROVE i <= IF j < k THEN j ELSE j + 1
  <2>1. j \in 1..(Len(s) - 1) /\ DeviceVisible(z[j].profile)
    BY <1>2, <1>4 DEF VisibleAt
  <2>2. CASE j < k
    BY <1>1, <1>2, <1>3, <2>1, <2>2 DEF VisibleAt
  <2>3. CASE ~(j < k)
    <3>1. j + 1 \in VisibleAt(s)
      BY <1>2, <2>1, <2>3 DEF VisibleAt
    <3> QED
      BY <1>1, <2>3, <3>1
  <2> QED
    BY <2>2, <2>3
<1>5. \A j \in VisibleAt(z) : j \in Nat
  BY <1>2 DEF VisibleAt
<1>6. CASE i < k
  <2>1. i \in VisibleAt(z) /\ z[i] = s[i]
    BY <1>1, <1>2, <1>3, <1>6 DEF VisibleAt
  <2>2. \A j \in VisibleAt(z) : i <= j
    BY <1>3, <1>4, <1>5, <1>6
  <2> QED
    BY <1>1, <2>1, <2>2, FirstIsCurrent
<1>7. CASE i > k
  <2>1. i - 1 \in VisibleAt(z) /\ z[i - 1] = s[i]
    BY <1>1, <1>2, <1>3, <1>7 DEF VisibleAt
  <2>2. \A j \in VisibleAt(z) : i - 1 <= j
    BY <1>3, <1>4, <1>5, <1>7
  <2> QED
    BY <1>1, <2>1, <2>2, FirstIsCurrent
<1> QED
  BY <1>3, <1>6, <1>7

(* The request the device may show, in the tables.                         *)
LEMMA CurrentFacts ==
  ASSUME IInv, VisibleAt(bindings) # {}
  PROVE  /\ Current \in Binding
         /\ Current.req \in DOMAIN byRequest /\ Current.req \in Requests
         /\ byRequest[Current.req] = Current
         /\ Current.id \in 1..nextId
         /\ Current.id \in DOMAIN byDevice /\ byDevice[Current.id] = Current
<1>1. bindings \in Seq(Binding)
  BY DEF IInv, TypeOK
<1>2. PICK i \in DOMAIN bindings : Current = bindings[i]
  BY <1>1, CurrentIsVisible DEF Current
<1>3. Current \in Binding
  BY <1>1, <1>2
<1>4. Current.req \in DOMAIN byRequest /\ byRequest[Current.req] = Current
  BY <1>2 DEF IInv, TablesInv, Bound
<1> QED
  BY <1>2, <1>3, <1>4 DEF IInv, TablesInv, TypeOK

(* The frame changes with the tables and the status of its request only.   *)
LEMMA SameFrame ==
  ASSUME IInv, UNCHANGED bindings,
         VisibleAt(bindings) # {} => contract'[Current.req].status = contract[Current.req].status
  PROVE  ShownFrame' = ShownFrame /\ Current' = Current
<1>1. Current' = Current /\ VisibleAt(bindings)' = VisibleAt(bindings)
  BY DEF Current, CurrentDeviceBinding, VisibleAt
<1>2. CASE VisibleAt(bindings) = {}
  BY <1>1, <1>2 DEF ShownFrame
<1>3. CASE VisibleAt(bindings) # {}
  <2>1. contract'[Current'.req].status = contract[Current.req].status
    BY <1>1, <1>3
  <2>2. ApprovalFrame(Current)' = ApprovalFrame(Current)
    BY <1>1, <2>1 DEF ApprovalFrame
  <2> QED
    BY <1>1, <1>3, <2>2 DEF ShownFrame
<1> QED
  BY <1>1, <1>2, <1>3

-----------------------------------------------------------------------------
(* Steps that leave the tables and the display alone.                      *)
LEMMA KeepsDisplay ==
  ASSUME IInv, DisplayInv, UNCHANGED <<tables, display>>, linked' => linked,
         \A r \in DOMAIN byRequest :
           contract'[r].status = "awaiting" => contract[r].status = "awaiting",
         pc'["pump"] = "send_resolved" => pc["pump"] = "send_resolved" /\ job' = job,
         Outdated => Outdated',
         linked' /\ Settled' => display = ShownFrame'
  PROVE  DisplayInv'
<1>1. UNCHANGED <<bindings, byRequest, byDevice, nextId>>
  BY DEF tables
<1>2. Current' = Current /\ VisibleAt(bindings)' = VisibleAt(bindings)
  BY <1>1 DEF Current, CurrentDeviceBinding, VisibleAt
<1>3. display.id \in DOMAIN byDevice => byDevice[display.id].req \in DOMAIN byRequest
  BY DEF IInv, TablesInv, Bound
<1>4. display'.sending /\ display'.id \in DOMAIN byDevice' =>
        contract'[byDevice'[display'.id].req].status # "awaiting"
  BY <1>1, <1>3 DEF DisplayInv
<1>5. linked' /\ display' # NoFrame =>
        (VisibleAt(bindings)' # {} /\ display'.id = Current'.id) \/ Outdated'
  BY <1>2 DEF DisplayInv
<1>6. pc'["pump"] = "send_resolved" => job'["pump"].binding.id \notin DOMAIN byDevice'
  BY <1>1 DEF DisplayInv
<1> QED
  BY <1>1, <1>4, <1>5, <1>6 DEF DisplayInv

(* A thread that is no longer at work, or died.                            *)
LEMMA QuietDisplay ==
  ASSUME IInv, DisplayInv, UNCHANGED <<tables, display, contract>>, linked' => linked,
         pc'["pump"] = "send_resolved" => pc["pump"] = "send_resolved" /\ job' = job,
         pc["pump"] \in {"send_resolved", "dead"} => pc'["pump"] \in {pc["pump"], "dead"},
         linked' /\ Settled' => Settled
  PROVE  DisplayInv'
<1>1. UNCHANGED <<bindings, byRequest, byDevice, nextId>>
  BY DEF tables
<1>2. ShownFrame' = ShownFrame
  BY <1>1, SameFrame
<1>3. Outdated => Outdated'
  BY <1>1 DEF Outdated
<1>4. linked' /\ Settled' => display = ShownFrame'
  BY <1>2 DEF DisplayInv
<1> QED
  BY <1>3, <1>4, KeepsDisplay

(* The app-server touches neither.                                         *)
LEMMA ServerDisplay == ASSUME IInv, DisplayInv, ServerStep PROVE DisplayInv'
<1>1. UNCHANGED <<contract, tables, pc, job, linked, display>>
  BY DEF ServerStep, ServerRequest, ServerResolved, ServerExits, device
<1> QED
  BY <1>1, QuietDisplay DEF Settled

(* The pump: the entry it adds to the contract is in no table, the one it  *)
(* removes makes it publish.                                               *)
LEMMA PumpContractDisplay ==
  ASSUME IInv, DisplayInv, PumpContractRegister \/ PumpContractResolve \/ PumpServerClosed
  PROVE  DisplayInv'
<1>0. /\ pc \in [Threads -> PC] /\ "pump" \in Threads /\ pc["pump"] = "idle"
      /\ contract \in [Requests -> Entry]
  BY DEF IInv, TypeOK, Threads, PumpContractRegister, PumpContractResolve, PumpServerClosed
<1>1. UNCHANGED <<tables, display>>
  BY DEF PumpContractRegister, PumpContractResolve, PumpServerClosed
<1>2. CASE Raise("pump") /\ UNCHANGED contract
  <2>1. pc'["pump"] = "dead" /\ (linked' => linked)
    BY <1>0, <1>2 DEF Raise
  <2> QED
    BY <1>0, <1>1, <1>2, <2>1, QuietDisplay DEF Settled
<1>3. ASSUME NEW r \in Requests, IdFree(r), NEW p,
             contract' = [contract EXCEPT ![r] = [status |-> "awaiting", profile |-> p]],
             Goto("pump", "register"), UNCHANGED linked
      PROVE  DisplayInv'
  <2>1. \A q \in DOMAIN byRequest : q # r
    BY <1>0, <1>3 DEF IInv, PhaseInv, IdFree
  <2>2. \A q \in DOMAIN byRequest : contract'[q].status = contract[q].status
    BY <1>0, <1>3, <2>1 DEF IInv, TypeOK
  <2>3. ShownFrame' = ShownFrame
    BY <1>1, <2>2, SameFrame, CurrentFacts DEF tables
  <2>4. pc'["pump"] = "register" /\ pc'["serial"] = pc["serial"] /\ pc'["main"] = pc["main"]
    BY <1>0, <1>3 DEF Goto, Threads
  <2>5. ~Outdated
    BY <1>0 DEF Outdated
  <2>6. linked' /\ Settled' => display = ShownFrame'
    BY <1>0, <1>3, <2>3, <2>4 DEF Settled, DisplayInv
  <2> QED
    BY <1>1, <1>3, <2>2, <2>4, <2>5, <2>6, KeepsDisplay
<1>4. ASSUME NEW r \in Requests, contract' = [contract EXCEPT ![r] = NoEntry],
             Goto("pump", "resolve"), UNCHANGED linked
      PROVE  DisplayInv'
  <2>1. \A q \in DOMAIN byRequest :
          contract'[q].status = "awaiting" => contract[q].status = "awaiting"
    BY <1>0, <1>4 DEF IInv, TypeOK, NoEntry
  <2>2. pc'["pump"] = "resolve"
    BY <1>0, <1>4 DEF Goto
  <2>3. ~Outdated /\ ~Settled'
    BY <1>0, <2>2 DEF Outdated, Settled
  <2> QED
    BY <1>1, <1>4, <2>1, <2>2, <2>3, KeepsDisplay
<1>5. inbox # <<>> => Head(inbox).req \in Requests
  <2>1. inbox # <<>> => Head(inbox) \in Message
    BY DEF IInv, TypeOK
  <2> QED
    BY <2>1 DEF Message
<1>6. CASE PumpContractRegister
  BY <1>2, <1>3, <1>5, <1>6 DEF PumpContractRegister
<1>7. CASE PumpContractResolve
  BY <1>2, <1>4, <1>5, <1>7 DEF PumpContractResolve
<1>8. CASE PumpServerClosed
  BY <1>2, <1>8 DEF PumpServerClosed
<1> QED
  BY <1>6, <1>7, <1>8

(* A registered request goes behind the shown one; the publish follows.    *)
LEMMA RegisterDisplay == ASSUME IInv, DisplayInv, Register PROVE DisplayInv'
<1>0. /\ pc \in [Threads -> PC] /\ "pump" \in Threads /\ pc["pump"] = "register"
      /\ UNCHANGED <<contract, linked, display>> /\ nextId \in Nat
  BY DEF IInv, TypeOK, Threads, Register, device
<1>1. job["pump"].binding.req \notin DOMAIN byRequest /\ job["pump"].binding \in Binding
  <2>1. job["pump"].binding.req \in Requests
    BY <1>0 DEF IInv, PhaseInv
  <2>2. job["pump"].binding \in Binding
    BY <1>0, <2>1, ApprovalAssumption DEF IInv, TypeOK, Job, NoBinding
  <2> QED
    BY <1>0, <2>1, <2>2 DEF IInv, PhaseInv
<1>2. PICK b \in Binding :
        /\ b.id = nextId + 1 /\ nextId' = nextId + 1
        /\ bindings' = Append(bindings, b)
        /\ byDevice' = Put(byDevice, nextId + 1, b)
        /\ pc'["pump"] = "publish"
  <2>1. PICK j \in Binding : j = job["pump"].binding
    BY <1>1
  <2>2. /\ [j EXCEPT !.id = nextId + 1] \in Binding
        /\ [j EXCEPT !.id = nextId + 1].id = nextId + 1
    BY <1>0, <2>1 DEF Binding
  <2> QED
    BY <1>0, <1>1, <2>1, <2>2 DEF Register, Goto
<1>3. ~Outdated /\ ~Settled'
  BY <1>0, <1>2 DEF Outdated, Settled
<1>4. /\ DOMAIN byDevice' = DOMAIN byDevice \cup {nextId + 1}
      /\ \A i \in DOMAIN byDevice : i # nextId + 1 => byDevice'[i] = byDevice[i]
  BY <1>2 DEF Put
<1>5. display.id # nextId + 1
  BY <1>0 DEF DisplayInv, NoFrame
<1>6. display'.sending /\ display'.id \in DOMAIN byDevice' =>
        contract'[byDevice'[display'.id].req].status # "awaiting"
  BY <1>0, <1>4, <1>5 DEF DisplayInv
<1>7. linked' /\ display' # NoFrame =>
        (VisibleAt(bindings)' # {} /\ display'.id = Current'.id) \/ Outdated'
  <2>1. bindings \in Seq(Binding)
    BY DEF IInv, TypeOK
  <2>2. VisibleAt(bindings) # {} =>
          /\ VisibleAt(bindings') # {}
          /\ CurrentDeviceBinding(bindings') = CurrentDeviceBinding(bindings)
    BY <1>2, <2>1, AppendKeepsCurrent
  <2> QED
    BY <1>0, <1>3, <2>2 DEF DisplayInv, Current, CurrentDeviceBinding, VisibleAt
<1> QED
  BY <1>0, <1>2, <1>3, <1>6, <1>7 DEF DisplayInv

(* A resolved request leaves the tables.  When it is the shown one the     *)
(* pump tells the device next; otherwise the shown one stays first.        *)
LEMMA ResolveDisplay == ASSUME IInv, DisplayInv, Resolve PROVE DisplayInv'
<1>0. /\ pc \in [Threads -> PC] /\ "pump" \in Threads /\ pc["pump"] = "resolve"
      /\ UNCHANGED <<contract, linked, display>> /\ job \in [Threads -> Job]
      /\ bindings \in Seq(Binding) /\ bindings' \in Seq(Binding)
  <2>1. bindings' \in Seq(Binding)
    BY TypeStep DEF Next, PumpStep, TypeOK
  <2> QED
    BY <2>1 DEF IInv, TypeOK, Threads, Resolve, device
<1>1. PICK b \in Binding, k \in DOMAIN bindings :
        /\ b.req = job["pump"].binding.req /\ b.req \in DOMAIN byRequest
        /\ byRequest[b.req] = b /\ bindings[k] = b
        /\ bindings' = RemoveIndex(bindings, k)
        /\ byDevice' = Drop(byDevice, b.id)
        /\ nextId' = nextId
        /\ job' = [job EXCEPT !["pump"].binding = b]
  BY ResolveRemoves
<1>2. pc'["pump"] = IF Current = b THEN "send_resolved" ELSE "publish"
  BY <1>0, <1>1 DEF Resolve, Goto, Current
<1>3. job'["pump"].binding = b
  BY <1>0, <1>1 DEF Job
<1>4. ~Outdated /\ ~Settled'
  BY <1>0, <1>2 DEF Outdated, Settled
<1>5. /\ DOMAIN byDevice' = DOMAIN byDevice \ {b.id}
      /\ \A i \in DOMAIN byDevice' : byDevice'[i] = byDevice[i]
  BY <1>1 DEF Drop
<1>6. display'.sending /\ display'.id \in DOMAIN byDevice' =>
        contract'[byDevice'[display'.id].req].status # "awaiting"
  BY <1>0, <1>5 DEF DisplayInv
<1>7. linked' /\ display' # NoFrame =>
        (VisibleAt(bindings)' # {} /\ display'.id = Current'.id) \/ Outdated'
  <2> SUFFICES ASSUME linked, display # NoFrame
               PROVE  (VisibleAt(bindings') # {} /\ display.id = CurrentDeviceBinding(bindings').id)
                      \/ Outdated'
    BY <1>0 DEF Current, CurrentDeviceBinding, VisibleAt
  <2>1. VisibleAt(bindings) # {} /\ display.id = Current.id
    BY <1>4 DEF DisplayInv
  <2>2. CASE Current = b
    BY <1>0, <1>2, <1>3, <1>5, <2>1, <2>2 DEF Outdated
  <2>3. CASE Current # b
    <3>1. /\ VisibleAt(bindings') # {}
          /\ CurrentDeviceBinding(bindings') = CurrentDeviceBinding(bindings)
      BY <1>0, <1>1, <2>1, <2>3, RemoveKeepsCurrent DEF Current
    <3> QED
      BY <2>1, <3>1 DEF Current
  <2> QED
    BY <2>2, <2>3
<1>8. pc'["pump"] = "send_resolved" => job'["pump"].binding.id \notin DOMAIN byDevice'
  BY <1>3, <1>5
<1> QED
  BY <1>0, <1>1, <1>4, <1>6, <1>7, <1>8 DEF DisplayInv

(* Told that the shown request is over, the device shows nothing.          *)
LEMMA SendResolvedDisplay ==
  ASSUME IInv, DisplayInv, SendDeviceResolved PROVE DisplayInv'
<1>0. /\ pc \in [Threads -> PC] /\ "pump" \in Threads /\ pc["pump"] = "send_resolved"
      /\ UNCHANGED <<contract, tables>>
  BY DEF IInv, TypeOK, Threads, SendDeviceResolved
<1>1. CASE Raise("pump") /\ UNCHANGED display
  <2>1. pc'["pump"] = "dead" /\ (linked' => linked)
    BY <1>0, <1>1 DEF Raise
  <2> QED
    BY <1>0, <1>1, <2>1, QuietDisplay DEF Settled
<1>2. ASSUME Goto("pump", "publish"), UNCHANGED linked,
             display' = IF linked /\ display.id = job["pump"].binding.id THEN NoFrame
                                                                         ELSE display
      PROVE  DisplayInv'
  <2>1. pc'["pump"] = "publish"
    BY <1>0, <1>2 DEF Goto
  <2>2. ~Settled'
    BY <2>1 DEF Settled
  <2>3. UNCHANGED <<bindings, byRequest, byDevice, nextId>>
    BY <1>0 DEF tables
  <2>4. Current' = Current /\ VisibleAt(bindings)' = VisibleAt(bindings)
    BY <2>3 DEF Current, CurrentDeviceBinding, VisibleAt
  <2>5. display' = NoFrame \/ display' = display
    BY <1>2
  <2>6. linked' /\ display' # NoFrame =>
          (VisibleAt(bindings)' # {} /\ display'.id = Current'.id) \/ Outdated'
    <3> SUFFICES ASSUME linked, display' # NoFrame
                 PROVE  VisibleAt(bindings)' # {} /\ display'.id = Current'.id
      BY <1>2
    <3>1. display' = display /\ display.id # job["pump"].binding.id
      BY <1>2
    <3>2. ~Outdated
      BY <1>0, <3>1 DEF Outdated
    <3> QED
      BY <2>4, <3>1, <3>2 DEF DisplayInv
  <2>7. display'.sending /\ display'.id \in DOMAIN byDevice' =>
          contract'[byDevice'[display'.id].req].status # "awaiting"
    BY <1>0, <2>3, <2>5 DEF DisplayInv, NoFrame
  <2> QED
    BY <2>1, <2>2, <2>3, <2>5, <2>6, <2>7 DEF DisplayInv
<1> QED
  BY <1>1, <1>2 DEF SendDeviceResolved

(* _publish_current_locked: what is written describes the tables; nothing  *)
(* is written when nothing is visible, or the pump will publish again.     *)
LEMMA PublishDisplay ==
  ASSUME IInv, DisplayInv, NEW t \in Threads, PublishCurrent(t) PROVE DisplayInv'
<1>0. /\ pc \in [Threads -> PC] /\ pc[t] = "publish" /\ lock = t
      /\ UNCHANGED <<contract, tables>> /\ linked \in BOOLEAN
      /\ Threads = {"pump", "serial", "main"}
  BY DEF IInv, TypeOK, Threads, PublishCurrent, Holding
<1>1. pc["pump"] # "send_resolved"
  BY <1>0 DEF IInv, LockInv
<1>2. UNCHANGED <<bindings, byRequest, byDevice, nextId>>
  BY <1>0 DEF tables
<1>3. ShownFrame' = ShownFrame /\ Current' = Current /\ VisibleAt(bindings)' = VisibleAt(bindings)
  BY <1>0, <1>2, SameFrame DEF VisibleAt
<1>4. CASE Raise(t) /\ UNCHANGED display
  <2>1. /\ pc' = [pc EXCEPT ![t] = IF t = "serial" THEN "idle" ELSE "dead"]
        /\ linked' = (linked /\ t # "serial")
    BY <1>4 DEF Raise
  <2>2. ~(linked' /\ Settled')
    BY <1>0, <2>1 DEF Settled
  <2>3. (linked' => linked) /\ pc'["pump"] # "send_resolved"
    BY <1>0, <1>1, <2>1
  <2>4. pc["pump"] = "dead" => pc'["pump"] = "dead"
    BY <1>0, <2>1
  <2> QED
    BY <1>0, <1>1, <1>4, <2>2, <2>3, <2>4, QuietDisplay
<1>5. ASSUME Return(t) PROVE /\ pc'["pump"] \in {"idle", pc["pump"]}
                             /\ pc'["pump"] # "send_resolved"
                             /\ pc["pump"] = "dead" => pc'["pump"] = "dead"
                             /\ Settled' => pc["pump"] \in {"publish", "idle", "register"}
  BY <1>0, <1>1, <1>5 DEF Return, Settled
<1>6. ASSUME Return(t), ~Publishable \/ ~linked, UNCHANGED <<linked, display>>
      PROVE  DisplayInv'
  <2>1. Outdated => Outdated'
    BY <1>1, <1>2, <1>5, <1>6 DEF Outdated
  <2>2. ASSUME linked, Settled' PROVE display = ShownFrame'
    <3>1. pc["pump"] \in {"publish", "idle", "register"}
      BY <1>5, <1>6, <2>2
    <3>2. ~Outdated
      BY <3>1 DEF Outdated
    <3>3. VisibleAt(bindings) # {} => contract[Current.req].status # "absent"
      BY <3>1, CurrentFacts DEF IInv, PhaseInv
    <3>4. VisibleAt(bindings) = {}
      BY <1>6, <2>2, <3>3 DEF Publishable, Current
    <3> QED
      BY <1>3, <2>2, <3>2, <3>4 DEF DisplayInv, ShownFrame
  <2> QED
    BY <1>0, <1>5, <1>6, <2>1, <2>2, KeepsDisplay
<1>7. ASSUME Return(t), Publishable, linked, UNCHANGED linked,
             display' = ApprovalFrame(CurrentDeviceBinding(bindings))
      PROVE  DisplayInv'
  <2>1. VisibleAt(bindings) # {}
    BY <1>7 DEF Publishable
  <2>2. /\ Current.id \in 1..nextId /\ Current.id \in DOMAIN byDevice
        /\ byDevice[Current.id] = Current
    BY <2>1, CurrentFacts
  <2>3. /\ display' = ShownFrame /\ display'.id = Current.id
        /\ display'.sending => contract[Current.req].status = "response_sent"
    BY <1>7, <2>1 DEF ShownFrame, Current, ApprovalFrame
  <2>4. display'.sending /\ display'.id \in DOMAIN byDevice' =>
          contract'[byDevice'[display'.id].req].status # "awaiting"
    BY <1>0, <1>2, <2>2, <2>3
  <2> QED
    BY <1>2, <1>3, <1>5, <1>7, <2>1, <2>2, <2>3, <2>4 DEF DisplayInv
<1> QED
  BY <1>4, <1>6, <1>7 DEF PublishCurrent, device

(* A decision: the answered request is shown as being sent by the publish  *)
(* that follows; answering another one changes nothing on the device.      *)
LEMMA StartRespondDisplay ==
  ASSUME IInv, DisplayInv, NEW t \in {"serial", "main"}, NEW b, NEW d,
         pc[t] = "idle", StartRespond(t, b, d)
  PROVE  DisplayInv'
<1>0. /\ pc \in [Threads -> PC] /\ Threads = {"pump", "serial", "main"} /\ lock = Nobody
      /\ UNCHANGED <<contract, tables, linked, display>>
      /\ pc' = [pc EXCEPT ![t] = "respond"]
  BY DEF IInv, TypeOK, Threads, StartRespond, Acquire, Goto, device
<1>1. pc'["pump"] = pc["pump"] /\ pc["pump"] # "send_resolved"
  BY <1>0 DEF IInv, LockInv, Nobody
<1>2. Settled' => Settled
  BY <1>0 DEF Settled
<1> QED
  BY <1>0, <1>1, <1>2, QuietDisplay

(* The answer itself.                                                      *)
LEMMA RespondDisplay ==
  ASSUME IInv, DisplayInv, NEW t \in {"serial", "main"}, Respond(t) PROVE DisplayInv'
<1>0. /\ pc \in [Threads -> PC] /\ pc[t] = "respond" /\ lock = t
      /\ UNCHANGED <<tables, display>> /\ linked \in BOOLEAN
      /\ Threads = {"pump", "serial", "main"} /\ contract \in [Requests -> Entry]
  BY DEF IInv, TypeOK, Threads, Respond, Holding
<1>1. pc["pump"] # "send_resolved"
  BY <1>0 DEF IInv, LockInv
<1>2. UNCHANGED <<bindings, byRequest, byDevice, nextId>>
  BY <1>0 DEF tables
<1>3. CASE Raise(t) /\ UNCHANGED contract
  <2>1. /\ pc' = [pc EXCEPT ![t] = IF t = "serial" THEN "idle" ELSE "dead"]
        /\ linked' = (linked /\ t # "serial")
    BY <1>3 DEF Raise
  <2>2. ~(linked' /\ Settled')
    BY <1>0, <2>1 DEF Settled
  <2>3. (linked' => linked) /\ pc'["pump"] = pc["pump"]
    BY <1>0, <2>1
  <2> QED
    BY <1>0, <1>1, <1>3, <2>2, <2>3, QuietDisplay
<1>4. ASSUME NEW b, b = job[t].binding, NEW r, r = b.req, UNCHANGED linked,
             contract' = [contract EXCEPT ![r].status = "response_sent"],
             \/ Current = b /\ Goto(t, "publish")
             \/ Current # b /\ Return(t)
      PROVE  DisplayInv'
  <2>1. r \in DOMAIN byRequest /\ byRequest[r] = b /\ r \in Requests
    BY <1>0, <1>4 DEF IInv, RespondInv, Bound, TypeOK
  <2>2. \A q \in Requests :
          contract'[q].status = IF q = r THEN "response_sent" ELSE contract[q].status
    BY <1>0, <1>4, <2>1 DEF Entry
  <2>3. \A q \in DOMAIN byRequest :
          contract'[q].status = "awaiting" => contract[q].status = "awaiting"
    BY <2>2 DEF IInv, TypeOK
  <2>4. pc'["pump"] = pc["pump"]
    BY <1>0, <1>4 DEF Goto, Return
  <2>5. Outdated => Outdated'
    BY <1>0, <1>1, <1>2, <2>4 DEF Outdated
  <2>6. ASSUME linked', Settled' PROVE display = ShownFrame'
    <3>1. Current # b /\ Return(t)
      BY <1>0, <1>4, <2>6 DEF Goto, Settled
    <3>2. Settled
      BY <1>0, <2>6, <3>1 DEF Settled, Return
    <3>3. VisibleAt(bindings) # {} =>
            contract'[Current.req].status = contract[Current.req].status
      BY <2>1, <2>2, <3>1, CurrentFacts
    <3>4. ShownFrame' = ShownFrame
      BY <1>2, <3>3, SameFrame
    <3> QED
      BY <1>4, <2>6, <3>2, <3>4 DEF DisplayInv
  <2> QED
    BY <1>0, <1>1, <1>4, <2>3, <2>4, <2>5, <2>6, KeepsDisplay
<1> QED
  BY <1>3, <1>4 DEF Respond, Current

(* The link: a new session starts with nothing shown and a republish.      *)
LEMMA LinkDisplay ==
  ASSUME IInv, DisplayInv, LinkReady \/ LinkLost \/ Republish \/ ConsoleNoticesFailure
  PROVE  DisplayInv'
<1>0. pc \in [Threads -> PC] /\ Threads = {"pump", "serial", "main"}
  BY DEF IInv, TypeOK, Threads
<1>1. CASE LinkReady
  <2>1. /\ UNCHANGED <<contract, bindings, byRequest, byDevice, nextId, job>>
        /\ display' = NoFrame /\ pc' = [pc EXCEPT !["serial"] = "republish"]
    BY <1>1 DEF LinkReady, tables, Goto
  <2>2. pc'["pump"] = pc["pump"] /\ ~Settled'
    BY <1>0, <2>1 DEF Settled
  <2>3. ~display'.sending
    BY <2>1 DEF NoFrame
  <2> QED
    BY <2>1, <2>2, <2>3 DEF DisplayInv
<1>2. CASE LinkLost
  BY <1>2, QuietDisplay DEF LinkLost
<1>3. CASE Republish
  <2>1. /\ UNCHANGED <<contract, tables, linked, display, job>>
        /\ pc' = [pc EXCEPT !["serial"] = "publish"]
    BY <1>3 DEF Republish, Goto, device
  <2>2. pc'["pump"] = pc["pump"] /\ ~Settled'
    BY <1>0, <2>1 DEF Settled
  <2> QED
    BY <2>1, <2>2, QuietDisplay
<1>4. CASE ConsoleNoticesFailure
  <2>1. /\ UNCHANGED <<contract, tables, linked, display, job>>
        /\ pc' = [pc EXCEPT !["main"] = "dead"]
    BY <1>4 DEF ConsoleNoticesFailure, Goto, device
  <2>2. pc'["pump"] = pc["pump"] /\ ~Settled'
    BY <1>0, <2>1 DEF Settled
  <2> QED
    BY <2>1, <2>2, QuietDisplay
<1> QED
  BY <1>1, <1>2, <1>3, <1>4

-----------------------------------------------------------------------------
(* The invariant, and what a step does to the display.                     *)
LEMMA DisplayInit == Init => DisplayInv
BY DEF Init, DisplayInv, NoFrame

(* Every step of every thread preserves it.                                *)
LEMMA DisplayStep == IInv /\ DisplayInv /\ [Next]_vars => DisplayInv'
<1> SUFFICES ASSUME IInv, DisplayInv, [Next]_vars PROVE DisplayInv'
  OBVIOUS
<1>1. CASE UNCHANGED vars
  BY <1>1, QuietDisplay DEF vars, device, Settled
<1>2. CASE ServerStep
  BY <1>2, ServerDisplay
<1>3. CASE PumpStep
  BY <1>3, PumpContractDisplay, RegisterDisplay, ResolveDisplay, SendResolvedDisplay,
     PublishDisplay DEF PumpStep, Threads
<1>4. CASE SerialStep
  <2>1. CASE OnDecision
    BY <2>1, StartRespondDisplay DEF OnDecision, HandleDeviceDecision
  <2>2. CASE Respond("serial") \/ PublishCurrent("serial")
    BY <2>2, RespondDisplay, PublishDisplay DEF Threads
  <2> QED
    BY <1>4, <2>1, <2>2, LinkDisplay DEF SerialStep
<1>5. CASE MainStep
  <2>1. CASE Execute
    BY <2>1, StartRespondDisplay DEF Execute, RespondHost
  <2>2. CASE Respond("main") \/ PublishCurrent("main")
    BY <2>2, RespondDisplay, PublishDisplay DEF Threads
  <2> QED
    BY <1>5, <2>1, <2>2, LinkDisplay DEF MainStep
<1> QED
  BY <1>1, <1>2, <1>3, <1>4, <1>5 DEF Next

(* The only steps that write to the device.                                *)
LEMMA OtherStepsKeepDisplay ==
  ASSUME [Next]_vars, ~SendDeviceResolved, ~LinkReady,
         \A t \in Threads : ~PublishCurrent(t)
  PROVE  UNCHANGED display
BY DEF Next, vars, device, Threads, ServerStep, PumpStep, SerialStep, MainStep, OnDecision,
   Execute, ServerRequest, ServerResolved, ServerExits, PumpContractRegister,
   PumpContractResolve, PumpServerClosed, Register, Resolve, HandleDeviceDecision,
   RespondHost, StartRespond, Respond, LinkLost, Republish, ConsoleNoticesFailure

(* Each of them respects a request that is still shown.                    *)
LEMMA ShownStep ==
  ASSUME IInv, DisplayInv, [Next]_vars
  PROVE  /\ display.id # 0 /\ display'.id # display.id /\ linked
              => display.id \notin DOMAIN byDevice'
         /\ display.sending /\ display'.id = display.id => display'.sending
<1> DEFINE Shown == /\ display.id # 0 /\ display'.id # display.id /\ linked
                         => display.id \notin DOMAIN byDevice'
                    /\ display.sending /\ display'.id = display.id => display'.sending
<1>1. CASE UNCHANGED display
  BY <1>1
<1>2. display.id = 0 => ~display.sending
  BY DEF DisplayInv, NoFrame, IInv, TypeOK
<1>3. CASE LinkReady
  <2>1. display'.id = 0 /\ ~linked
    BY <1>3 DEF LinkReady, NoFrame
  <2> QED
    BY <1>2, <2>1
<1>4. CASE SendDeviceResolved /\ display' # display
  <2>1. /\ display' = NoFrame /\ display.id = job["pump"].binding.id
        /\ pc["pump"] = "send_resolved" /\ byDevice' = byDevice
    BY <1>4 DEF SendDeviceResolved, tables
  <2>2. display'.id = 0
    BY <2>1 DEF NoFrame
  <2> QED
    BY <1>2, <2>1, <2>2 DEF DisplayInv
<1>5. ASSUME NEW t \in Threads, PublishCurrent(t), display' # display PROVE Shown
  <2>1. /\ Publishable /\ linked /\ byDevice' = byDevice
        /\ display' = ApprovalFrame(Current)
    BY <1>5 DEF PublishCurrent, device, tables, Current
  <2>2. /\ Current.id \in DOMAIN byDevice /\ byDevice[Current.id] = Current
        /\ Current.req \in Requests
    BY <2>1, CurrentFacts DEF Publishable
  <2>3. /\ display'.id = Current.id
        /\ display'.sending = (contract[Current.req].status = "response_sent")
    BY <2>1 DEF ApprovalFrame
  <2>4. contract[Current.req].status \in {"awaiting", "response_sent"}
    BY <2>1, <2>2 DEF Publishable, Current, IInv, TypeOK, Entry
  <2>5. display.id # 0 /\ display'.id # display.id => display.id \notin DOMAIN byDevice'
    BY <2>1, <2>3 DEF DisplayInv, Outdated, NoFrame
  <2>6. display.sending /\ display'.id = display.id => display'.sending
    BY <2>2, <2>3, <2>4 DEF DisplayInv
  <2> QED
    BY <2>5, <2>6
<1> HIDE DEF Shown
<1>6. Shown
  BY <1>1, <1>3, <1>4, <1>5, OtherStepsKeepDisplay DEF Shown
<1> QED
  BY <1>6 DEF Shown

-----------------------------------------------------------------------------
(* The inductive invariant holds in every reachable state: the frame last *)
(* written, the tables and the step each thread is at determine each other.*)
THEOREM DisplayInvariant == Spec => [](IInv /\ DisplayInv)
<1>1. Spec => []IInv
  BY Invariance
<1> QED
  BY <1>1, DisplayInit, DisplayStep, PTL DEF Spec

(* On a working link with no operation under way the device shows the      *)
(* oldest visible request as the tables describe it, or nothing: whatever  *)
(* order the pump, the console, the device and the link's reconnects took  *)
(* (_publish_current_locked ends every operation of the coordinator).      *)
THEOREM DisplayCurrentAlways == Spec => []DisplayCurrent
<1>1. IInv /\ DisplayInv => DisplayCurrent
  BY DEF DisplayInv, DisplayCurrent, Settled, ShownFrame, Current
<1> QED
  BY <1>1, DisplayInvariant, PTL

(* Within a session a shown request is replaced only once it is resolved,  *)
(* and once shown as being sent it stays so.                               *)
THEOREM ShownUntilResolvedAlways == Spec => ShownUntilResolved
<1>1. IInv /\ DisplayInv /\ [Next]_vars =>
        [/\ display.id # 0 /\ display'.id # display.id /\ linked
               => display.id \notin DOMAIN byDevice'
         /\ display.sending /\ display'.id = display.id => display'.sending]_vars
  BY ShownStep
<1> QED
  BY <1>1, DisplayInvariant, PTL DEF Spec, ShownUntilResolved

=============================================================================
