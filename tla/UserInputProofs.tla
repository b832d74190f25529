-------------------------- MODULE UserInputProofs ---------------------------
(***************************************************************************)
(* Proofs about UserInput, for any requests, questions and turns: every    *)
(* request is answered once and completely or not at all, every question   *)
(* that waits has its local id, and nothing of a resolved one is left.     *)
(***************************************************************************)
EXTENDS UserInput, FiniteSetTheorems, SequenceTheorems, TLAPS

-----------------------------------------------------------------------------
(* The inductive invariant.                                                *)

Messages ==
  [t : {"started", "completed"}, turn : Turn]
    \cup [t : {"request"}, req : Requests, turn : Turn]
    \cup [t : {"unsupported", "resolved"}, req : Requests]

Bindings == [req : Requests, question : AllQuestions]

Jobs == [reqs : SUBSET Requests, turn : Turn \cup {None}, input : Nat,
         mark : {"none", "approval", "question"}]

Labels == {"idle", "dead", "bind", "sync", "sync_questions", "mark", "discard", "unbind",
           "slot_done", "prompt"}

Servers == [issued : SUBSET Requests, open : SUBSET Requests,
            turn : Turn \cup {None}, turns : SUBSET Turn]

Types ==
  /\ srv \in Servers
  /\ inbox \in Seq(Messages)
  /\ status \in [Requests -> {"absent", "awaiting", "response_sent", "discarded"}]
  /\ staged \in [Requests -> SUBSET AllQuestions]
  /\ turnOf \in [Requests -> Turn \cup {None}]
  /\ rejected \in SUBSET Requests
  /\ nextId \in Nat
  /\ byInput \in [DOMAIN byInput -> Bindings] /\ DOMAIN byInput \subseteq 1..nextId
  /\ byRequest \in [DOMAIN byRequest -> SUBSET (1..nextId)] /\ DOMAIN byRequest \subseteq Requests
  /\ slot \in Turn \cup {None}
  /\ attention \in {"none", "approval", "question", "done"}
  /\ approvals \in BOOLEAN
  /\ pc \in [Threads -> Labels]
  /\ job \in [Threads -> Jobs]
  /\ sent \in [Requests -> Nat]
  /\ given \in [Requests -> SUBSET AllQuestions]
  /\ void \in SUBSET Requests

(* A message that asks, or resolves, request r.                            *)
Asks(m, r) == m.t \in {"request", "unsupported"} /\ m.req = r
Resolves(m, r) == m.t = "resolved" /\ m.req = r

Asked(r) == \E i \in DOMAIN inbox : Asks(inbox[i], r)
Resolved(r) == \E i \in DOMAIN inbox : Resolves(inbox[i], r)

(* The pump owes request r a resolution.                                   *)
Owned(r) == status[r] # "absent" \/ r \in rejected

(* A request is issued, asked, owned and resolved, once and in this order. *)
Order ==
  \A i, j \in DOMAIN inbox, r \in Requests :
    /\ Asks(inbox[i], r) /\ Asks(inbox[j], r) => i = j
    /\ Resolves(inbox[i], r) /\ Resolves(inbox[j], r) => i = j
    /\ Asks(inbox[i], r) /\ Resolves(inbox[j], r) => i < j

Ledger ==
  \A r \in Requests :
    /\ Asked(r) \/ Resolved(r) \/ Owned(r) \/ r \in srv.open => r \in srv.issued
    /\ Asked(r) => ~Owned(r)
    /\ r \in srv.open => ~Resolved(r)
    /\ r \in srv.open \/ Resolved(r) => Asked(r) \/ Owned(r)
    /\ Asked(r) \/ Owned(r) => r \in srv.open \/ Resolved(r)
    /\ r \in rejected => status[r] = "absent"

(* Both tables of the coordinator hold the same ids, one per question.     *)
Tables ==
  /\ \A i \in DOMAIN byInput : byInput[i].req \in DOMAIN byRequest /\ i \in byRequest[byInput[i].req]
  /\ \A r \in DOMAIN byRequest : \A i \in byRequest[r] : i \in DOMAIN byInput /\ byInput[i].req = r
  /\ \A i \in DOMAIN byInput : byInput[i].question \in Questions[byInput[i].req]
  /\ \A r \in DOMAIN byRequest : \A q \in Questions[r] :
       \E i \in byRequest[r] : byInput[i] = [req |-> r, question |-> q]

Unbinding(t, r) == pc[t] = "unbind" /\ r \in job[t].reqs
Binding(r) == pc["pump"] = "bind" /\ r \in job["pump"].reqs

(* Contract and coordinator: what one knows, the other knows, or is about  *)
(* to.                                                                     *)
InStep ==
  /\ \A t \in Threads, r \in Requests : Unbinding(t, r) =>
       status[r] # "awaiting" /\ ~Asked(r) /\ r \in srv.issued
  /\ pc["pump"] = "bind" => \E r \in Requests : job["pump"].reqs = {r} /\ status[r] # "absent"
  /\ \A r \in DOMAIN byRequest : status[r] # "absent" \/ Unbinding("pump", r)
  /\ \A r \in Requests : status[r] = "awaiting" => r \in DOMAIN byRequest \/ Binding(r)

(* What has been answered.                                                 *)
Answers ==
  /\ \A r \in Requests : staged[r] \subseteq given[r] /\ given[r] \subseteq Questions[r]
  /\ \A r \in Requests : status[r] = "awaiting" \/ Asked(r) \/ r \notin srv.issued => sent[r] = 0 /\ r \notin void
  /\ AnsweredCompletely

InputInv ==
  Types /\ Order /\ Ledger /\ Tables /\ InStep /\ Answers /\ PumpSurvives /\ EndedTurnUnmarked

-----------------------------------------------------------------------------
(* The inbox.                                                              *)

LEMMA Posted ==
  ASSUME Types, NEW m \in Messages, Post(m)
  PROVE  /\ inbox' \in Seq(Messages)
         /\ Order /\ (\A r \in Requests : /\ Asks(m, r) => ~Asked(r) /\ ~Resolved(r)
                                          /\ Resolves(m, r) => ~Resolved(r)) => Order'
         /\ \A r \in Requests : Asked(r)' <=> Asked(r) \/ Asks(m, r)
         /\ \A r \in Requests : Resolved(r)' <=> Resolved(r) \/ Resolves(m, r)
<1> DEFINE n == Len(inbox)
<1>1. inbox \in Seq(Messages) /\ inbox' = Append(inbox, m)
  BY DEF Types, Post
<1>2. /\ inbox' \in Seq(Messages) /\ n \in Nat /\ Len(inbox') = n + 1
      /\ \A i \in 1..n : inbox'[i] = inbox[i]
      /\ inbox'[n + 1] = m
  BY <1>1, AppendProperties
<1>3. DOMAIN inbox = 1..n /\ DOMAIN inbox' = 1..(n + 1)
  BY <1>1, <1>2, LenProperties
<1> HIDE DEF n
<1>4. \A r \in Requests : Asked(r)' <=> Asked(r) \/ Asks(m, r)
  <2> SUFFICES ASSUME NEW r \in Requests PROVE Asked(r)' <=> Asked(r) \/ Asks(m, r)
    OBVIOUS
  <2>1. Asked(r)' <=> \E i \in DOMAIN inbox' : Asks(inbox'[i], r)
    BY DEF Asked, Asks
  <2> QED
    BY <1>2, <1>3, <2>1 DEF Asked
<1>5. \A r \in Requests : Resolved(r)' <=> Resolved(r) \/ Resolves(m, r)
  <2> SUFFICES ASSUME NEW r \in Requests PROVE Resolved(r)' <=> Resolved(r) \/ Resolves(m, r)
    OBVIOUS
  <2>1. Resolved(r)' <=> \E i \in DOMAIN inbox' : Resolves(inbox'[i], r)
    BY DEF Resolved, Resolves
  <2> QED
    BY <1>2, <1>3, <2>1 DEF Resolved
<1>6. ASSUME Order, \A r \in Requests : /\ Asks(m, r) => ~Asked(r) /\ ~Resolved(r)
                                        /\ Resolves(m, r) => ~Resolved(r)
      PROVE  Order'
  <2>1. ASSUME NEW i \in DOMAIN inbox', NEW j \in DOMAIN inbox', NEW r \in Requests
        PROVE  /\ Asks(inbox'[i], r) /\ Asks(inbox'[j], r) => i = j
               /\ Resolves(inbox'[i], r) /\ Resolves(inbox'[j], r) => i = j
               /\ Asks(inbox'[i], r) /\ Resolves(inbox'[j], r) => i < j
    <3>1. CASE i \in DOMAIN inbox /\ j \in DOMAIN inbox
      BY <1>2, <1>3, <1>6, <3>1 DEF Order
    <3>2. CASE i = n + 1 /\ j \in DOMAIN inbox
      BY <1>2, <1>3, <1>6, <3>2 DEF Asked, Resolved
    <3>3. CASE i \in DOMAIN inbox /\ j = n + 1
      BY <1>2, <1>3, <1>6, <3>3 DEF Asked, Resolved
    <3>4. CASE i = n + 1 /\ j = n + 1
      <4>1. ~(Asks(m, r) /\ Resolves(m, r))
        BY DEF Asks, Resolves
      <4> QED
        BY <1>2, <3>4, <4>1
    <3> QED
      BY <1>2, <1>3, <2>1, <3>1, <3>2, <3>3, <3>4
  <2> QED
    BY <2>1 DEF Order, Asks, Resolves
<1> QED
  BY <1>2, <1>4, <1>5, <1>6

LEMMA Taken ==
  ASSUME Types, Order, inbox # <<>>, inbox' = Tail(inbox), NEW m, m = Head(inbox)
  PROVE  /\ inbox' \in Seq(Messages) /\ m \in Messages /\ Order'
         /\ \A r \in Requests : /\ Asked(r) <=> Asked(r)' \/ Asks(m, r)
                                /\ Resolved(r) <=> Resolved(r)' \/ Resolves(m, r)
                                /\ Asks(m, r) => ~Asked(r)'
                                /\ Resolves(m, r) => ~Resolved(r)' /\ ~Asked(r)
<1> DEFINE n == Len(inbox) - 1
<1>1. inbox \in Seq(Messages)
  BY DEF Types
<1>2. /\ n \in Nat /\ DOMAIN inbox = 1..(n + 1)
      /\ m = inbox[1] /\ m \in Messages /\ inbox' \in Seq(Messages)
      /\ Len(inbox') = n /\ \A i \in 1..n : inbox'[i] = inbox[i + 1]
  <2>1. Len(inbox) \in Nat /\ Len(inbox) # 0 /\ DOMAIN inbox = 1..Len(inbox)
    BY <1>1, EmptySeq, LenProperties
  <2> QED
    BY <1>1, <2>1, HeadTailProperties
<1>3. DOMAIN inbox' = 1..n
  BY <1>2, LenProperties
<1> HIDE DEF n
<1>4. /\ \A i \in 1..n : i + 1 \in DOMAIN inbox /\ i + 1 # 1 /\ i + 1 > 1
      /\ \A i \in DOMAIN inbox : i = 1 \/ (i - 1 \in 1..n /\ inbox[i] = inbox'[i - 1])
      /\ 1 \in DOMAIN inbox
  BY <1>2
<1>5. ASSUME NEW i \in DOMAIN inbox', NEW j \in DOMAIN inbox', NEW r \in Requests
      PROVE  /\ Asks(inbox'[i], r) /\ Asks(inbox'[j], r) => i = j
             /\ Resolves(inbox'[i], r) /\ Resolves(inbox'[j], r) => i = j
             /\ Asks(inbox'[i], r) /\ Resolves(inbox'[j], r) => i < j
  <2>1. /\ i \in 1..n /\ j \in 1..n /\ i + 1 \in DOMAIN inbox /\ j + 1 \in DOMAIN inbox
        /\ inbox'[i] = inbox[i + 1] /\ inbox'[j] = inbox[j + 1]
    BY <1>2, <1>3, <1>4
  <2>2. /\ Asks(inbox[i + 1], r) /\ Asks(inbox[j + 1], r) => i + 1 = j + 1
        /\ Resolves(inbox[i + 1], r) /\ Resolves(inbox[j + 1], r) => i + 1 = j + 1
        /\ Asks(inbox[i + 1], r) /\ Resolves(inbox[j + 1], r) => i + 1 < j + 1
    BY <2>1 DEF Order
  <2> QED
    BY <1>2, <2>1, <2>2
<1>6. Order'
  BY <1>5 DEF Order, Asks, Resolves
<1>7. ASSUME NEW r \in Requests
      PROVE  /\ Asked(r) <=> Asked(r)' \/ Asks(m, r)
             /\ Resolved(r) <=> Resolved(r)' \/ Resolves(m, r)
             /\ Asks(m, r) => ~Asked(r)'
             /\ Resolves(m, r) => ~Resolved(r)' /\ ~Asked(r)
  <2>1. /\ Asked(r)' <=> \E i \in DOMAIN inbox' : Asks(inbox'[i], r)
        /\ Resolved(r)' <=> \E i \in DOMAIN inbox' : Resolves(inbox'[i], r)
    BY DEF Asked, Asks, Resolved, Resolves
  <2>2. Asked(r) <=> Asked(r)' \/ Asks(m, r)
    <3>1. Asks(m, r) => Asked(r)
      BY <1>2, <1>4 DEF Asked
    <3>2. ASSUME NEW i \in DOMAIN inbox', Asks(inbox'[i], r) PROVE Asked(r)
      <4>1. i \in 1..n /\ i + 1 \in DOMAIN inbox /\ inbox[i + 1] = inbox'[i]
        BY <1>2, <1>3, <1>4
      <4> QED
        BY <3>2, <4>1 DEF Asked
    <3>3. ASSUME NEW i \in DOMAIN inbox, Asks(inbox[i], r), i # 1 PROVE Asked(r)'
      BY <1>3, <1>4, <2>1, <3>3
    <3> QED
      BY <1>2, <2>1, <3>1, <3>2, <3>3 DEF Asked
  <2>3. Resolved(r) <=> Resolved(r)' \/ Resolves(m, r)
    <3>1. Resolves(m, r) => Resolved(r)
      BY <1>2, <1>4 DEF Resolved
    <3>2. ASSUME NEW i \in DOMAIN inbox', Resolves(inbox'[i], r) PROVE Resolved(r)
      <4>1. i \in 1..n /\ i + 1 \in DOMAIN inbox /\ inbox[i + 1] = inbox'[i]
        BY <1>2, <1>3, <1>4
      <4> QED
        BY <3>2, <4>1 DEF Resolved
    <3>3. ASSUME NEW i \in DOMAIN inbox, Resolves(inbox[i], r), i # 1 PROVE Resolved(r)'
      BY <1>3, <1>4, <2>1, <3>3
    <3> QED
      BY <1>2, <2>1, <3>1, <3>2, <3>3 DEF Resolved
  <2>4. Asks(m, r) => ~Asked(r)'
    BY <1>2, <1>3, <1>4, <2>1 DEF Order
  <2>5. Resolves(m, r) => ~Resolved(r)'
    BY <1>2, <1>3, <1>4, <2>1 DEF Order
  <2>6. Resolves(m, r) => ~Asked(r)
    BY <1>2, <1>4 DEF Order, Asked
  <2> QED
    BY <2>2, <2>3, <2>4, <2>5, <2>6
<1> QED
  BY <1>2, <1>6, <1>7

-----------------------------------------------------------------------------
(* Steps that leave requests and tables alone.                             *)

LEMMA Moved ==
  ASSUME Types, NEW t \in Threads, NEW label \in Labels, NEW j \in Jobs, Goto(t, label, j)
  PROVE  /\ pc' \in [Threads -> Labels] /\ job' \in [Threads -> Jobs]
         /\ pc'[t] = label /\ job'[t] = j
         /\ \A u \in Threads : u # t => pc'[u] = pc[u] /\ job'[u] = job[u]
BY DEF Types, Goto

LEMMA IdleJob == NoJob \in Jobs
BY DEF NoJob, Jobs

(* No thread begins or ends its work on the tables.                        *)
NoTableWork ==
  \A u \in Threads :
    \/ pc'[u] = pc[u] /\ job'[u] = job[u]
    \/ pc[u] \notin {"bind", "unbind"} /\ pc'[u] \notin {"bind", "unbind"}

LEMMA Calm ==
  ASSUME InputInv, NoTableWork, Order',
         srv'.issued = srv.issued, srv'.open = srv.open,
         UNCHANGED <<status, staged, rejected, byInput, byRequest, sent, given, void>>,
         \A r \in Requests : (Asked(r)' <=> Asked(r)) /\ (Resolved(r)' <=> Resolved(r))
  PROVE  Order' /\ Ledger' /\ Tables' /\ InStep' /\ Answers'
<1>0. "pump" \in Threads
  BY DEF Threads
<1>1. Ledger'
  <2>1. \A r \in Requests : Owned(r)' <=> Owned(r)
    BY DEF Owned
  <2> QED
    BY <2>1 DEF InputInv, Ledger
<1>2. Tables'
  BY DEF InputInv, Tables
<1>3. InStep'
  <2>1. \A t \in Threads, r \in Requests : Unbinding(t, r)' <=> Unbinding(t, r)
    BY DEF NoTableWork, Unbinding
  <2>2. \A r \in Requests : Binding(r)' <=> Binding(r)
    BY <1>0 DEF NoTableWork, Binding
  <2>3. pc'["pump"] = "bind" => pc["pump"] = "bind" /\ job'["pump"] = job["pump"]
    BY <1>0 DEF NoTableWork
  <2>4. \A r \in DOMAIN byRequest : r \in Requests
    BY DEF InputInv, Types
  <2> QED
    BY <1>0, <2>1, <2>2, <2>3, <2>4 DEF InputInv, InStep
<1>4. Answers'
  BY DEF InputInv, Answers, AnsweredCompletely
<1> QED
  BY <1>1, <1>2, <1>3, <1>4

-----------------------------------------------------------------------------
(* The app-server.                                                         *)

LEMMA ServerTurnKeeps ==
  ASSUME InputInv, (\E t \in Turn : ServerStartsTurn(t)) \/ ServerCompletesTurn
  PROVE  InputInv'
<1>0. Types /\ Order /\ srv \in Servers
  BY DEF InputInv, Types
<1>1. UNCHANGED <<contract, tables, mark, pc, job, history>>
  BY DEF ServerStartsTurn, ServerCompletesTurn
<1>2. PICK m \in [t : {"started", "completed"}, turn : Turn] : Post(m) /\ srv' \in Servers /\ srv'.issued = srv.issued /\ srv'.open = srv.open
  <2>1. ASSUME NEW t \in Turn, ServerStartsTurn(t)
        PROVE  /\ Post([t |-> "started", turn |-> t])
               /\ srv' \in Servers /\ srv'.issued = srv.issued /\ srv'.open = srv.open
    BY <1>0, <2>1 DEF ServerStartsTurn, Servers
  <2>2. ASSUME ServerCompletesTurn
        PROVE  /\ Post([t |-> "completed", turn |-> srv.turn]) /\ srv.turn \in Turn
               /\ srv' \in Servers /\ srv'.issued = srv.issued /\ srv'.open = srv.open
    BY <1>0, <2>2 DEF ServerCompletesTurn, Servers
  <2> QED
    BY <2>1, <2>2
<1>3. m \in Messages /\ \A r \in Requests : ~Asks(m, r) /\ ~Resolves(m, r)
  BY <1>2 DEF Messages, Asks, Resolves
<1>4. /\ inbox' \in Seq(Messages) /\ Order'
      /\ \A r \in Requests : (Asked(r)' <=> Asked(r)) /\ (Resolved(r)' <=> Resolved(r))
  BY <1>0, <1>2, <1>3, Posted
<1>5. Types'
  BY <1>0, <1>1, <1>2, <1>4 DEF Types, contract, tables, mark, history
<1>6. NoTableWork
  BY <1>1 DEF NoTableWork
<1>7. UNCHANGED <<status, staged, rejected, byInput, byRequest, sent, given, void>>
  BY <1>1 DEF contract, tables, history
<1>8. Ledger' /\ Tables' /\ InStep' /\ Answers'
  BY <1>2, <1>4, <1>6, <1>7, Calm
<1>9. PumpSurvives' /\ EndedTurnUnmarked'
  BY <1>1 DEF InputInv, PumpSurvives, EndedTurnUnmarked, mark
<1> QED
  BY <1>4, <1>5, <1>8, <1>9 DEF InputInv

LEMMA ServerAsksKeeps ==
  ASSUME InputInv, NEW r \in Requests, ServerAsks(r) \/ ServerAsksUnsupported(r)
  PROVE  InputInv'
<1>0. Types /\ Order /\ Ledger /\ srv \in Servers
  BY DEF InputInv, Types
<1>1. UNCHANGED <<contract, tables, mark, pc, job, history>> /\ r \notin srv.issued
  BY DEF ServerAsks, ServerAsksUnsupported
<1>2. /\ srv' \in Servers /\ srv'.issued = srv.issued \cup {r} /\ srv'.open = srv.open \cup {r}
  BY <1>0 DEF ServerAsks, ServerAsksUnsupported, Servers
<1>3. PICK m \in Messages : Post(m) /\ m.t \in {"request", "unsupported"} /\ m.req = r
  <2>1. CASE ServerAsks(r)
    <3>1. srv.turn \in Turn /\ Post([t |-> "request", req |-> r, turn |-> srv.turn])
      BY <1>0, <2>1 DEF ServerAsks, Servers
    <3> QED
      BY <3>1 DEF Messages
  <2>2. CASE ServerAsksUnsupported(r)
    <3>1. Post([t |-> "unsupported", req |-> r])
      BY <2>2 DEF ServerAsksUnsupported
    <3> QED
      BY <3>1 DEF Messages
  <2> QED
    BY <2>1, <2>2
<1>4. \A x \in Requests : (Asks(m, x) <=> x = r) /\ ~Resolves(m, x)
  BY <1>3 DEF Asks, Resolves
<1>5. ~Asked(r) /\ ~Resolved(r) /\ ~Owned(r)
  BY <1>0, <1>1 DEF Ledger
<1>6. /\ inbox' \in Seq(Messages) /\ Order'
      /\ \A x \in Requests : (Asked(x)' <=> Asked(x) \/ x = r) /\ (Resolved(x)' <=> Resolved(x))
  BY <1>0, <1>3, <1>4, <1>5, Posted
<1>7. Types'
  BY <1>0, <1>1, <1>2, <1>6 DEF Types, contract, tables, mark, history
<1>8. UNCHANGED <<status, staged, rejected, byInput, byRequest, sent, given, void>>
  BY <1>1 DEF contract, tables, history
<1>9. \A x \in Requests : Owned(x)' <=> Owned(x)
  BY <1>8 DEF Owned
<1>10. Ledger'
  BY <1>0, <1>2, <1>5, <1>6, <1>8, <1>9 DEF Ledger
<1>11. Tables'
  BY <1>8 DEF InputInv, Tables
<1>12. InStep'
  <2>1. /\ \A t \in Threads, x \in Requests : Unbinding(t, x)' <=> Unbinding(t, x)
        /\ \A x \in Requests : Binding(x)' <=> Binding(x)
    BY <1>1 DEF Unbinding, Binding
  <2>2. \A x \in DOMAIN byRequest : x \in Requests
    BY <1>0 DEF Types
  <2>3. "pump" \in Threads
    BY DEF Threads
  <2> QED
    BY <1>1, <1>2, <1>6, <1>8, <2>1, <2>2, <2>3 DEF InputInv, InStep
<1>13. Answers'
  BY <1>1, <1>2, <1>6, <1>8 DEF InputInv, Answers, AnsweredCompletely
<1>14. PumpSurvives' /\ EndedTurnUnmarked'
  BY <1>1 DEF InputInv, PumpSurvives, EndedTurnUnmarked, mark
<1> QED
  BY <1>6, <1>7, <1>10, <1>11, <1>12, <1>13, <1>14 DEF InputInv

LEMMA ServerResolvesKeeps ==
  ASSUME InputInv, NEW r \in Requests, ServerResolves(r)
  PROVE  InputInv'
<1>0. Types /\ Order /\ Ledger /\ srv \in Servers
  BY DEF InputInv, Types
<1>1. UNCHANGED <<contract, tables, mark, pc, job, history>> /\ r \in srv.open
  BY DEF ServerResolves
<1>2. /\ srv' \in Servers /\ srv'.issued = srv.issued /\ srv'.open = srv.open \ {r}
  BY <1>0 DEF ServerResolves, Servers
<1>3. PICK m \in Messages : Post(m) /\ m.t = "resolved" /\ m.req = r
  <2>1. Post([t |-> "resolved", req |-> r])
    BY DEF ServerResolves
  <2> QED
    BY <2>1 DEF Messages
<1>4. \A x \in Requests : ~Asks(m, x) /\ (Resolves(m, x) <=> x = r)
  BY <1>3 DEF Asks, Resolves
<1>5. ~Resolved(r)
  BY <1>0, <1>1 DEF Ledger
<1>6. /\ inbox' \in Seq(Messages) /\ Order'
      /\ \A x \in Requests : (Asked(x)' <=> Asked(x)) /\ (Resolved(x)' <=> Resolved(x) \/ x = r)
  BY <1>0, <1>3, <1>4, <1>5, Posted
<1>7. Types'
  BY <1>0, <1>1, <1>2, <1>6 DEF Types, contract, tables, mark, history
<1>8. UNCHANGED <<status, staged, rejected, byInput, byRequest, sent, given, void>>
  BY <1>1 DEF contract, tables, history
<1>9. \A x \in Requests : Owned(x)' <=> Owned(x)
  BY <1>8 DEF Owned
<1>10. Ledger'
  BY <1>0, <1>1, <1>2, <1>5, <1>6, <1>8, <1>9 DEF Ledger
<1>11. Tables'
  BY <1>8 DEF InputInv, Tables
<1>12. InStep'
  <2>1. /\ \A t \in Threads, x \in Requests : Unbinding(t, x)' <=> Unbinding(t, x)
        /\ \A x \in Requests : Binding(x)' <=> Binding(x)
    BY <1>1 DEF Unbinding, Binding
  <2>2. \A x \in DOMAIN byRequest : x \in Requests
    BY <1>0 DEF Types
  <2>3. "pump" \in Threads
    BY DEF Threads
  <2> QED
    BY <1>1, <1>2, <1>6, <1>8, <2>1, <2>2, <2>3 DEF InputInv, InStep
<1>13. Answers'
  BY <1>1, <1>2, <1>6, <1>8 DEF InputInv, Answers, AnsweredCompletely
<1>14. PumpSurvives' /\ EndedTurnUnmarked'
  BY <1>1 DEF InputInv, PumpSurvives, EndedTurnUnmarked, mark
<1> QED
  BY <1>6, <1>7, <1>10, <1>11, <1>12, <1>13, <1>14 DEF InputInv

-----------------------------------------------------------------------------
(* Steps of a thread that touch at most the slot's mark.                   *)

LEMMA LocalKeeps ==
  ASSUME InputInv, NEW t \in Threads, NEW label \in Labels \ {"bind", "unbind"}, NEW j \in Jobs,
         Goto(t, label, j), pc[t] \notin {"bind", "unbind"}, t = "pump" => label # "dead",
         UNCHANGED <<srv, inbox, contract, tables, history>>,
         slot' \in Turn \cup {None}, attention' \in {"none", "approval", "question", "done"},
         approvals' \in BOOLEAN, EndedTurnUnmarked'
  PROVE  InputInv'
<1>0. Types /\ Order
  BY DEF InputInv
<1>1. /\ pc' \in [Threads -> Labels] /\ job' \in [Threads -> Jobs] /\ pc'[t] = label
      /\ \A u \in Threads : u # t => pc'[u] = pc[u] /\ job'[u] = job[u]
  BY <1>0, Moved
<1>2. UNCHANGED <<status, staged, turnOf, rejected, byInput, byRequest, nextId, sent, given, void>>
  BY DEF contract, tables, history
<1>3. Types'
  BY <1>0, <1>1, <1>2 DEF Types
<1>4. NoTableWork
  BY <1>1 DEF NoTableWork
<1>5. Order'
  BY <1>0 DEF Order
<1>6. \A r \in Requests : (Asked(r)' <=> Asked(r)) /\ (Resolved(r)' <=> Resolved(r))
  BY DEF Asked, Resolved
<1>7. Ledger' /\ Tables' /\ InStep' /\ Answers'
  BY <1>2, <1>4, <1>5, <1>6, Calm
<1>8. PumpSurvives'
  BY <1>1 DEF InputInv, PumpSurvives, Threads
<1> QED
  BY <1>3, <1>5, <1>7, <1>8 DEF InputInv

LEMMA AfterIs ==
  ASSUME NEW t \in Threads, After(t)
  PROVE  \E label \in {"idle", "slot_done"} : Goto(t, label, NoJob)
BY DEF After, Done

LEMMA InterruptedKeeps ==
  ASSUME InputInv, NEW t \in {"serial", "main"}, NEW turn \in Turn, Interrupted(t, turn)
  PROVE  InputInv'
<1>1. t \in Threads /\ [NoJob EXCEPT !.turn = turn] \in Jobs
  BY DEF Threads, NoJob, Jobs
<1>2. UNCHANGED <<srv, inbox, contract, tables, history, slot, attention, approvals>>
  BY DEF Interrupted, mark
<1>3. EndedTurnUnmarked'
  BY <1>2 DEF InputInv, EndedTurnUnmarked
<1>4. /\ slot' \in Turn \cup {None} /\ attention' \in {"none", "approval", "question", "done"}
      /\ approvals' \in BOOLEAN
  BY <1>2 DEF InputInv, Types
<1>5. Goto(t, "discard", [NoJob EXCEPT !.turn = turn]) /\ pc[t] = "idle"
  BY DEF Interrupted
<1>6. "discard" \in Labels \ {"bind", "unbind"}
  BY DEF Labels
<1> QED
  BY <1>1, <1>2, <1>3, <1>4, <1>5, <1>6, LocalKeeps

LEMMA SyncKeeps ==
  ASSUME InputInv, NEW t \in Threads, SyncApprovals(t) \/ SyncQuestions(t) \/ SyncSet(t)
  PROVE  InputInv'
<1>0. job[t] \in Jobs /\ NoJob \in Jobs
  BY IdleJob DEF InputInv, Types
<1>1. /\ slot \in Turn \cup {None} /\ attention \in {"none", "approval", "question", "done"}
      /\ approvals \in BOOLEAN /\ EndedTurnUnmarked
  BY DEF InputInv, Types
<1>2. {"mark", "sync_questions", "idle", "slot_done"} \subseteq Labels \ {"bind", "unbind"}
  BY DEF Labels
<1>3. CASE SyncApprovals(t) \/ SyncQuestions(t)
  <2>1. UNCHANGED <<srv, inbox, contract, tables, history, slot, attention, approvals>>
    BY <1>3 DEF SyncApprovals, SyncQuestions, mark
  <2>2. EndedTurnUnmarked'
    BY <1>1, <2>1 DEF EndedTurnUnmarked
  <2>3. pc[t] \notin {"bind", "unbind"}
    BY <1>3 DEF SyncApprovals, SyncQuestions
  <2>4. PICK label \in {"mark", "sync_questions"}, j \in Jobs : Goto(t, label, j)
    <3>1. /\ [job[t] EXCEPT !.mark = "approval"] \in Jobs
          /\ [job[t] EXCEPT !.mark = IF Listed # {} THEN "question" ELSE "none"] \in Jobs
      BY <1>0 DEF Jobs
    <3> QED
      BY <1>0, <1>3, <3>1 DEF SyncApprovals, SyncQuestions
  <2> QED
    BY <1>1, <1>2, <2>1, <2>2, <2>3, <2>4, LocalKeeps
<1>4. CASE SyncSet(t)
  <2>1. UNCHANGED <<srv, inbox, contract, tables, history, slot, approvals>>
    BY <1>4 DEF SyncSet
  <2>2. job[t].mark \in {"none", "approval", "question"}
    BY <1>0 DEF Jobs
  <2>3. attention' = IF slot = None THEN attention ELSE job[t].mark
    BY <1>4 DEF SyncSet, SetAttention
  <2>4. EndedTurnUnmarked' /\ attention' \in {"none", "approval", "question", "done"}
    BY <1>1, <2>1, <2>2, <2>3 DEF EndedTurnUnmarked
  <2>5. PICK label \in {"idle", "slot_done"} : Goto(t, label, NoJob)
    BY <1>4, AfterIs DEF SyncSet
  <2>6. pc[t] = "mark"
    BY <1>4 DEF SyncSet
  <2> QED
    BY <1>0, <1>1, <1>2, <2>1, <2>4, <2>5, <2>6, LocalKeeps
<1> QED
  BY <1>3, <1>4

(* Pump steps about turns and approvals.                                   *)
LEMMA PumpTurnKeeps ==
  ASSUME InputInv, PumpApproval \/ PumpTurnDone
  PROVE  InputInv'
<1>0. NoJob \in Jobs /\ "pump" \in Threads
  BY IdleJob DEF Threads
<1>1. /\ slot \in Turn \cup {None} /\ attention \in {"none", "approval", "question", "done"}
      /\ approvals \in BOOLEAN /\ EndedTurnUnmarked
  BY DEF InputInv, Types
<1>2. {"sync", "idle"} \subseteq Labels \ {"bind", "unbind"}
  BY DEF Labels
<1>3. CASE PumpApproval
  <2>1. UNCHANGED <<srv, inbox, contract, tables, history, slot, attention>> /\ approvals' \in BOOLEAN
    BY <1>1, <1>3 DEF PumpApproval
  <2>2. EndedTurnUnmarked'
    BY <1>1, <2>1 DEF EndedTurnUnmarked
  <2>3. Goto("pump", "sync", NoJob) /\ pc["pump"] = "idle"
    BY <1>3 DEF PumpApproval
  <2> QED
    BY <1>0, <1>1, <1>2, <2>1, <2>2, <2>3, LocalKeeps
<1>4. CASE PumpTurnDone
  <2>1. UNCHANGED <<srv, inbox, contract, tables, history, approvals>> /\ slot' = None /\ attention' = "done"
    BY <1>4 DEF PumpTurnDone
  <2>2. EndedTurnUnmarked'
    BY <2>1 DEF EndedTurnUnmarked
  <2>3. Goto("pump", "idle", NoJob) /\ pc["pump"] = "slot_done"
    BY <1>4 DEF PumpTurnDone, Done
  <2> QED
    BY <1>0, <1>1, <1>2, <2>1, <2>2, <2>3, LocalKeeps
<1> QED
  BY <1>3, <1>4

LEMMA PumpNotifiedKeeps ==
  ASSUME InputInv, PumpStarted \/ PumpCompleted
  PROVE  InputInv'
<1> DEFINE m == Head(inbox)
<1>0. Types /\ Order /\ "pump" \in Threads
  BY DEF InputInv, Threads
<1>1. inbox # <<>> /\ inbox' = Tail(inbox) /\ m.t \in {"started", "completed"} /\ pc["pump"] = "idle"
  BY DEF PumpStarted, PumpCompleted, Receive
<1>2. /\ inbox' \in Seq(Messages) /\ m \in Messages /\ Order'
      /\ \A r \in Requests : /\ Asked(r) <=> Asked(r)' \/ Asks(m, r)
                             /\ Resolved(r) <=> Resolved(r)' \/ Resolves(m, r)
  BY <1>0, <1>1, Taken
<1>3. \A r \in Requests : (Asked(r)' <=> Asked(r)) /\ (Resolved(r)' <=> Resolved(r))
  BY <1>1, <1>2 DEF Asks, Resolves
<1>4. m.turn \in Turn
  BY <1>1, <1>2 DEF Messages
<1>5. UNCHANGED <<srv, contract, tables, history, approvals>>
  BY DEF PumpStarted, PumpCompleted, mark
<1>6. UNCHANGED <<status, staged, turnOf, rejected, byInput, byRequest, nextId, sent, given, void>>
  BY <1>5 DEF contract, tables, history
<1>7. /\ slot' \in Turn \cup {None} /\ attention' \in {"none", "approval", "question", "done"}
      /\ EndedTurnUnmarked'
  BY <1>0, <1>4 DEF PumpStarted, PumpCompleted, mark, InputInv, EndedTurnUnmarked, Types
<1>8. /\ pc' \in [Threads -> Labels] /\ job' \in [Threads -> Jobs]
      /\ pc'["pump"] \in {"idle", "discard"}
      /\ \A u \in Threads : u # "pump" => pc'[u] = pc[u] /\ job'[u] = job[u]
  <2>1. CASE PumpStarted
    BY <1>0, <1>1, <2>1 DEF PumpStarted, Types
  <2>2. CASE PumpCompleted
    <3>1. Goto("pump", "discard", [NoJob EXCEPT !.turn = m.turn]) /\ "discard" \in Labels
      BY <2>2 DEF PumpCompleted, Labels
    <3>2. [NoJob EXCEPT !.turn = m.turn] \in Jobs
      BY <1>4 DEF NoJob, Jobs
    <3> QED
      BY <1>0, <3>1, <3>2, Moved
  <2> QED
    BY <2>1, <2>2
<1> HIDE DEF m
<1>9. Types'
  BY <1>0, <1>2, <1>5, <1>6, <1>7, <1>8 DEF Types
<1>10. NoTableWork
  BY <1>1, <1>8 DEF NoTableWork
<1>11. Ledger' /\ Tables' /\ InStep' /\ Answers'
  BY <1>2, <1>3, <1>5, <1>6, <1>10, Calm
<1>12. PumpSurvives'
  BY <1>8 DEF PumpSurvives
<1> QED
  BY <1>2, <1>7, <1>9, <1>11, <1>12 DEF InputInv

-----------------------------------------------------------------------------
(* Requests and resolutions.                                               *)

LEMMA PumpRegisterKeeps ==
  ASSUME InputInv, PumpRegister
  PROVE  InputInv'
<1> DEFINE m == Head(inbox)
<1>0. Types /\ Order /\ Ledger /\ "pump" \in Threads
  BY DEF InputInv, Threads
<1>1. inbox # <<>> /\ inbox' = Tail(inbox) /\ m.t = "request" /\ pc["pump"] = "idle"
  BY DEF PumpRegister, Receive
<1>2. /\ inbox' \in Seq(Messages) /\ m \in Messages /\ Order'
      /\ \A x \in Requests : /\ Asked(x) <=> Asked(x)' \/ Asks(m, x)
                             /\ Resolved(x) <=> Resolved(x)' \/ Resolves(m, x)
                             /\ Asks(m, x) => ~Asked(x)'
  BY <1>0, <1>1, Taken
<1>3. PICK r \in Requests : r = m.req /\ m.turn \in Turn
  BY <1>1, <1>2 DEF Messages
<1>4. \A x \in Requests : (Asks(m, x) <=> x = r) /\ ~Resolves(m, x)
  BY <1>1, <1>3 DEF Asks, Resolves
<1>5. Asked(r) /\ ~Asked(r)' /\ ~Owned(r)
  BY <1>0, <1>2, <1>3, <1>4 DEF Ledger
<1>6. status[r] = "absent" /\ r \notin rejected
  BY <1>5 DEF Owned
<1>7. /\ status' = [status EXCEPT ![r] = "awaiting"]
      /\ staged' = [staged EXCEPT ![r] = {}]
      /\ turnOf' = [turnOf EXCEPT ![r] = m.turn]
      /\ Goto("pump", "bind", [NoJob EXCEPT !.reqs = {r}])
      /\ UNCHANGED <<srv, rejected, tables, mark, history>>
  BY <1>3, <1>6 DEF PumpRegister
<1> HIDE DEF m
<1>8. UNCHANGED <<byInput, byRequest, nextId, sent, given, void, slot, attention, approvals>>
  BY <1>7 DEF tables, mark, history
<1>9. PICK k \in Jobs : k.reqs = {r} /\ Goto("pump", "bind", k)
  <2>1. [NoJob EXCEPT !.reqs = {r}] \in Jobs /\ [NoJob EXCEPT !.reqs = {r}].reqs = {r}
    BY <1>3 DEF NoJob, Jobs
  <2> QED
    BY <1>7, <2>1
<1>10. /\ pc' \in [Threads -> Labels] /\ job' \in [Threads -> Jobs]
       /\ pc'["pump"] = "bind" /\ job'["pump"].reqs = {r}
       /\ \A u \in Threads : u # "pump" => pc'[u] = pc[u] /\ job'[u] = job[u]
  BY <1>0, <1>9, Moved DEF Labels
<1>11. Types'
  BY <1>0, <1>2, <1>3, <1>7, <1>8, <1>10 DEF Types
<1>12. /\ status'[r] = "awaiting" /\ staged'[r] = {}
       /\ \A x \in Requests : x # r => status'[x] = status[x] /\ staged'[x] = staged[x]
  BY <1>0, <1>3, <1>7 DEF Types
<1>13. Ledger'
  <2>1. \A x \in Requests : Owned(x)' <=> Owned(x) \/ x = r
    BY <1>3, <1>7, <1>12 DEF Owned
  <2> QED
    BY <1>0, <1>2, <1>3, <1>4, <1>5, <1>6, <1>7, <1>12, <2>1 DEF Ledger
<1>14. Tables'
  BY <1>8 DEF InputInv, Tables
<1>15. InStep'
  <2>1. \A u \in Threads, x \in Requests : Unbinding(u, x)' => Unbinding(u, x) /\ x # r
    <3>1. \A u \in Threads, x \in Requests : Unbinding(u, x)' => Unbinding(u, x)
      BY <1>10 DEF Unbinding
    <3> QED
      BY <1>5, <3>1 DEF InputInv, InStep
  <2>2. Binding(r)' /\ ~Unbinding("pump", r)
    BY <1>1, <1>10 DEF Binding, Unbinding
  <2>3. \A x \in DOMAIN byRequest : x \in Requests /\ status[x] # "absent" /\ x # r
    BY <1>0, <1>1, <1>6 DEF InputInv, InStep, Unbinding, Types
  <2>4. \A x \in Requests : status[x] = "awaiting" => x \in DOMAIN byRequest
    BY <1>1 DEF InputInv, InStep, Binding
  <2>5. \A u \in Threads, x \in Requests : Unbinding(u, x)' =>
          status'[x] # "awaiting" /\ ~Asked(x)' /\ x \in srv'.issued
    BY <1>2, <1>7, <1>12, <2>1 DEF InputInv, InStep
  <2>6. pc'["pump"] = "bind" => \E x \in Requests : job'["pump"].reqs = {x} /\ status'[x] # "absent"
    BY <1>3, <1>10, <1>12
  <2>7. \A x \in DOMAIN byRequest' : status'[x] # "absent" \/ Unbinding("pump", x)'
    BY <1>8, <1>12, <2>3
  <2>8. \A x \in Requests : status'[x] = "awaiting" => x \in DOMAIN byRequest' \/ Binding(x)'
    BY <1>8, <1>12, <2>2, <2>4
  <2> QED
    BY <2>5, <2>6, <2>7, <2>8 DEF InStep
<1>16. Answers'
  <2>1. \A x \in Requests : staged'[x] \subseteq given'[x] /\ given'[x] \subseteq Questions[x]
    BY <1>8, <1>12 DEF InputInv, Answers
  <2>2. \A x \in Requests : status'[x] = "awaiting" \/ Asked(x)' \/ x \notin srv'.issued => sent'[x] = 0 /\ x \notin void'
    BY <1>2, <1>5, <1>7, <1>8, <1>12 DEF InputInv, Answers
  <2>3. AnsweredCompletely'
    BY <1>8 DEF InputInv, AnsweredCompletely, Answers
  <2> QED
    BY <2>1, <2>2, <2>3 DEF Answers
<1>17. PumpSurvives' /\ EndedTurnUnmarked'
  BY <1>8, <1>10 DEF PumpSurvives, EndedTurnUnmarked, InputInv
<1> QED
  BY <1>2, <1>11, <1>13, <1>14, <1>15, <1>16, <1>17 DEF InputInv

LEMMA PumpRejectKeeps ==
  ASSUME InputInv, PumpReject \/ PumpResolvedRejected
  PROVE  InputInv'
<1> DEFINE m == Head(inbox)
<1>0. Types /\ Order /\ Ledger /\ "pump" \in Threads
  BY DEF InputInv, Threads
<1>1. inbox # <<>> /\ inbox' = Tail(inbox) /\ m.t \in {"unsupported", "resolved"} /\ pc["pump"] = "idle"
  BY DEF PumpReject, PumpResolvedRejected, Receive
<1>2. /\ inbox' \in Seq(Messages) /\ m \in Messages /\ Order'
      /\ \A x \in Requests : /\ Asked(x) <=> Asked(x)' \/ Asks(m, x)
                             /\ Resolved(x) <=> Resolved(x)' \/ Resolves(m, x)
                             /\ Asks(m, x) => ~Asked(x)'
                             /\ Resolves(m, x) => ~Resolved(x)' /\ ~Asked(x)
  BY <1>0, <1>1, Taken
<1>3. PICK r \in Requests : r = m.req
  BY <1>1, <1>2 DEF Messages
<1>4. UNCHANGED <<srv, status, staged, turnOf, byInput, byRequest, nextId, slot, attention, approvals, pc, job, sent, given, void>>
  BY DEF PumpReject, PumpResolvedRejected, tables, mark, history
<1>5. \/ m.t = "unsupported" /\ rejected' = rejected \cup {r}
      \/ m.t = "resolved" /\ r \in rejected /\ rejected' = rejected \ {r}
  BY <1>3 DEF PumpReject, PumpResolvedRejected, Receive
<1> HIDE DEF m
<1>6. rejected' \in SUBSET Requests
  BY <1>0, <1>3, <1>5 DEF Types
<1>7. Types'
  BY <1>0, <1>2, <1>4, <1>6 DEF Types
<1>8. Ledger'
  <2>1. CASE m.t = "unsupported"
    <3>1. \A x \in Requests : (Asks(m, x) <=> x = r) /\ ~Resolves(m, x)
      BY <1>3, <2>1 DEF Asks, Resolves
    <3>2. \A x \in Requests : Owned(x)' <=> Owned(x) \/ x = r
      BY <1>3, <1>4, <1>5, <2>1 DEF Owned
    <3>3. status[r] = "absent"
      BY <1>0, <1>2, <1>3, <3>1 DEF Ledger, Owned
    <3> QED
      BY <1>0, <1>2, <1>3, <1>4, <1>5, <2>1, <3>1, <3>2, <3>3 DEF Ledger
  <2>2. CASE m.t = "resolved"
    <3>1. \A x \in Requests : ~Asks(m, x) /\ (Resolves(m, x) <=> x = r)
      BY <1>3, <2>2 DEF Asks, Resolves
    <3>2. status[r] = "absent"
      BY <1>0, <1>3, <1>5, <2>2 DEF Ledger
    <3>3. \A x \in Requests : Owned(x)' <=> Owned(x) /\ x # r
      BY <1>3, <1>4, <1>5, <2>2, <3>2 DEF Owned
    <3> QED
      BY <1>0, <1>2, <1>3, <1>4, <1>5, <2>2, <3>1, <3>2, <3>3 DEF Ledger
  <2> QED
    BY <1>1, <2>1, <2>2
<1>9. Tables'
  BY <1>4 DEF InputInv, Tables
<1>10. InStep'
  <2>1. /\ \A t \in Threads, x \in Requests : Unbinding(t, x)' <=> Unbinding(t, x)
        /\ \A x \in Requests : Binding(x)' <=> Binding(x)
    BY <1>4 DEF Unbinding, Binding
  <2>2. \A x \in DOMAIN byRequest : x \in Requests
    BY <1>0 DEF Types
  <2> QED
    BY <1>0, <1>2, <1>4, <2>1, <2>2 DEF InputInv, InStep
<1>11. Answers'
  BY <1>2, <1>4 DEF InputInv, Answers, AnsweredCompletely
<1>12. PumpSurvives' /\ EndedTurnUnmarked'
  BY <1>4 DEF InputInv, PumpSurvives, EndedTurnUnmarked
<1> QED
  BY <1>2, <1>7, <1>8, <1>9, <1>10, <1>11, <1>12 DEF InputInv

LEMMA PumpResolveKeeps ==
  ASSUME InputInv, PumpResolve
  PROVE  InputInv'
<1> DEFINE m == Head(inbox)
<1>0. Types /\ Order /\ Ledger /\ "pump" \in Threads
  BY DEF InputInv, Threads
<1>1. inbox # <<>> /\ inbox' = Tail(inbox) /\ m.t = "resolved" /\ pc["pump"] = "idle" /\ m.req \notin rejected
  BY DEF PumpResolve, Receive
<1>2. /\ inbox' \in Seq(Messages) /\ m \in Messages /\ Order'
      /\ \A x \in Requests : /\ Asked(x) <=> Asked(x)' \/ Asks(m, x)
                             /\ Resolved(x) <=> Resolved(x)' \/ Resolves(m, x)
                             /\ Resolves(m, x) => ~Resolved(x)' /\ ~Asked(x)
  BY <1>0, <1>1, Taken
<1>3. PICK r \in Requests : r = m.req
  BY <1>1, <1>2 DEF Messages
<1>4. \A x \in Requests : ~Asks(m, x) /\ (Resolves(m, x) <=> x = r)
  BY <1>1, <1>3 DEF Asks, Resolves
<1>5. Resolved(r) /\ ~Resolved(r)' /\ ~Asked(r) /\ Owned(r)
  BY <1>0, <1>2, <1>3, <1>4 DEF Ledger
<1>6. status[r] # "absent"
  BY <1>1, <1>3, <1>5 DEF Owned
<1>7. /\ status' = [status EXCEPT ![r] = "absent"]
      /\ staged' = [staged EXCEPT ![r] = {}]
      /\ Goto("pump", "unbind", [NoJob EXCEPT !.reqs = {r}])
      /\ UNCHANGED <<srv, turnOf, rejected, tables, mark, history>>
  BY <1>3, <1>6 DEF PumpResolve
<1> HIDE DEF m
<1>8. UNCHANGED <<byInput, byRequest, nextId, sent, given, void, slot, attention, approvals>>
  BY <1>7 DEF tables, mark, history
<1>9. PICK k \in Jobs : k.reqs = {r} /\ Goto("pump", "unbind", k)
  <2>1. [NoJob EXCEPT !.reqs = {r}] \in Jobs /\ [NoJob EXCEPT !.reqs = {r}].reqs = {r}
    BY <1>3 DEF NoJob, Jobs
  <2> QED
    BY <1>7, <2>1
<1>10. /\ pc' \in [Threads -> Labels] /\ job' \in [Threads -> Jobs]
       /\ pc'["pump"] = "unbind" /\ job'["pump"].reqs = {r}
       /\ \A u \in Threads : u # "pump" => pc'[u] = pc[u] /\ job'[u] = job[u]
  BY <1>0, <1>9, Moved DEF Labels
<1>11. Types'
  BY <1>0, <1>2, <1>3, <1>7, <1>8, <1>10 DEF Types
<1>12. /\ status'[r] = "absent" /\ staged'[r] = {}
       /\ \A x \in Requests : x # r => status'[x] = status[x] /\ staged'[x] = staged[x]
  BY <1>0, <1>3, <1>7 DEF Types
<1>13. Ledger'
  <2>1. \A x \in Requests : Owned(x)' <=> Owned(x) /\ x # r
    BY <1>1, <1>3, <1>7, <1>12 DEF Owned
  <2> QED
    BY <1>0, <1>2, <1>3, <1>4, <1>5, <1>7, <1>12, <2>1 DEF Ledger
<1>14. Tables'
  BY <1>8 DEF InputInv, Tables
<1>15. InStep'
  <2>1. \A u \in Threads, x \in Requests : Unbinding(u, x)' => Unbinding(u, x) \/ x = r
    BY <1>10 DEF Unbinding
  <2>2. Unbinding("pump", r)'
    BY <1>10 DEF Unbinding
  <2>3. \A x \in DOMAIN byRequest : x \in Requests /\ status[x] # "absent"
    BY <1>0, <1>1 DEF InputInv, InStep, Unbinding, Types
  <2>4. \A x \in Requests : status[x] = "awaiting" => x \in DOMAIN byRequest
    BY <1>1 DEF InputInv, InStep, Binding
  <2>5. r \in srv.issued
    BY <1>0, <1>3, <1>5 DEF Ledger
  <2>6. \A u \in Threads, x \in Requests : Unbinding(u, x)' =>
          status'[x] # "awaiting" /\ ~Asked(x)' /\ x \in srv'.issued
    BY <1>2, <1>5, <1>7, <1>12, <2>1, <2>5 DEF InputInv, InStep
  <2>7. \A x \in DOMAIN byRequest' : status'[x] # "absent" \/ Unbinding("pump", x)'
    BY <1>8, <1>12, <2>2, <2>3
  <2>8. \A x \in Requests : status'[x] = "awaiting" => x \in DOMAIN byRequest' \/ Binding(x)'
    BY <1>8, <1>12, <2>4
  <2> QED
    BY <1>10, <2>6, <2>7, <2>8 DEF InStep
<1>16. Answers'
  <2>1. \A x \in Requests : staged'[x] \subseteq given'[x] /\ given'[x] \subseteq Questions[x]
    BY <1>8, <1>12 DEF InputInv, Answers
  <2>2. \A x \in Requests : status'[x] = "awaiting" \/ Asked(x)' \/ x \notin srv'.issued => sent'[x] = 0 /\ x \notin void'
    BY <1>2, <1>7, <1>8, <1>12 DEF InputInv, Answers
  <2>3. AnsweredCompletely'
    BY <1>8 DEF InputInv, AnsweredCompletely, Answers
  <2> QED
    BY <2>1, <2>2, <2>3 DEF Answers
<1>17. PumpSurvives' /\ EndedTurnUnmarked'
  BY <1>8, <1>10 DEF PumpSurvives, EndedTurnUnmarked, InputInv
<1> QED
  BY <1>2, <1>11, <1>13, <1>14, <1>15, <1>16, <1>17 DEF InputInv

-----------------------------------------------------------------------------
(* The coordinator's tables.                                               *)

(* A request lists each of its questions.                                  *)
LEMMA ListingCovers ==
  ASSUME NEW r \in Requests
  PROVE  /\ Cardinality(Questions[r]) \in Nat
         /\ Listing(r) \in [1..Cardinality(Questions[r]) -> Questions[r]]
         /\ \A q \in Questions[r] : \E i \in 1..Cardinality(Questions[r]) : Listing(r)[i] = q
<1> DEFINE n == Cardinality(Questions[r])
<1>1. n \in Nat /\ ExistsBijection(1..n, Questions[r])
  BY FS_CardinalityType, UserInputAssumption
<1>2. PICK f \in [1..n -> Questions[r]] : \A q \in Questions[r] : \E i \in 1..n : f[i] = q
  BY <1>1 DEF ExistsBijection, Bijection, Surjection, Injection
<1>3. \A q \in Questions[r] : \E i \in DOMAIN f : f[i] = q
  BY <1>2
<1>4. /\ Listing(r) \in [1..n -> Questions[r]]
      /\ \A q \in Questions[r] : \E i \in DOMAIN Listing(r) : Listing(r)[i] = q
  BY <1>3 DEF Listing
<1> QED
  BY <1>1, <1>4

(* One new local id per question.                                          *)
LEMMA Bound ==
  ASSUME Types, NEW r \in Requests
  PROVE  /\ LastId(r) \in Nat /\ nextId <= LastId(r)
         /\ DOMAIN Bind(r) = (nextId + 1)..LastId(r)
         /\ \A i \in DOMAIN Bind(r) : /\ Bind(r)[i] \in Bindings
                                      /\ Bind(r)[i].req = r /\ Bind(r)[i].question \in Questions[r]
         /\ \A q \in Questions[r] : \E i \in DOMAIN Bind(r) : Bind(r)[i] = [req |-> r, question |-> q]
<1> DEFINE n == Cardinality(Questions[r])
<1>1. /\ n \in Nat /\ nextId \in Nat
      /\ Listing(r) \in [1..n -> Questions[r]]
      /\ \A q \in Questions[r] : \E i \in 1..n : Listing(r)[i] = q
  BY ListingCovers DEF Types
<1>2. LastId(r) = nextId + n /\ FirstId = nextId + 1
  BY DEF LastId, FirstId
<1>3. Bind(r) = [i \in (nextId + 1)..(nextId + n) |-> [req |-> r, question |-> Listing(r)[i - nextId]]]
  <2>1. FirstId + n - 1 = nextId + n /\ \A i \in (nextId + 1)..(nextId + n) : i - FirstId + 1 = i - nextId
    BY <1>1, <1>2
  <2> QED
    BY <1>2, <2>1 DEF Bind
<1> HIDE DEF n
<1>4. DOMAIN Bind(r) = (nextId + 1)..LastId(r)
  BY <1>2, <1>3
<1>5. ASSUME NEW i \in (nextId + 1)..(nextId + n)
      PROVE  /\ Bind(r)[i] \in Bindings /\ Bind(r)[i].req = r /\ Bind(r)[i].question \in Questions[r]
  <2>1. i - nextId \in 1..n
    BY <1>1
  <2>2. PICK q \in Questions[r] : q = Listing(r)[i - nextId]
    BY <1>1, <2>1
  <2>3. Bind(r)[i] = [req |-> r, question |-> q] /\ q \in AllQuestions
    BY <1>3, <2>2 DEF AllQuestions
  <2> QED
    BY <2>3 DEF Bindings
<1>6. ASSUME NEW q \in Questions[r]
      PROVE  \E i \in DOMAIN Bind(r) : Bind(r)[i] = [req |-> r, question |-> q]
  <2>1. PICK j \in 1..n : Listing(r)[j] = q
    BY <1>1
  <2>2. nextId + j \in (nextId + 1)..(nextId + n) /\ (nextId + j) - nextId = j
    BY <1>1
  <2>3. Bind(r)[nextId + j] = [req |-> r, question |-> q]
    BY <1>3, <2>1, <2>2
  <2> QED
    BY <1>3, <2>2, <2>3
<1> QED
  BY <1>1, <1>2, <1>4, <1>5, <1>6

LEMMA PumpBindKeeps ==
  ASSUME InputInv, PumpBind
  PROVE  InputInv'
<1>0. Types /\ Order /\ Ledger /\ "pump" \in Threads /\ NoJob \in Jobs /\ "sync" \in Labels
  BY IdleJob DEF InputInv, Threads, Labels
<1>1. PICK r \in Requests : job["pump"].reqs = {r} /\ status[r] # "absent"
  BY DEF PumpBind, InputInv, InStep
<1>2. pc["pump"] = "bind" /\ Goto("pump", "sync", NoJob) /\ UNCHANGED <<srv, inbox, contract, mark, history>>
  BY DEF PumpBind
<1>3. UNCHANGED <<status, staged, turnOf, rejected, slot, attention, approvals, sent, given, void>>
  BY <1>2 DEF contract, mark, history
<1>4. /\ pc' \in [Threads -> Labels] /\ job' \in [Threads -> Jobs] /\ pc'["pump"] = "sync"
      /\ \A u \in Threads : u # "pump" => pc'[u] = pc[u] /\ job'[u] = job[u]
  BY <1>0, <1>2, Moved
<1>5. /\ nextId' \in Nat
      /\ byInput' \in [DOMAIN byInput' -> Bindings] /\ DOMAIN byInput' \subseteq 1..nextId'
      /\ byRequest' \in [DOMAIN byRequest' -> SUBSET (1..nextId')]
      /\ DOMAIN byRequest' = DOMAIN byRequest \cup {r}
      /\ Tables'
  <2>0. /\ nextId \in Nat /\ byInput \in [DOMAIN byInput -> Bindings] /\ DOMAIN byInput \subseteq 1..nextId
        /\ byRequest \in [DOMAIN byRequest -> SUBSET (1..nextId)] /\ DOMAIN byRequest \subseteq Requests
    BY <1>0 DEF Types
  <2>1. CASE r \in DOMAIN byRequest
    <3>1. UNCHANGED <<byInput, byRequest, nextId>>
      BY <1>1, <2>1 DEF PumpBind, tables
    <3> QED
      BY <2>0, <2>1, <3>1 DEF InputInv, Tables
  <2>2. CASE r \notin DOMAIN byRequest
    <3> DEFINE b == Bind(r)
               ids == DOMAIN b
    <3>1. /\ nextId' = LastId(r) /\ byInput' = Assigned(byInput, b)
          /\ byRequest' = Assigned(byRequest, [req \in {r} |-> ids])
      BY <1>1, <2>2 DEF PumpBind
    <3>2. /\ nextId' \in Nat /\ nextId <= nextId' /\ ids = (nextId + 1)..nextId'
          /\ \A i \in ids : b[i] \in Bindings /\ b[i].req = r /\ b[i].question \in Questions[r]
          /\ \A q \in Questions[r] : \E i \in ids : b[i] = [req |-> r, question |-> q]
      BY <1>0, <3>1, Bound
    <3>3. /\ byInput' = [i \in DOMAIN byInput \cup ids |-> IF i \in ids THEN b[i] ELSE byInput[i]]
          /\ byRequest' = [x \in DOMAIN byRequest \cup {r} |-> IF x \in {r} THEN ids ELSE byRequest[x]]
      BY <3>1 DEF Assigned
    <3> HIDE DEF b, ids
    <3>4. /\ DOMAIN byInput' = DOMAIN byInput \cup ids /\ DOMAIN byRequest' = DOMAIN byRequest \cup {r}
          /\ \A i \in ids : byInput'[i] = b[i]
          /\ \A i \in DOMAIN byInput : i \notin ids /\ byInput'[i] = byInput[i]
          /\ byRequest'[r] = ids
          /\ \A x \in DOMAIN byRequest : byRequest'[x] = byRequest[x]
      <4>1. \A i \in DOMAIN byInput : i \notin ids
        BY <2>0, <3>2
      <4> QED
        BY <2>2, <3>3, <4>1
    <3>5. byInput' \in [DOMAIN byInput' -> Bindings] /\ DOMAIN byInput' \subseteq 1..nextId'
      <4>1. DOMAIN byInput' \subseteq 1..nextId'
        BY <2>0, <3>2, <3>4
      <4>2. \A i \in DOMAIN byInput' : byInput'[i] \in Bindings
        BY <2>0, <3>2, <3>4
      <4> QED
        BY <3>3, <4>1, <4>2
    <3>6. byRequest' \in [DOMAIN byRequest' -> SUBSET (1..nextId')]
      <4>1. ids \subseteq 1..nextId' /\ 1..nextId \subseteq 1..nextId'
        BY <2>0, <3>2
      <4>2. \A x \in DOMAIN byRequest' : byRequest'[x] \in SUBSET (1..nextId')
        BY <2>0, <3>4, <4>1
      <4> QED
        BY <3>3, <4>2
    <3>7. \A i \in DOMAIN byInput' : byInput'[i].req \in DOMAIN byRequest' /\ i \in byRequest'[byInput'[i].req]
      BY <2>2, <3>2, <3>4 DEF InputInv, Tables
    <3>8. \A x \in DOMAIN byRequest' : \A i \in byRequest'[x] : i \in DOMAIN byInput' /\ byInput'[i].req = x
      <4>1. \A i \in byRequest'[r] : i \in DOMAIN byInput' /\ byInput'[i].req = r
        BY <3>2, <3>4
      <4>2. ASSUME NEW x \in DOMAIN byRequest, NEW i \in byRequest[x]
            PROVE  i \in DOMAIN byInput' /\ byInput'[i].req = x
        <5>1. i \in DOMAIN byInput /\ byInput[i].req = x
          BY DEF InputInv, Tables
        <5> QED
          BY <3>4, <5>1
      <4> QED
        BY <3>4, <4>1, <4>2
    <3>9. \A i \in DOMAIN byInput' : byInput'[i].question \in Questions[byInput'[i].req]
      BY <3>2, <3>4 DEF InputInv, Tables
    <3>10. \A x \in DOMAIN byRequest' : \A q \in Questions[x] :
             \E i \in byRequest'[x] : byInput'[i] = [req |-> x, question |-> q]
      <4> SUFFICES ASSUME NEW x \in DOMAIN byRequest', NEW q \in Questions[x]
                   PROVE  \E i \in byRequest'[x] : byInput'[i] = [req |-> x, question |-> q]
        OBVIOUS
      <4>1. CASE x = r
        BY <3>2, <3>4, <4>1
      <4>2. CASE x \in DOMAIN byRequest
        <5>1. PICK i \in byRequest[x] : byInput[i] = [req |-> x, question |-> q]
          BY <4>2 DEF InputInv, Tables
        <5>2. i \in DOMAIN byInput
          BY <4>2 DEF InputInv, Tables
        <5> QED
          BY <3>4, <4>2, <5>1, <5>2
      <4> QED
        BY <3>4, <4>1, <4>2
    <3>11. Tables'
      BY <3>7, <3>8, <3>9, <3>10 DEF Tables
    <3> QED
      BY <3>2, <3>4, <3>5, <3>6, <3>11
  <2> QED
    BY <2>1, <2>2
<1>6. Types'
  BY <1>0, <1>2, <1>3, <1>4, <1>5 DEF Types
<1>7. Order' /\ \A x \in Requests : (Asked(x)' <=> Asked(x)) /\ (Resolved(x)' <=> Resolved(x))
  BY <1>0, <1>2 DEF Order, Asked, Resolved
<1>8. Ledger'
  <2>1. \A x \in Requests : Owned(x)' <=> Owned(x)
    BY <1>3 DEF Owned
  <2> QED
    BY <1>0, <1>2, <1>3, <1>7, <2>1 DEF Ledger
<1>9. InStep'
  <2>1. \A u \in Threads, x \in Requests : Unbinding(u, x)' => Unbinding(u, x)
    BY <1>4 DEF Unbinding
  <2>2. \A x \in Requests : ~Unbinding("pump", x)
    BY <1>2 DEF Unbinding
  <2>3. \A x \in Requests : Binding(x) => x = r
    BY <1>1 DEF Binding
  <2>4. DOMAIN byRequest \subseteq Requests
    BY <1>0 DEF Types
  <2>5. \A x \in DOMAIN byRequest' : status'[x] # "absent"
    BY <1>1, <1>3, <1>5, <2>2, <2>4 DEF InputInv, InStep
  <2>6. \A x \in Requests : status'[x] = "awaiting" => x \in DOMAIN byRequest'
    BY <1>3, <1>5, <2>3 DEF InputInv, InStep
  <2>7. \A u \in Threads, x \in Requests : Unbinding(u, x)' =>
          status'[x] # "awaiting" /\ ~Asked(x)' /\ x \in srv'.issued
    BY <1>2, <1>3, <1>7, <2>1 DEF InputInv, InStep
  <2> QED
    BY <1>4, <2>5, <2>6, <2>7 DEF InStep
<1>10. Answers'
  BY <1>2, <1>3, <1>7 DEF InputInv, Answers, AnsweredCompletely
<1>11. PumpSurvives' /\ EndedTurnUnmarked'
  BY <1>3, <1>4 DEF InputInv, PumpSurvives, EndedTurnUnmarked
<1> QED
  BY <1>5, <1>6, <1>7, <1>8, <1>9, <1>10, <1>11 DEF InputInv

(* _remove_request takes both tables' entries of the request, no others.   *)
LEMMA UnbindKeeps ==
  ASSUME InputInv, NEW t \in Threads, Unbind(t)
  PROVE  InputInv'
<1>0. Types /\ Order /\ Ledger /\ Tables /\ "pump" \in Threads /\ "sync" \in Labels
  BY DEF InputInv, Threads, Labels
<1>1. PICK k \in Jobs : k = job[t]
  BY <1>0 DEF Types
<1>2. /\ pc[t] = "unbind" /\ Goto(t, "sync", k) /\ UNCHANGED <<srv, inbox, contract, nextId, mark, history>>
      /\ byInput' = [i \in DOMAIN byInput \ BoundIds(k.reqs) |-> byInput[i]]
      /\ byRequest' = [r \in DOMAIN byRequest \ k.reqs |-> byRequest[r]]
  BY <1>1 DEF Unbind
<1>3. UNCHANGED <<status, staged, turnOf, rejected, slot, attention, approvals, sent, given, void>>
  BY <1>2 DEF contract, mark, history
<1>4. /\ pc' \in [Threads -> Labels] /\ job' \in [Threads -> Jobs] /\ pc'[t] = "sync"
      /\ \A u \in Threads : u # t => pc'[u] = pc[u] /\ job'[u] = job[u]
  BY <1>0, <1>2, Moved
<1>5. /\ DOMAIN byInput' \subseteq DOMAIN byInput /\ DOMAIN byRequest' = DOMAIN byRequest \ k.reqs
      /\ \A i \in DOMAIN byInput' : byInput'[i] = byInput[i]
      /\ \A r \in DOMAIN byRequest' : byRequest'[r] = byRequest[r]
      /\ byInput' \in [DOMAIN byInput' -> Bindings]
      /\ byRequest' \in [DOMAIN byRequest' -> SUBSET (1..nextId)]
  BY <1>0, <1>2 DEF Types
<1>6. Types'
  BY <1>0, <1>2, <1>3, <1>4, <1>5 DEF Types
<1>7. \A i \in DOMAIN byInput : i \in BoundIds(k.reqs) <=> byInput[i].req \in k.reqs
  BY <1>0 DEF Tables, BoundIds
<1>8. Tables'
  <2>1. \A i \in DOMAIN byInput : i \in DOMAIN byInput' <=> byInput[i].req \notin k.reqs
    BY <1>2, <1>7
  <2>2. \A i \in DOMAIN byInput' : byInput'[i].req \in DOMAIN byRequest' /\ i \in byRequest'[byInput'[i].req]
    BY <1>0, <1>5, <2>1 DEF Tables
  <2>3. \A r \in DOMAIN byRequest' : \A i \in byRequest'[r] : i \in DOMAIN byInput' /\ byInput'[i].req = r
    BY <1>0, <1>5, <2>1 DEF Tables
  <2>4. \A i \in DOMAIN byInput' : byInput'[i].question \in Questions[byInput'[i].req]
    BY <1>0, <1>5 DEF Tables
  <2>5. \A r \in DOMAIN byRequest' : \A q \in Questions[r] :
          \E i \in byRequest'[r] : byInput'[i] = [req |-> r, question |-> q]
    <3> SUFFICES ASSUME NEW r \in DOMAIN byRequest', NEW q \in Questions[r]
                 PROVE  \E i \in byRequest'[r] : byInput'[i] = [req |-> r, question |-> q]
      OBVIOUS
    <3>1. PICK i \in byRequest[r] : byInput[i] = [req |-> r, question |-> q]
      BY <1>0, <1>5 DEF Tables
    <3>2. i \in byRequest'[r] /\ i \in DOMAIN byInput'
      BY <1>5, <2>3, <3>1
    <3> QED
      BY <1>5, <3>1, <3>2
  <2> QED
    BY <2>2, <2>3, <2>4, <2>5 DEF Tables
<1>9. Order' /\ \A x \in Requests : (Asked(x)' <=> Asked(x)) /\ (Resolved(x)' <=> Resolved(x))
  BY <1>0, <1>2 DEF Order, Asked, Resolved
<1>10. Ledger'
  <2>1. \A x \in Requests : Owned(x)' <=> Owned(x)
    BY <1>3 DEF Owned
  <2> QED
    BY <1>0, <1>2, <1>3, <1>9, <2>1 DEF Ledger
<1>11. InStep'
  <2>1. \A u \in Threads, x \in Requests : Unbinding(u, x)' <=> Unbinding(u, x) /\ u # t
    BY <1>4 DEF Unbinding
  <2>2. \A x \in Requests : Unbinding(t, x) <=> x \in k.reqs
    BY <1>1, <1>2 DEF Unbinding
  <2>3. \A x \in Requests : Binding(x)' <=> Binding(x)
    BY <1>0, <1>2, <1>4 DEF Binding
  <2>4. pc'["pump"] = "bind" => pc["pump"] = "bind" /\ job'["pump"] = job["pump"]
    BY <1>0, <1>4
  <2>5. \A u \in Threads, x \in Requests : Unbinding(u, x)' =>
          status'[x] # "awaiting" /\ ~Asked(x)' /\ x \in srv'.issued
    BY <1>2, <1>3, <1>9, <2>1 DEF InputInv, InStep
  <2>6. \A x \in DOMAIN byRequest' : status'[x] # "absent" \/ Unbinding("pump", x)'
    <3> SUFFICES ASSUME NEW x \in DOMAIN byRequest' PROVE status'[x] # "absent" \/ Unbinding("pump", x)'
      OBVIOUS
    <3>1. x \in Requests /\ x \in DOMAIN byRequest /\ x \notin k.reqs
      BY <1>0, <1>5 DEF Types
    <3>2. status[x] # "absent" \/ Unbinding("pump", x)
      BY <3>1 DEF InputInv, InStep
    <3> QED
      BY <1>0, <1>3, <2>1, <2>2, <3>1, <3>2
  <2>7. \A x \in Requests : status'[x] = "awaiting" => x \in DOMAIN byRequest' \/ Binding(x)'
    BY <1>3, <1>5, <2>2, <2>3 DEF InputInv, InStep
  <2>8. pc'["pump"] = "bind" => \E x \in Requests : job'["pump"].reqs = {x} /\ status'[x] # "absent"
    BY <1>3, <2>4 DEF InputInv, InStep
  <2> QED
    BY <2>5, <2>6, <2>7, <2>8 DEF InStep
<1>12. Answers'
  BY <1>2, <1>3, <1>9 DEF InputInv, Answers, AnsweredCompletely
<1>13. PumpSurvives' /\ EndedTurnUnmarked'
  BY <1>0, <1>3, <1>4 DEF InputInv, PumpSurvives, EndedTurnUnmarked
<1> QED
  BY <1>6, <1>8, <1>9, <1>10, <1>11, <1>12, <1>13 DEF InputInv

-----------------------------------------------------------------------------
(* Discards and answers.                                                   *)

LEMMA ContractDiscardKeeps ==
  ASSUME InputInv, NEW t \in Threads, ContractDiscard(t)
  PROVE  InputInv'
<1>0. Types /\ Order /\ Ledger /\ "pump" \in Threads /\ job[t] \in Jobs /\ NoJob \in Jobs
  BY IdleJob DEF InputInv, Types, Threads
<1>1. PICK gone \in SUBSET Requests : gone = DiscardedBy(job[t].turn)
  BY DEF DiscardedBy
<1>2. /\ pc[t] = "discard"
      /\ status' = [r \in Requests |-> IF r \in gone THEN "discarded" ELSE status[r]]
      /\ staged' = [r \in Requests |-> IF r \in gone THEN {} ELSE staged[r]]
      /\ void' = void \cup gone
      /\ UNCHANGED <<srv, inbox, turnOf, rejected, tables, mark, sent, given>>
      /\ After(t) \/ Goto(t, "unbind", [job[t] EXCEPT !.reqs = gone])
  BY <1>1 DEF ContractDiscard, DiscardedStatus
<1>3. UNCHANGED <<byInput, byRequest, nextId, slot, attention, approvals>>
  BY <1>2 DEF tables, mark
<1>4. \A r \in gone : status[r] = "awaiting" /\ r \in Requests
  BY <1>1 DEF DiscardedBy
<1>5. /\ pc' \in [Threads -> Labels] /\ job' \in [Threads -> Jobs]
      /\ pc'[t] \in {"idle", "slot_done"} \/ (pc'[t] = "unbind" /\ job'[t].reqs = gone)
      /\ \A u \in Threads : u # t => pc'[u] = pc[u] /\ job'[u] = job[u]
  <2>1. CASE After(t)
    <3>1. PICK label \in {"idle", "slot_done"} : Goto(t, label, NoJob)
      BY <2>1, AfterIs
    <3>2. label \in Labels
      BY DEF Labels
    <3> QED
      BY <1>0, <3>1, <3>2, Moved
  <2>2. CASE Goto(t, "unbind", [job[t] EXCEPT !.reqs = gone])
    <3>1. PICK k \in Jobs : k.reqs = gone /\ Goto(t, "unbind", k)
      <4>1. [job[t] EXCEPT !.reqs = gone] \in Jobs /\ [job[t] EXCEPT !.reqs = gone].reqs = gone
        BY <1>0 DEF Jobs
      <4> QED
        BY <2>2, <4>1
    <3> QED
      BY <1>0, <3>1, Moved DEF Labels
  <2> QED
    BY <1>2, <2>1, <2>2
<1>6. Types'
  BY <1>0, <1>2, <1>3, <1>5 DEF Types
<1>7. /\ \A r \in gone : status'[r] = "discarded" /\ staged'[r] = {}
      /\ \A r \in Requests : r \notin gone => status'[r] = status[r] /\ staged'[r] = staged[r]
  BY <1>2
<1>8. Order' /\ \A x \in Requests : (Asked(x)' <=> Asked(x)) /\ (Resolved(x)' <=> Resolved(x))
  BY <1>0, <1>2 DEF Order, Asked, Resolved
<1>9. /\ \A x \in Requests : status'[x] = "absent" <=> status[x] = "absent"
      /\ \A x \in Requests : status'[x] = "awaiting" => status[x] = "awaiting" /\ x \notin gone
  BY <1>4, <1>7
<1>10. \A x \in Requests : Owned(x)' <=> Owned(x)
  BY <1>2, <1>9 DEF Owned
<1>11. Ledger'
  BY <1>0, <1>2, <1>8, <1>9, <1>10 DEF Ledger
<1>12. Tables'
  BY <1>3 DEF InputInv, Tables
<1>13. \A x \in gone : Owned(x) /\ ~Asked(x) /\ x \in srv.issued
  BY <1>0, <1>4 DEF Owned, Ledger
<1>14. InStep'
  <2>1. \A u \in Threads, x \in Requests : Unbinding(u, x)' => Unbinding(u, x) \/ x \in gone
    BY <1>5 DEF Unbinding
  <2>2. \A u \in Threads, x \in Requests : Unbinding(u, x) => Unbinding(u, x)'
    BY <1>2, <1>5 DEF Unbinding
  <2>3. \A x \in Requests : Binding(x) => Binding(x)'
    BY <1>0, <1>2, <1>5 DEF Binding
  <2>4. pc'["pump"] = "bind" => pc["pump"] = "bind" /\ job'["pump"] = job["pump"]
    BY <1>0, <1>5
  <2>5. \A u \in Threads, x \in Requests : Unbinding(u, x)' =>
          status'[x] # "awaiting" /\ ~Asked(x)' /\ x \in srv'.issued
    BY <1>2, <1>8, <1>9, <1>13, <2>1 DEF InputInv, InStep
  <2>6. \A x \in DOMAIN byRequest' : status'[x] # "absent" \/ Unbinding("pump", x)'
    <3>1. DOMAIN byRequest \subseteq Requests
      BY <1>0 DEF Types
    <3> QED
      BY <1>0, <1>3, <1>9, <2>2, <3>1 DEF InputInv, InStep
  <2>7. \A x \in Requests : status'[x] = "awaiting" => x \in DOMAIN byRequest' \/ Binding(x)'
    BY <1>3, <1>9, <2>3 DEF InputInv, InStep
  <2>8. pc'["pump"] = "bind" => \E x \in Requests : job'["pump"].reqs = {x} /\ status'[x] # "absent"
    BY <1>9, <2>4 DEF InputInv, InStep
  <2> QED
    BY <2>5, <2>6, <2>7, <2>8 DEF InStep
<1>15. Answers'
  <2>1. \A x \in Requests : staged'[x] \subseteq given'[x] /\ given'[x] \subseteq Questions[x]
    BY <1>2, <1>4, <1>7 DEF InputInv, Answers
  <2>2. \A x \in Requests : status'[x] = "awaiting" \/ Asked(x)' \/ x \notin srv'.issued => sent'[x] = 0 /\ x \notin void'
    BY <1>2, <1>8, <1>9, <1>13 DEF InputInv, Answers
  <2>3. \A x \in gone : sent[x] = 0
    BY <1>4 DEF InputInv, Answers
  <2>4. AnsweredCompletely'
    BY <1>2, <2>3 DEF InputInv, AnsweredCompletely, Answers
  <2> QED
    BY <2>1, <2>2, <2>4 DEF Answers
<1>16. PumpSurvives' /\ EndedTurnUnmarked'
  BY <1>0, <1>3, <1>5 DEF InputInv, PumpSurvives, EndedTurnUnmarked
<1> QED
  BY <1>6, <1>8, <1>11, <1>12, <1>14, <1>15, <1>16 DEF InputInv

(* respond_host: only the last missing answer of a request that is still   *)
(* awaited sends the response.                                             *)
LEMMA RespondKeeps ==
  ASSUME InputInv, NEW i, NEW secretSurface, RespondHost(i, secretSurface),
         NoTableWork, pc' \in [Threads -> Labels], job' \in [Threads -> Jobs], pc'["pump"] = pc["pump"]
  PROVE  InputInv'
<1>0. Types /\ Order /\ Ledger /\ Tables
  BY DEF InputInv
<1>1. i \in DOMAIN byInput
  BY DEF RespondHost
<1>2. PICK r \in Requests, q \in AllQuestions : r = byInput[i].req /\ q = byInput[i].question /\ q \in Questions[r]
  BY <1>0, <1>1 DEF Types, Bindings, Tables
<1>3. /\ status[r] = "awaiting"
      /\ staged' = [staged EXCEPT ![r] = staged[r] \cup {q}]
      /\ given' = [given EXCEPT ![r] = given[r] \cup {q}]
      /\ UNCHANGED <<srv, inbox, turnOf, rejected, tables, mark, void>>
      /\ \/ UNCHANGED <<status, sent>>
         \/ /\ staged[r] \cup {q} = Questions[r]
            /\ sent' = [sent EXCEPT ![r] = sent[r] + 1]
            /\ status' = [status EXCEPT ![r] = "response_sent"]
  BY <1>2 DEF RespondHost, Answerable
<1>4. UNCHANGED <<byInput, byRequest, nextId, slot, attention, approvals>>
  BY <1>3 DEF tables, mark
<1>5. /\ staged \in [Requests -> SUBSET AllQuestions] /\ given \in [Requests -> SUBSET AllQuestions]
      /\ sent \in [Requests -> Nat]
      /\ status \in [Requests -> {"absent", "awaiting", "response_sent", "discarded"}]
  BY <1>0 DEF Types
<1>6. /\ staged' \in [Requests -> SUBSET AllQuestions] /\ given' \in [Requests -> SUBSET AllQuestions]
      /\ sent' \in [Requests -> Nat]
      /\ status' \in [Requests -> {"absent", "awaiting", "response_sent", "discarded"}]
  BY <1>2, <1>3, <1>5
<1>7. Types'
  BY <1>0, <1>3, <1>4, <1>6 DEF Types
<1>8. /\ \A x \in Requests : x # r => /\ staged'[x] = staged[x] /\ given'[x] = given[x]
                                      /\ status'[x] = status[x] /\ sent'[x] = sent[x]
      /\ staged'[r] = staged[r] \cup {q} /\ given'[r] = given[r] \cup {q}
      /\ status'[r] \in {"awaiting", "response_sent"}
      /\ status'[r] = "awaiting" => sent'[r] = sent[r]
      /\ sent'[r] = sent[r] \/ (sent'[r] = sent[r] + 1 /\ staged[r] \cup {q} = Questions[r])
  BY <1>2, <1>3, <1>5
<1>9. Order' /\ \A x \in Requests : (Asked(x)' <=> Asked(x)) /\ (Resolved(x)' <=> Resolved(x))
  BY <1>0, <1>3 DEF Order, Asked, Resolved
<1>10. /\ \A x \in Requests : status'[x] = "absent" <=> status[x] = "absent"
       /\ \A x \in Requests : status'[x] = "awaiting" => status[x] = "awaiting"
  BY <1>3, <1>8
<1>11. \A x \in Requests : Owned(x)' <=> Owned(x)
  BY <1>3, <1>10 DEF Owned
<1>12. Ledger'
  BY <1>0, <1>3, <1>9, <1>10, <1>11 DEF Ledger
<1>13. Tables'
  BY <1>0, <1>4 DEF Tables
<1>14. InStep'
  <2>0. "pump" \in Threads
    BY DEF Threads
  <2>1. \A t \in Threads, x \in Requests : Unbinding(t, x)' <=> Unbinding(t, x)
    BY DEF NoTableWork, Unbinding
  <2>2. \A x \in Requests : Binding(x)' <=> Binding(x)
    BY <2>0 DEF NoTableWork, Binding
  <2>3. pc'["pump"] = "bind" => pc["pump"] = "bind" /\ job'["pump"] = job["pump"]
    BY <2>0 DEF NoTableWork
  <2>4. DOMAIN byRequest \subseteq Requests
    BY <1>0 DEF Types
  <2>5. \A u \in Threads, x \in Requests : Unbinding(u, x)' =>
          status'[x] # "awaiting" /\ ~Asked(x)' /\ x \in srv'.issued
    BY <1>3, <1>9, <1>10, <2>1 DEF InputInv, InStep
  <2>6. \A x \in DOMAIN byRequest' : status'[x] # "absent" \/ Unbinding("pump", x)'
    BY <1>4, <1>10, <2>0, <2>1, <2>4 DEF InputInv, InStep
  <2>7. \A x \in Requests : status'[x] = "awaiting" => x \in DOMAIN byRequest' \/ Binding(x)'
    BY <1>4, <1>10, <2>2 DEF InputInv, InStep
  <2>8. pc'["pump"] = "bind" => \E x \in Requests : job'["pump"].reqs = {x} /\ status'[x] # "absent"
    BY <1>10, <2>3 DEF InputInv, InStep
  <2> QED
    BY <2>5, <2>6, <2>7, <2>8 DEF InStep
<1>15. Answers'
  <2>0. /\ staged[r] \subseteq given[r] /\ given[r] \subseteq Questions[r]
        /\ sent[r] = 0 /\ r \notin void /\ ~Asked(r) /\ r \in srv.issued
    BY <1>0, <1>2, <1>3 DEF InputInv, Answers, Ledger, Owned
  <2>1. \A x \in Requests : staged'[x] \subseteq given'[x] /\ given'[x] \subseteq Questions[x]
    BY <1>2, <1>8, <2>0 DEF InputInv, Answers
  <2>2. \A x \in Requests : status'[x] = "awaiting" \/ Asked(x)' \/ x \notin srv'.issued => sent'[x] = 0 /\ x \notin void'
    BY <1>3, <1>8, <1>9, <2>0 DEF InputInv, Answers
  <2>3. /\ sent'[r] <= 1 /\ (sent'[r] = 1 => given'[r] = Questions[r]) /\ r \notin void'
    <3>1. staged[r] \cup {q} = Questions[r] => given'[r] = Questions[r]
      BY <1>2, <1>8, <2>0
    <3>2. sent'[r] = 0 \/ (sent'[r] = 1 /\ staged[r] \cup {q} = Questions[r])
      BY <1>8, <2>0
    <3> QED
      BY <1>3, <2>0, <3>1, <3>2
  <2>4. \A x \in Requests : x # r => /\ sent'[x] <= 1 /\ (sent'[x] = 1 => given'[x] = Questions[x])
                                     /\ x \in void' => sent'[x] = 0
    BY <1>3, <1>8 DEF InputInv, Answers, AnsweredCompletely
  <2>5. AnsweredCompletely'
    BY <2>3, <2>4 DEF AnsweredCompletely
  <2> QED
    BY <2>1, <2>2, <2>5 DEF Answers
<1>16. PumpSurvives' /\ EndedTurnUnmarked'
  BY <1>4 DEF InputInv, PumpSurvives, EndedTurnUnmarked
<1> QED
  BY <1>7, <1>9, <1>12, <1>13, <1>14, <1>15, <1>16 DEF InputInv

LEMMA MainKeeps ==
  ASSUME InputInv, NEW i \in Nat,
         AnswerCommand(i) \/ SecretCommand(i) \/ SecretAnswered(i) \/ AnswerFails(i)
  PROVE  InputInv'
<1>0. Types /\ "main" \in Threads /\ NoJob \in Jobs /\ {"idle", "dead", "prompt"} \subseteq Labels
  BY IdleJob DEF InputInv, Threads, Labels
<1>1. /\ slot \in Turn \cup {None} /\ attention \in {"none", "approval", "question", "done"}
      /\ approvals \in BOOLEAN /\ EndedTurnUnmarked
      /\ pc \in [Threads -> Labels] /\ job \in [Threads -> Jobs]
  BY DEF InputInv, Types
<1>2. CASE AnswerCommand(i)
  <2>1. UNCHANGED <<pc, job>> /\ RespondHost(i, FALSE)
    BY <1>2 DEF AnswerCommand
  <2>2. NoTableWork
    BY <2>1 DEF NoTableWork
  <2> QED
    BY <1>1, <2>1, <2>2, RespondKeeps
<1>3. CASE Rejected /\ \E label \in {"idle", "dead", "prompt"}, j \in Jobs : Goto("main", label, j) /\ pc["main"] \in {"idle", "prompt"}
  <2>1. PICK label \in {"idle", "dead", "prompt"}, j \in Jobs : Goto("main", label, j)
    BY <1>3
  <2>2. UNCHANGED <<srv, inbox, contract, tables, history, slot, attention, approvals>>
    BY <1>3 DEF Rejected, mark
  <2>3. EndedTurnUnmarked'
    BY <1>1, <2>2 DEF EndedTurnUnmarked
  <2> QED
    BY <1>0, <1>1, <1>3, <2>1, <2>2, <2>3, LocalKeeps
<1>4. CASE SecretCommand(i)
  <2>1. [NoJob EXCEPT !.input = i] \in Jobs
    BY DEF NoJob, Jobs
  <2> QED
    BY <1>3, <1>4, <2>1 DEF SecretCommand
<1>5. CASE SecretAnswered(i)
  <2>1. CASE Rejected
    BY <1>0, <1>3, <1>5, <2>1 DEF SecretAnswered, Done
  <2>2. CASE RespondHost(i, TRUE)
    <3>1. Goto("main", "idle", NoJob) /\ pc["main"] = "prompt"
      BY <1>5 DEF SecretAnswered, Done
    <3>2. /\ pc' \in [Threads -> Labels] /\ job' \in [Threads -> Jobs] /\ pc'["main"] = "idle"
          /\ \A u \in Threads : u # "main" => pc'[u] = pc[u] /\ job'[u] = job[u]
      BY <1>0, <3>1, Moved
    <3>3. NoTableWork /\ pc'["pump"] = pc["pump"]
      BY <3>1, <3>2 DEF NoTableWork, Threads
    <3> QED
      BY <2>2, <3>2, <3>3, RespondKeeps
  <2> QED
    BY <1>5, <2>1, <2>2 DEF SecretAnswered
<1>6. CASE AnswerFails(i)
  BY <1>0, <1>3, <1>6 DEF AnswerFails
<1> QED
  BY <1>2, <1>4, <1>5, <1>6

-----------------------------------------------------------------------------
LEMMA InputInit == Init => InputInv
<1> SUFFICES ASSUME Init PROVE InputInv
  OBVIOUS
<1>1. inbox \in Seq(Messages) /\ DOMAIN inbox = {} /\ DOMAIN byInput = {} /\ DOMAIN byRequest = {}
  BY EmptySeq DEF Init
<1>2. byInput \in [DOMAIN byInput -> Bindings] /\ byRequest \in [DOMAIN byRequest -> SUBSET (1..nextId)]
  <2>1. <<>> \in [{} -> Bindings] /\ <<>> \in [{} -> SUBSET (1..0)]
    OBVIOUS
  <2> QED
    BY <1>1, <2>1 DEF Init
<1>3. srv \in Servers
  BY DEF Init, Servers
<1>4. pc \in [Threads -> Labels] /\ job \in [Threads -> Jobs] /\ pc["pump"] = "idle"
  BY IdleJob DEF Init, Labels, Threads
<1>5. Types
  BY <1>1, <1>2, <1>3, <1>4 DEF Init, Types
<1>6. Order /\ Ledger
  BY <1>1 DEF Init, Order, Ledger, Asked, Resolved, Owned
<1>7. Tables
  BY <1>1 DEF Tables
<1>8. InStep
  <2>1. \A t \in Threads, r \in Requests : ~Unbinding(t, r)
    BY DEF Init, Unbinding
  <2> QED
    BY <1>1, <1>4, <2>1 DEF Init, InStep
<1>9. Answers
  BY <1>1 DEF Init, Answers, AnsweredCompletely, Asked
<1>10. PumpSurvives /\ EndedTurnUnmarked
  BY <1>4 DEF Init, PumpSurvives, EndedTurnUnmarked
<1> QED
  BY <1>5, <1>6, <1>7, <1>8, <1>9, <1>10 DEF InputInv

LEMMA InputStutter == InputInv /\ UNCHANGED vars => InputInv'
<1> SUFFICES ASSUME InputInv, UNCHANGED vars PROVE InputInv'
  OBVIOUS
<1>1. UNCHANGED <<srv, inbox, status, staged, turnOf, rejected, byInput, byRequest, nextId,
                  slot, attention, approvals, pc, job, sent, given, void>>
  BY DEF vars, contract, tables, mark, history
<1>2. Types' /\ Order'
  BY <1>1 DEF InputInv, Types, Order
<1>3. NoTableWork
  BY <1>1 DEF NoTableWork
<1>4. \A r \in Requests : (Asked(r)' <=> Asked(r)) /\ (Resolved(r)' <=> Resolved(r))
  BY <1>1 DEF Asked, Resolved
<1>5. Ledger' /\ Tables' /\ InStep' /\ Answers'
  BY <1>1, <1>2, <1>3, <1>4, Calm
<1>6. PumpSurvives' /\ EndedTurnUnmarked'
  BY <1>1 DEF InputInv, PumpSurvives, EndedTurnUnmarked
<1> QED
  BY <1>2, <1>5, <1>6 DEF InputInv

LEMMA InputNext == InputInv /\ [Next]_vars => InputInv'
<1> SUFFICES ASSUME InputInv, [Next]_vars PROVE InputInv'
  OBVIOUS
<1>1. CASE ServerStep
  BY <1>1, ServerTurnKeeps, ServerAsksKeeps, ServerResolvesKeeps DEF ServerStep
<1>2. CASE PumpStep
  BY <1>2, PumpRegisterKeeps, PumpBindKeeps, PumpRejectKeeps, PumpResolveKeeps, PumpNotifiedKeeps,
     PumpTurnKeeps DEF PumpStep
<1>3. CASE MainStep
  <2>1. PICK i \in 1..nextId : AnswerCommand(i) \/ SecretCommand(i) \/ SecretAnswered(i) \/ AnswerFails(i)
    BY <1>3 DEF MainStep
  <2>2. i \in Nat
    BY DEF InputInv, Types
  <2> QED
    BY <2>1, <2>2, MainKeeps
<1>4. CASE \E turn \in Turn : DeviceInterrupt(turn) \/ InterruptCommand(turn)
  BY <1>4, InterruptedKeeps DEF DeviceInterrupt, InterruptCommand
<1>5. CASE \E t \in Threads : DiscardStep(t)
  BY <1>5, ContractDiscardKeeps, UnbindKeeps, SyncKeeps DEF DiscardStep
<1>6. CASE UNCHANGED vars
  BY <1>6, InputStutter
<1> QED
  BY <1>1, <1>2, <1>3, <1>4, <1>5, <1>6 DEF Next

(* Contract, coordinator and pump stay in step with the server's requests  *)
(* through every order of registration, answer, discard and resolution.    *)
THEOREM InputInvariant == Spec => []InputInv
BY InputInit, InputNext, PTL DEF Spec

(* A response goes out at most once, complete, and never after a discard.  *)
THEOREM AnsweredCompletelyAlways == Spec => []AnsweredCompletely
<1>1. InputInv => AnsweredCompletely
  BY DEF InputInv, Answers
<1> QED
  BY <1>1, InputInvariant, PTL

(* Every question that waits for an answer has its local id: no discard or *)
(* resolution of another request takes it away.                            *)
THEOREM AwaitingIsAnswerableAlways == Spec => []AwaitingIsAnswerable
<1>1. InputInv => AwaitingIsAnswerable
  <2> SUFFICES ASSUME InputInv, NEW r \in Requests, status[r] = "awaiting", ~Binding(r), NEW q \in Questions[r]
               PROVE  \E i \in DOMAIN byInput : byInput[i] = [req |-> r, question |-> q]
    BY DEF AwaitingIsAnswerable, Binding
  <2>1. r \in DOMAIN byRequest
    BY DEF InputInv, InStep
  <2>2. PICK i \in byRequest[r] : byInput[i] = [req |-> r, question |-> q]
    BY <2>1 DEF InputInv, Tables
  <2>3. i \in DOMAIN byInput
    BY <2>1, <2>2 DEF InputInv, Tables
  <2> QED
    BY <2>2, <2>3
<1> QED
  BY <1>1, InputInvariant, PTL

(* With a correct server no resolution of a question reaches the approval  *)
(* contract, discarded or not: the pump does not fail.                     *)
THEOREM PumpSurvivesAlways == Spec => []PumpSurvives
<1>1. InputInv => PumpSurvives
  BY DEF InputInv
<1> QED
  BY <1>1, InputInvariant, PTL

(* A request discarded while the pump was binding it leaves no local id    *)
(* behind once it is resolved.                                             *)
THEOREM ResolvedUnlistedAlways == Spec => []ResolvedUnlisted
<1>1. InputInv => ResolvedUnlisted
  <2> SUFFICES ASSUME InputInv, Quiet, NEW i \in DOMAIN byInput PROVE byInput[i].req \in srv.open
    BY DEF ResolvedUnlisted
  <2>1. PICK r \in Requests : r = byInput[i].req /\ r \in DOMAIN byRequest
    BY DEF InputInv, Tables, Types
  <2>2. pc["pump"] \in {"idle", "dead"}
    BY DEF Quiet, Threads
  <2>3. status[r] # "absent"
    BY <2>1, <2>2 DEF InputInv, InStep, Unbinding
  <2>4. ~Resolved(r)
    BY DEF Quiet, Resolved
  <2> QED
    BY <2>1, <2>3, <2>4 DEF InputInv, Ledger, Owned
<1> QED
  BY <1>1, InputInvariant, PTL

(* A synchronisation that began while the turn ran and ends after it does  *)
(* not mark the slot again.                                                *)
THEOREM EndedTurnUnmarkedAlways == Spec => []EndedTurnUnmarked
<1>1. InputInv => EndedTurnUnmarked
  BY DEF InputInv
<1> QED
  BY <1>1, InputInvariant, PTL
=============================================================================
