--------------------------- MODULE RuntimeProofs ---------------------------
(***************************************************************************)
(* Theorems about Turns and Runtime, for any set of turns, any tombstone   *)
(* limit, any inbox, and a server that may repeat notifications.           *)
(***************************************************************************)
EXTENDS Runtime, TLAPS

Message == [t : {"started", "completed"}, turn : Turn]
Rpc == [kind : {"none", "start", "interrupt"}, turn : Turn \cup {None},
        status : {"none", "sent", "inProgress", "finished", "ok", "error"}]
Labels == {"idle", "start", "start_wait", "interrupt", "interrupt_wait", "wait",
           "slot_started", "slot_completed", "stopped", "dead"}

Types ==
  /\ srvTurn \in Turn \cup {None} /\ used \subseteq Turn /\ ended \in Seq(Turn)
  /\ repeating \in BOOLEAN /\ inbox \in Seq(Message)
  /\ rpc \in [Callers -> Rpc] /\ fatal \in BOOLEAN
  /\ active \in Turn \cup {None} /\ starting \in BOOLEAN /\ completed \in Seq(Turn)
  /\ turnLock \in Callers \cup {Nobody}
  /\ slot \in Turn \cup {None} /\ interrupted \subseteq Turn
  /\ pc \in [Threads -> Labels] /\ job \in [Threads -> Turn \cup {None}]
  /\ done \subseteq Turn /\ forwarded \in Seq(Turn)

(* The server has started the turns it has ended and the one it runs, each *)
(* once.                                                                   *)
ServerLedger ==
  /\ used = {ended[i] : i \in DOMAIN ended} \cup ({srvTurn} \ {None})
  /\ srvTurn \notin {ended[i] : i \in DOMAIN ended}
  /\ \A i, j \in DOMAIN ended : ended[i] = ended[j] => i = j

(* The pump has handled the first k ends, and remembers the last of them.  *)
Handled(k) ==
  /\ k <= Len(ended)
  /\ done = {ended[i] : i \in 1..k}
  /\ Len(completed) = IF k < TombstoneLimit THEN k ELSE TombstoneLimit
  /\ \A j \in 1..Len(completed) : completed[j] = ended[k - Len(completed) + j]

(* Among the first n ends, t's was one of the last; or it was not there.   *)
Recent(ends, t, n) == \E i \in 1..n : ends[i] = t /\ n - i < TombstoneLimit
Open(ends, t, n) == \A i \in 1..n : ends[i] # t

(* A message that is handled when b ends have been announced announces the *)
(* next end, repeats a recent one, or is of a turn that has not ended; n   *)
(* ends have then been announced.                                          *)
Fits(ends, repeats, m, b, n) ==
  \/ m.t = "completed" /\ b < Len(ends) /\ m.turn = ends[b + 1] /\ n = b + 1
  \/ repeats /\ n = b /\ Recent(ends, m.turn, b)
  \/ n = b /\ m.t = "started" /\ Open(ends, m.turn, b)

(* e[p] is the number of ends announced when message p has been handled.   *)
Before(k, e, p) == IF p = 1 THEN k ELSE e[p - 1]

Announced(k, e) ==
  /\ \A p \in DOMAIN inbox : Fits(ended, repeating, inbox[p], Before(k, e, p), e[p])
  /\ \A p \in DOMAIN inbox : k <= e[p] /\ \A q \in DOMAIN inbox : p <= q => e[p] <= e[q]
  /\ Len(ended) = IF inbox = <<>> THEN k ELSE e[Len(inbox)]

Schedule(k, e) == Handled(k) /\ Announced(k, e)

(* The ledger holds t, or start_turn is about to enter it.                 *)
Known(t) ==
  \/ active = t
  \/ /\ pc["main"] = "start_wait"
     /\ rpc["main"].turn = t /\ rpc["main"].status = "inProgress"

(* Every turn that started and was not announced as ended is known.        *)
StartsKnown(e) ==
  \A p \in DOMAIN inbox :
    inbox[p].t = "started" /\ Open(ended, inbox[p].turn, e[p]) => Known(inbox[p].turn)

Delivery ==
  \E k \in 0..Len(ended) : \E e \in [DOMAIN inbox -> 0..Len(ended)] :
    Schedule(k, e) /\ StartsKnown(e)

(* start_turn: until its response is handled, only its own turn can be     *)
(* active, and that turn is the server's latest.                           *)
Latest(t) == t # None /\ (t = srvTurn \/ (ended # <<>> /\ t = ended[Len(ended)]))

Starting ==
  /\ starting <=> pc["main"] = "start_wait"
  /\ pc["main"] = "start_wait" <=> rpc["main"].kind = "start"
  /\ rpc["main"].status \in {"inProgress", "finished"} => rpc["main"].kind = "start"
  /\ rpc["serial"].kind # "start" /\ rpc["serial"].status \notin {"inProgress", "finished"}
  /\ rpc["main"].kind = "start" =>
       LET r == rpc["main"] IN
       /\ r.status \in {"sent", "inProgress", "finished", "error"}
       /\ r.status \in {"sent", "error", "finished"} => active = None
       /\ r.status = "inProgress" => active \in {None, r.turn}
       /\ r.status \in {"inProgress", "finished"} => Latest(r.turn)

(* interrupt_turn holds the lock exactly while its RPC is under way.       *)
Interrupting ==
  \A c \in Callers :
    /\ turnLock = c <=> pc[c] = "interrupt_wait"
    /\ pc[c] = "interrupt_wait" =>
         active = job[c] /\ rpc[c].kind = "interrupt" /\ rpc[c].turn = job[c]
    /\ rpc[c].kind = "interrupt" => pc[c] = "interrupt_wait"

(* The serial thread has claimed the turn it interrupts, and claims are    *)
(* withdrawn only when the interrupt failed.                               *)
Claims ==
  /\ \A i \in DOMAIN forwarded : forwarded[i] \in interrupted
  /\ pc["serial"] \in {"interrupt", "interrupt_wait"} =>
       /\ job["serial"] \in interrupted
       /\ \A i \in DOMAIN forwarded : forwarded[i] # job["serial"]

NoRequestAfterFatal == fatal => \A c \in Callers : rpc[c].status # "sent"

(* What the slot will hold when the pump has handled the inbox.            *)
Pending ==
  CASE pc["pump"] = "slot_started" -> job["pump"]
    [] pc["pump"] = "slot_completed" -> None
    [] OTHER -> slot
Effect(m) == IF m.t = "started" THEN m.turn ELSE None
LastWord == IF inbox = <<>> THEN Pending ELSE Effect(inbox[Len(inbox)])

SlotFollows == ~repeating /\ pc["pump"] # "dead" => LastWord = srvTurn

LedgerOpen ==
  /\ active \notin done
  /\ active # None => active \in used
  /\ srvTurn # None => Known(srvTurn)

TurnsInv ==
  /\ Types /\ ServerLedger /\ Delivery /\ LedgerOpen /\ Starting /\ Interrupting
  /\ Claims /\ ForwardedOnce /\ NoRequestAfterFatal /\ SlotFollows

(* The stages of run_controller and what exists in them.                   *)
Stages ==
  /\ stopPump \in BOOLEAN /\ made \in BOOLEAN
  /\ stage \in {"connect", "hello", "console"} \/ pump # "absent" => made
  /\ stage \in {"close_session", "join_session", "close_client", "reap", "join_pump"} =>
       stopPump = made
  /\ stage \in {"reap", "join_pump"} => fatal

-----------------------------------------------------------------------------
(* Requests that are failed, by ClientFails and by CloseClient.            *)
FailAll ==
  /\ fatal' = TRUE
  /\ rpc' = [c \in Callers |-> FailPending(c)]
  /\ UNCHANGED <<server, inbox, ledger, turnLock, device, pc, job, history>>

TurnsStep == ServerStep \/ MainStep \/ SerialStep \/ PumpStep \/ FailAll

LEMMA GotoType ==
  ASSUME Types, NEW t \in Threads, NEW label \in Labels, NEW turn \in Turn \cup {None},
         Goto(t, label, turn)
  PROVE  /\ pc' \in [Threads -> Labels] /\ job' \in [Threads -> Turn \cup {None}]
         /\ pc'[t] = label /\ job'[t] = turn
         /\ \A u \in Threads \ {t} : pc'[u] = pc[u] /\ job'[u] = job[u]
BY DEF Types, Goto

LEMMA RaiseType ==
  ASSUME Types, NEW t \in Threads, Raise(t)
  PROVE  /\ pc' \in [Threads -> Labels] /\ job' \in [Threads -> Turn \cup {None}]
         /\ pc'[t] = IF t = "serial" THEN "idle" ELSE "dead"
         /\ \A u \in Threads \ {t} : pc'[u] = pc[u] /\ job'[u] = job[u]
BY GotoType DEF Raise, Labels

LEMMA FailType ==
  ASSUME Types, NEW c \in Callers
  PROVE  /\ FailPending(c) \in Rpc
         /\ FailPending(c).kind = rpc[c].kind /\ FailPending(c).turn = rpc[c].turn
         /\ rpc[c].status # "sent" => FailPending(c) = rpc[c]
         /\ rpc[c].status = "sent" => FailPending(c).status = "error"
BY DEF Types, Rpc, FailPending

LEMMA NotifyOne ==
  ASSUME Types, NEW m \in Message, Notify(<<m>>)
  PROVE  /\ inbox' \in Seq(Message) /\ inbox' # <<>>
         /\ Len(inbox') = Len(inbox) + 1
         /\ inbox'[Len(inbox) + 1] = m
         /\ \A p \in DOMAIN inbox : inbox'[p] = inbox[p]
<1>1. inbox' = inbox \o <<m>> /\ inbox \in Seq(Message)
  BY DEF Notify, Types
<1> QED
  BY <1>1

LEMMA RpcTypes ==
  /\ NoRpc \in Rpc
  /\ [NoRpc EXCEPT !.kind = "start", !.status = "sent"] \in Rpc
  /\ \A t \in Turn \cup {None} : [kind |-> "interrupt", turn |-> t, status |-> "sent"] \in Rpc
BY DEF NoRpc, Rpc

LEMMA TypesStep == Types /\ Claims /\ TurnsStep => Types'
<1> SUFFICES ASSUME Types, Claims, TurnsStep PROVE Types'
  OBVIOUS
<1> USE DEF server, ledger, device, history
<1>0. "main" \in Threads /\ "serial" \in Threads /\ "pump" \in Threads
  BY DEF Threads, Callers
<1>1. CASE ServerStep
  <2>1. ASSUME NEW t \in Turn, ServerStarts(t) PROVE Types'
    <3>1. [t |-> "started", turn |-> t] \in Message /\ [t |-> "completed", turn |-> t] \in Message
      BY DEF Message
    <3>2. rpc' \in [Callers -> Rpc]
      BY <2>1 DEF ServerStarts, Types, Rpc, Callers
    <3>3. inbox' \in Seq(Message) /\ ended' \in Seq(Turn)
      <4>1. inbox' \in Seq(Message)
        BY <2>1, <3>1, NotifyOne DEF ServerStarts
      <4>2. ended' = ended \/ ended' = Append(ended, t)
        BY <2>1 DEF ServerStarts
      <4>3. ended \in Seq(Turn)
        BY DEF Types
      <4> QED
        BY <4>1, <4>2, <4>3
    <3>4. srvTurn' \in Turn \cup {None} /\ used' \subseteq Turn
      BY <2>1 DEF ServerStarts, Types
    <3> QED
      BY <2>1, <3>2, <3>3, <3>4 DEF ServerStarts, Types
  <2>2. CASE ServerCompletes
    <3>1. [t |-> "completed", turn |-> srvTurn] \in Message
      BY <2>2 DEF ServerCompletes, Types, Message
    <3> QED
      BY <2>2, <3>1 DEF ServerCompletes, Types, Notify
  <2>3. CASE ServerRefusesStart
    BY <2>3 DEF ServerRefusesStart, Types, Rpc, Callers
  <2>4. ASSUME NEW c \in Callers, ServerAnswersInterrupt(c) PROVE Types'
    BY <2>4 DEF ServerAnswersInterrupt, Types, Rpc
  <2>5. ASSUME NEW t \in Turn, NEW kind \in {"started", "completed"}, ServerRepeats(t, kind)
        PROVE  Types'
    <3>1. [t |-> kind, turn |-> t] \in Message
      BY DEF Message
    <3> QED
      BY <2>5, <3>1 DEF ServerRepeats, Types, Notify
  <2>6. CASE ClientFails
    BY <2>6 DEF ClientFails, Types, Rpc
  <2> QED
    BY <1>1, <2>1, <2>2, <2>3, <2>4, <2>5, <2>6 DEF ServerStep
<1>2. CASE MainStep
  <2>1. CASE RunCommand \/ InterruptCommand \/ WaitCommand \/ WaitReturn \/ Quit
    BY <1>0, <2>1, GotoType DEF RunCommand, InterruptCommand, WaitCommand, WaitReturn, Quit,
       Types, Labels
  <2>2. CASE StartTurnBegin
    <3>1. rpc' \in [Callers -> Rpc]
      BY <2>2, RpcTypes DEF StartTurnBegin, Types
    <3>2. pc' \in [Threads -> Labels] /\ job' \in [Threads -> Turn \cup {None}]
      BY <1>0, <2>2, GotoType, RaiseType DEF StartTurnBegin, Labels
    <3> QED
      BY <2>2, <3>1, <3>2 DEF StartTurnBegin, Types
  <2>3. CASE StartTurnReturn
    <3>1. rpc' \in [Callers -> Rpc]
      BY <2>3, RpcTypes DEF StartTurnReturn, Types
    <3>2. pc' \in [Threads -> Labels] /\ job' \in [Threads -> Turn \cup {None}]
      BY <1>0, <2>3, GotoType, RaiseType DEF StartTurnReturn, Labels
    <3>3. active' \in Turn \cup {None}
      BY <2>3 DEF StartTurnReturn, Types, Rpc, Callers
    <3> QED
      BY <2>3, <3>1, <3>2, <3>3 DEF StartTurnReturn, Types
  <2>4. CASE MainNoticesFailure
    BY <1>0, <2>4, RaiseType DEF MainNoticesFailure, Types
  <2>5. CASE InterruptTurnBegin("main") \/ InterruptTurnReturn("main")
    BY <1>0, <2>5, GotoType, RaiseType DEF InterruptTurnBegin, InterruptTurnReturn, TakeTurnLock,
       Types, Labels, Rpc, NoRpc, Callers
  <2> QED
    BY <1>2, <2>1, <2>2, <2>3, <2>4, <2>5 DEF MainStep
<1>3. CASE SerialStep
  <2>1. ASSUME NEW t \in Turn, InterruptClaimed(t) PROVE Types'
    BY <1>0, <2>1, GotoType DEF InterruptClaimed, Types, Labels
  <2>2. CASE InterruptTurnBegin("serial")
    BY <1>0, <2>2, GotoType, RaiseType DEF InterruptTurnBegin, TakeTurnLock,
       Types, Labels, Rpc, NoRpc, Callers
  <2>3. CASE InterruptTurnReturn("serial")
    <3>1. Append(forwarded, job["serial"]) \in Seq(Turn)
      BY <2>3 DEF InterruptTurnReturn, Types, Claims
    <3>2. rpc' \in [Callers -> Rpc]
      BY <2>3, RpcTypes DEF InterruptTurnReturn, Types
    <3>3. pc' \in [Threads -> Labels] /\ job' \in [Threads -> Turn \cup {None}]
      BY <1>0, <2>3, GotoType, RaiseType DEF InterruptTurnReturn, Labels
    <3> QED
      BY <2>3, <3>1, <3>2, <3>3 DEF InterruptTurnReturn, Types
  <2> QED
    BY <1>3, <2>1, <2>2, <2>3 DEF SerialStep
<1>4. CASE PumpStep
  <2>1. inbox # <<>> => Head(inbox) \in Message /\ Tail(inbox) \in Seq(Message)
    BY DEF Types
  <2>2. CASE PumpStarted
    BY <1>0, <2>1, <2>2, GotoType DEF PumpStarted, Types, Labels, Message
  <2>3. CASE PumpCompleted
    <3>1. RememberCompleted(Head(inbox).turn) \in Seq(Turn)
      BY <2>1, <2>3, TurnsAssumption DEF PumpCompleted, RememberCompleted, Types, Message
    <3> QED
      BY <1>0, <2>1, <2>3, <3>1, GotoType DEF PumpCompleted, Types, Labels, Message
  <2>4. CASE TurnStartedInSlot \/ TurnCompletedInSlot \/ PumpFails
    BY <1>0, <2>4, GotoType, RaiseType DEF TurnStartedInSlot, TurnCompletedInSlot, PumpFails,
       Types, Labels
  <2> QED
    BY <1>4, <2>2, <2>3, <2>4 DEF PumpStep
<1>5. CASE FailAll
  BY <1>5, FailType DEF FailAll, Types
<1> QED
  BY <1>1, <1>2, <1>3, <1>4, <1>5 DEF TurnsStep

-----------------------------------------------------------------------------
(* Delivery: nothing is posted and nothing taken.                          *)
LEMMA InboxTypes ==
  ASSUME Types, NEW p \in DOMAIN inbox
  PROVE  inbox[p].turn \in Turn /\ inbox[p].t \in {"started", "completed"}
<1>1. inbox[p] \in Message
  BY DEF Types
<1> QED
  BY <1>1 DEF Message

LEMMA DeliveryKept ==
  ASSUME Types, Delivery, UNCHANGED <<ended, repeating, inbox, completed, done>>,
         \A t \in Turn : t \notin done /\ Known(t) => Known(t)'
  PROVE  Delivery'
<1>1. PICK k \in 0..Len(ended), e \in [DOMAIN inbox -> 0..Len(ended)] :
        Schedule(k, e) /\ StartsKnown(e)
  BY DEF Delivery
<1>2. Schedule(k, e)'
  BY <1>1 DEF Schedule, Handled, Announced
<1>3. StartsKnown(e)'
  <2>1. ASSUME NEW p \in DOMAIN inbox, Open(ended, inbox[p].turn, e[p]) PROVE inbox[p].turn \notin done
    <3>1. k <= e[p] /\ k \in Nat /\ e[p] \in Nat /\ done = {ended[i] : i \in 1..k}
      BY <1>1 DEF Schedule, Announced, Handled, Types
    <3> QED
      BY <2>1, <3>1 DEF Open
  <2> QED
    BY <1>1, <2>1, InboxTypes DEF StartsKnown
<1> QED
  BY <1>1, <1>2, <1>3 DEF Delivery

(* The ends already announced do not change when another is added.         *)
LEMMA FitsLater ==
  ASSUME NEW ends, NEW more, Len(ends) \in Nat, Len(more) \in Nat, Len(ends) <= Len(more),
         \A i \in 1..Len(ends) : more[i] = ends[i],
         NEW b \in 0..Len(ends), NEW t
  PROVE  /\ Recent(ends, t, b) <=> Recent(more, t, b)
         /\ Open(ends, t, b) <=> Open(more, t, b)
         /\ \A repeats, m, n : Fits(ends, repeats, m, b, n) => Fits(more, repeats, m, b, n)
<1>1. \A i \in 1..b : more[i] = ends[i]
  OBVIOUS
<1>2. b < Len(ends) => b < Len(more) /\ more[b + 1] = ends[b + 1]
  OBVIOUS
<1>3. \A u : (Recent(ends, u, b) <=> Recent(more, u, b)) /\ (Open(ends, u, b) <=> Open(more, u, b))
  BY <1>1 DEF Recent, Open
<1> QED
  BY <1>2, <1>3 DEF Fits

(* The server posts a message: an end, a repetition or a start.            *)
LEMMA DeliveryPosted ==
  ASSUME Types, Delivery, NEW m \in Message, Notify(<<m>>),
         UNCHANGED <<repeating, completed, done>>,
         \A t \in Turn : Known(t) => Known(t)',
         \/ ended' = Append(ended, m.turn) /\ m.t = "completed"
         \/ ended' = ended /\ repeating /\ Recent(ended, m.turn, Len(ended))
         \/ ended' = ended /\ m.t = "started" /\ Open(ended, m.turn, Len(ended)) /\ Known(m.turn)'
  PROVE  Delivery'
<1>1. PICK k \in 0..Len(ended), e \in [DOMAIN inbox -> 0..Len(ended)] :
        Schedule(k, e) /\ StartsKnown(e)
  BY DEF Delivery
<1> DEFINE n == Len(inbox) + 1
<1>2. /\ inbox \in Seq(Message) /\ inbox' \in Seq(Message)
      /\ DOMAIN inbox' = 1..n /\ DOMAIN inbox = 1..(n - 1) /\ n \in Nat /\ n > 0 /\ Len(inbox') = n
      /\ inbox'[n] = m /\ inbox' # <<>>
      /\ \A p \in 1..(n - 1) : inbox'[p] = inbox[p]
  BY NotifyOne DEF Types
<1>3. /\ Len(ended) \in Nat /\ Len(ended') \in Nat /\ Len(ended) <= Len(ended')
      /\ \A i \in 1..Len(ended) : ended'[i] = ended[i]
  <2>1. ended \in Seq(Turn) /\ m.turn \in Turn
    BY DEF Types, Message
  <2> QED
    BY <2>1
<1>4. PICK f \in [1..n -> 0..Len(ended')] :
        f[n] = Len(ended') /\ \A p \in 1..(n - 1) : f[p] = e[p]
  <2> DEFINE g == [p \in 1..n |-> IF p = n THEN Len(ended') ELSE e[p]]
  <2>1. g \in [1..n -> 0..Len(ended')]
    BY <1>2, <1>3
  <2>2. g[n] = Len(ended') /\ \A p \in 1..(n - 1) : g[p] = e[p]
    BY <1>2
  <2> HIDE DEF g
  <2> QED
    BY <2>1, <2>2
<1>5. /\ \A p \in 1..(n - 1) : Before(k, f, p) = Before(k, e, p)
      /\ \A p \in 1..(n - 1) : Before(k, e, p) \in 0..Len(ended)
      /\ Before(k, f, n) = Len(ended)
  <2>1. Len(ended) = IF inbox = <<>> THEN k ELSE e[n - 1]
    BY <1>1 DEF Schedule, Announced
  <2>2. inbox = <<>> <=> n = 1
    BY <1>2
  <2>3. \A p \in 1..n : p # 1 => p - 1 \in 1..(n - 1)
    BY <1>2
  <2> HIDE DEF n
  <2>4. \A p \in 1..(n - 1) : p \in 1..n /\ (p # 1 => e[p - 1] \in 0..Len(ended))
    BY <1>2, <2>3
  <2> QED
    BY <1>2, <1>4, <2>1, <2>2, <2>3, <2>4 DEF Before
<1>6. Handled(k)'
  <2>1. Handled(k) /\ Len(completed) \in Nat
    BY <1>1 DEF Schedule, Types
  <2>2. Len(completed) <= k
    BY <2>1, TurnsAssumption DEF Handled
  <2>3. \A j \in 1..Len(completed) : k - Len(completed) + j \in 1..Len(ended)
    BY <1>3, <2>1, <2>2
  <2>4. \A i \in 1..k : ended'[i] = ended[i]
    BY <1>3
  <2>5. {ended'[i] : i \in 1..k} = {ended[i] : i \in 1..k}
    BY <2>4
  <2> QED
    <3>0. done' = {ended'[i] : i \in 1..k}
      <4>1. done = {ended[i] : i \in 1..k} /\ done' = done
        BY <2>1 DEF Handled
      <4> QED
        BY <2>5, <4>1
    <3>1. k <= Len(ended')
      BY <1>3
    <3>2. \A j \in 1..Len(completed) : completed[j] = ended'[k - Len(completed) + j]
      BY <1>3, <2>1, <2>3 DEF Handled
    <3> QED
      BY <2>1, <3>0, <3>1, <3>2 DEF Handled
<1>7. \A p \in 1..n : p = n \/ p \in 1..(n - 1)
  BY <1>2
<1>8. Announced(k, f)'
  <2>1. ASSUME NEW p \in 1..(n - 1)
        PROVE  Fits(ended', repeating', inbox'[p], Before(k, f, p), f[p])
    <3>1. Fits(ended, repeating, inbox[p], Before(k, e, p), e[p])
      BY <1>1, <1>2 DEF Schedule, Announced
    <3>2. Fits(ended', repeating, inbox[p], Before(k, e, p), e[p])
      BY <1>3, <1>5, <3>1, FitsLater
    <3> QED
      BY <1>2, <1>4, <1>5, <3>2
  <2>2. Fits(ended', repeating', m, Len(ended), Len(ended'))
    <3>1. CASE ended' = Append(ended, m.turn) /\ m.t = "completed"
      BY <3>1 DEF Fits, Types
    <3>2. CASE ended' = ended
      BY <3>2 DEF Fits
    <3> QED
      BY <3>1, <3>2
  <2> HIDE DEF n
  <2>3. \A p, q \in 1..(n - 1) : k <= e[p] /\ (p <= q => e[p] <= e[q]) /\ e[p] <= Len(ended)
    <3>1. \A p \in 1..(n - 1) : e[p] <= Len(ended)
      BY <1>2, <1>3
    <3>2. \A p, q \in 1..(n - 1) : k <= e[p] /\ (p <= q => e[p] <= e[q])
      BY <1>1, <1>2 DEF Schedule, Announced
    <3> QED
      BY <3>1, <3>2
  <2>4. \A p, q \in 1..n : k <= f[p] /\ (p <= q => f[p] <= f[q])
    <3>1. k \in Nat /\ k <= Len(ended)
      BY <1>3
    <3>2. \A p \in 1..n : f[p] \in Nat
      BY <1>4
    <3>3. \A p \in 1..n : p = n => \A q \in 1..n : p <= q => q = n
      BY <1>2
    <3>4. \A p \in 1..(n - 1) : e[p] \in Nat
      BY <1>2
    <3> QED
      BY <1>3, <1>4, <1>7, <2>3, <3>1, <3>2, <3>3, <3>4
  <2> QED
    BY <1>2, <1>4, <1>5, <1>7, <2>1, <2>2, <2>4 DEF Announced
<1>9. StartsKnown(f)'
  <2>1. ASSUME NEW p \in 1..(n - 1), inbox'[p].t = "started", Open(ended', inbox'[p].turn, f[p])
        PROVE  \A t \in Turn : t = inbox'[p].turn => Known(t)'
    <3>1. e[p] \in 0..Len(ended) /\ f[p] = e[p] /\ inbox'[p] = inbox[p]
      BY <1>2, <1>4
    <3>2. Open(ended, inbox[p].turn, e[p])
      BY <1>3, <2>1, <3>1, FitsLater
    <3> QED
      BY <1>1, <1>2, <2>1, <3>1, <3>2 DEF StartsKnown
  <2>2. ASSUME m.t = "started", Open(ended', m.turn, f[n]) PROVE Known(m.turn)'
    <3>1. CASE ended' = ended /\ repeating /\ Recent(ended, m.turn, Len(ended))
      BY <1>4, <2>2, <3>1 DEF Recent, Open
    <3> QED
      BY <2>2, <3>1
  <2>3. \A p \in DOMAIN inbox' : inbox'[p].turn \in Turn
    <3>1. \A p \in DOMAIN inbox' : inbox'[p] \in Message
      BY <1>2
    <3> QED
      BY <3>1 DEF Message
  <2> HIDE DEF n
  <2> QED
    BY <1>2, <1>7, <2>1, <2>2, <2>3 DEF StartsKnown
<1>10. k \in 0..Len(ended')
  BY <1>3
<1> HIDE DEF n
<1> QED
  BY <1>2, <1>4, <1>6, <1>8, <1>9, <1>10 DEF Delivery, Schedule

(* What the tombstones remember.                                           *)
LEMMA TombstonedRecent ==
  ASSUME Types, NEW k \in 0..Len(ended), Handled(k), NEW t
  PROVE  /\ Tombstoned(t) <=> Recent(ended, t, k)
         /\ Recent(ended, t, k) => t \in done
<1> DEFINE c == Len(completed)
<1>1. /\ c \in Nat /\ DOMAIN completed = 1..c /\ TombstoneLimit \in Nat \ {0} /\ k \in Nat
      /\ c = IF k < TombstoneLimit THEN k ELSE TombstoneLimit
      /\ \A j \in 1..c : completed[j] = ended[k - c + j]
  <2>1. completed \in Seq(Turn) /\ ended \in Seq(Turn) /\ TombstoneLimit \in Nat \ {0}
    BY TurnsAssumption DEF Types
  <2>2. c \in Nat /\ DOMAIN completed = 1..c /\ k \in Nat
    BY <2>1
  <2>3. /\ c = IF k < TombstoneLimit THEN k ELSE TombstoneLimit
        /\ \A j \in 1..c : completed[j] = ended[k - c + j]
    BY DEF Handled
  <2> QED
    BY <2>1, <2>2, <2>3
<1>2. ASSUME NEW j \in 1..c, completed[j] = t PROVE Recent(ended, t, k)
  <2>1. k - c + j \in 1..k /\ k - (k - c + j) < TombstoneLimit /\ ended[k - c + j] = t
    BY <1>1, <1>2
  <2> QED
    BY <2>1 DEF Recent
<1>3. ASSUME NEW i \in 1..k, ended[i] = t, k - i < TombstoneLimit PROVE Tombstoned(t)
  <2>1. i - k + c \in 1..c /\ k - c + (i - k + c) = i
    BY <1>1, <1>3
  <2>2. completed[i - k + c] = t
    BY <1>1, <1>3, <2>1
  <2> QED
    BY <1>1, <2>1, <2>2 DEF Tombstoned
<1> QED
  BY <1>1, <1>2, <1>3 DEF Tombstoned, Recent, Handled

(* The pump takes a message.                                               *)
LEMMA Taken ==
  ASSUME Types, NEW k \in 0..Len(ended), NEW e \in [DOMAIN inbox -> 0..Len(ended)],
         Announced(k, e), inbox # <<>>, inbox' = Tail(inbox), UNCHANGED <<ended, repeating>>
  PROVE  /\ Fits(ended, repeating, Head(inbox), k, e[1]) /\ e[1] \in 0..Len(ended)
         /\ \E f \in [DOMAIN inbox' -> 0..Len(ended)] :
              /\ Announced(e[1], f)'
              /\ \A p \in DOMAIN inbox' :
                   /\ p + 1 \in DOMAIN inbox /\ f[p] = e[p + 1] /\ e[1] <= f[p]
                   /\ inbox'[p] = inbox[p + 1]
<1> DEFINE n == Len(inbox)
<1>1. /\ n \in Nat /\ n > 0 /\ DOMAIN inbox = 1..n /\ 1 \in 1..n /\ Head(inbox) = inbox[1]
      /\ Len(inbox') = n - 1 /\ DOMAIN inbox' = 1..(n - 1)
      /\ \A p \in 1..(n - 1) : inbox'[p] = inbox[p + 1] /\ p + 1 \in 1..n
      /\ inbox' = <<>> <=> n = 1
  <2>1. inbox \in Seq(Message) /\ inbox # <<>> /\ inbox' = Tail(inbox)
    BY DEF Types
  <2>2. n \in Nat /\ n > 0 /\ DOMAIN inbox = 1..n /\ 1 \in 1..n /\ Head(inbox) = inbox[1]
    BY <2>1
  <2>3. inbox' \in Seq(Message) /\ Len(inbox') = n - 1 /\ DOMAIN inbox' = 1..(n - 1)
    BY <2>1
  <2>4. \A p \in 1..(n - 1) : inbox'[p] = inbox[p + 1] /\ p + 1 \in 1..n
    BY <2>1
  <2>5. inbox' = <<>> <=> n = 1
    BY <2>2, <2>3
  <2> QED
    BY <2>2, <2>3, <2>4, <2>5
<1>2. PICK f \in [1..(n - 1) -> 0..Len(ended)] : \A p \in 1..(n - 1) : f[p] = e[p + 1]
  <2> DEFINE g == [p \in 1..(n - 1) |-> e[p + 1]]
  <2>1. g \in [1..(n - 1) -> 0..Len(ended)] /\ \A p \in 1..(n - 1) : g[p] = e[p + 1]
    BY <1>1
  <2> HIDE DEF g
  <2> QED
    BY <2>1
<1>3. /\ \A p \in 1..n : Fits(ended, repeating, inbox[p], Before(k, e, p), e[p])
      /\ \A p, q \in 1..n : p <= q => e[p] <= e[q]
      /\ Len(ended) = e[n]
  BY <1>1 DEF Announced
<1>4. ASSUME NEW p \in 1..(n - 1)
      PROVE  Fits(ended, repeating, inbox[p + 1], Before(e[1], f, p), f[p])
  <2>1. p + 1 \in 1..n /\ p + 1 # 1 /\ (p + 1) - 1 = p /\ (p # 1 => p - 1 \in 1..(n - 1) /\ (p - 1) + 1 = p)
    BY <1>1
  <2>2. Before(e[1], f, p) = e[p]
    BY <1>2, <2>1 DEF Before
  <2>3. Before(k, e, p + 1) = e[p]
    BY <2>1 DEF Before
  <2> QED
    BY <1>2, <1>3, <2>1, <2>2, <2>3
<1>5. \A p, q \in 1..(n - 1) : e[1] <= f[p] /\ (p <= q => f[p] <= f[q])
  <2>1. \A p, q \in 1..(n - 1) : 1 <= p + 1 /\ (p <= q => p + 1 <= q + 1)
    BY <1>1
  <2> HIDE DEF n
  <2> QED
    BY <1>1, <1>2, <1>3, <2>1
<1>6. Len(ended) = IF n = 1 THEN e[1] ELSE f[n - 1]
  <2>1. n # 1 => n - 1 \in 1..(n - 1) /\ (n - 1) + 1 = n
    BY <1>1
  <2> HIDE DEF n
  <2> QED
    BY <1>2, <1>3, <2>1
<1>7. Announced(e[1], f)'
  <2> HIDE DEF n
  <2>1. PICK b : b = e[1]
    OBVIOUS
  <2>2. Announced(b, f)'
    BY <1>1, <1>4, <1>5, <1>6, <2>1 DEF Announced
  <2> QED
    BY <2>1, <2>2
<1>8. Fits(ended, repeating, Head(inbox), k, e[1]) /\ e[1] \in 0..Len(ended)
  BY <1>1, <1>3 DEF Before
<1> HIDE DEF n
<1> QED
  BY <1>1, <1>2, <1>5, <1>7, <1>8

-----------------------------------------------------------------------------
(* The pump applies the message it has taken.                              *)

(* A turn that the pump activates is new to the ledger or start_turn's own.*)
LEMMA Activated ==
  ASSUME TurnsInv, PumpStarted
  PROVE  LET t == Head(inbox).turn IN
         \A k \in 0..Len(ended) : \A e \in [DOMAIN inbox -> 0..Len(ended)] :
           Schedule(k, e) /\ StartsKnown(e) =>
             /\ e[1] = k
             /\ CanActivate(t) => Open(ended, t, k) /\ t \notin done /\ Known(t) /\ active \in {None, t}
             /\ ~repeating => CanActivate(t)
<1> DEFINE t == Head(inbox).turn
<1> SUFFICES ASSUME NEW k \in 0..Len(ended), NEW e \in [DOMAIN inbox -> 0..Len(ended)],
                    Schedule(k, e), StartsKnown(e)
             PROVE  /\ e[1] = k
                    /\ CanActivate(t) => Open(ended, t, k) /\ t \notin done /\ Known(t) /\ active \in {None, t}
                    /\ ~repeating => CanActivate(t)
  OBVIOUS
<1>1. inbox # <<>> /\ Head(inbox).t = "started" /\ inbox' = Tail(inbox) /\ UNCHANGED <<ended, repeating>>
  BY DEF PumpStarted, server
<1>2. Types /\ Handled(k) /\ Announced(k, e)
  BY DEF TurnsInv, Schedule
<1>3. Fits(ended, repeating, Head(inbox), k, e[1])
  BY <1>1, <1>2, Taken
<1>4. e[1] = k /\ ((repeating /\ Recent(ended, t, k)) \/ Open(ended, t, k))
  BY <1>1, <1>3 DEF Fits
<1>5. Tombstoned(t) <=> Recent(ended, t, k)
  BY <1>2, TombstonedRecent
<1>6. ASSUME Open(ended, t, k)
      PROVE  t \notin done /\ Known(t) /\ active \in {None, t} /\ (starting \/ active = t) /\ ~Recent(ended, t, k)
  <2>1. 1 \in DOMAIN inbox /\ inbox[1] = Head(inbox)
    BY <1>1, <1>2 DEF Types
  <2>2. Known(t)
    BY <1>1, <1>4, <1>6, <2>1 DEF StartsKnown
  <2>3. t \notin done /\ ~Recent(ended, t, k)
    BY <1>2, <1>6 DEF Handled, Open, Recent
  <2>4. active \in {None, t} /\ (starting \/ active = t)
    BY <2>2 DEF Known, TurnsInv, Starting
  <2> QED
    BY <2>2, <2>3, <2>4
<1> QED
  BY <1>4, <1>5, <1>6 DEF CanActivate

LEMMA PumpStartedDelivery ==
  ASSUME TurnsInv, PumpStarted
  PROVE  Delivery' /\ LedgerOpen'
<1>1. PICK k \in 0..Len(ended), e \in [DOMAIN inbox -> 0..Len(ended)] :
        Schedule(k, e) /\ StartsKnown(e)
  BY DEF TurnsInv, Delivery
<1> DEFINE t == Head(inbox).turn
<1>2. /\ inbox # <<>> /\ inbox' = Tail(inbox)
      /\ UNCHANGED <<ended, repeating, completed, done, srvTurn, used, rpc>>
  BY DEF PumpStarted, server, history
<1>3. Types /\ Announced(k, e) /\ Handled(k)
  BY <1>1 DEF TurnsInv, Schedule
<1>4. PICK f \in [DOMAIN inbox' -> 0..Len(ended)] :
        /\ Announced(e[1], f)'
        /\ \A p \in DOMAIN inbox' :
             p + 1 \in DOMAIN inbox /\ f[p] = e[p + 1] /\ inbox'[p] = inbox[p + 1]
  BY <1>2, <1>3, Taken
<1>5. /\ e[1] = k
      /\ CanActivate(t) => Open(ended, t, k) /\ t \notin done /\ Known(t) /\ active \in {None, t}
  BY <1>1, Activated
<1>6. t \in Turn
  <2>1. 1 \in DOMAIN inbox /\ inbox[1] = Head(inbox)
    BY <1>2, <1>3 DEF Types
  <2> QED
    BY <1>3, <2>1, InboxTypes
<1>7. pc'["main"] = pc["main"]
  <2>1. pc' = pc \/ Goto("pump", "slot_started", t)
    BY DEF PumpStarted
  <2> QED
    BY <1>3, <2>1, GotoType DEF Types, Goto, Threads, Callers
<1>8. (active' = active) \/ (CanActivate(t) /\ active' = t)
  BY DEF PumpStarted
<1>9. \A u \in Turn : Known(u) => Known(u)'
  BY <1>2, <1>5, <1>7, <1>8, TurnsAssumption DEF Known
<1>10. Handled(k)'
  BY <1>2, <1>3 DEF Handled
<1>11. StartsKnown(f)'
  <2>1. ASSUME NEW p \in DOMAIN inbox', inbox'[p].t = "started", Open(ended, inbox'[p].turn, f[p])
        PROVE  \A u \in Turn : u = inbox'[p].turn => Known(u)'
    BY <1>1, <1>4, <1>9, <2>1 DEF StartsKnown
  <2>2. \A p \in DOMAIN inbox' : inbox'[p].turn \in Turn
    BY <1>3, <1>4, InboxTypes
  <2> QED
    BY <1>2, <2>1, <2>2 DEF StartsKnown
<1>12. Delivery'
  <2>1. Announced(k, f)'
    BY <1>4, <1>5
  <2>2. Len(ended') = Len(ended)
    BY <1>2
  <2> QED
    BY <1>4, <1>10, <1>11, <2>1, <2>2 DEF Delivery, Schedule
<1>13. LedgerOpen'
  <2>1. LedgerOpen /\ srvTurn \in Turn \cup {None}
    BY <1>3 DEF TurnsInv, Types
  <2>2. CanActivate(t) => t \in used
    <3>1. Known(t) => t \in used
      BY <1>6, TurnsAssumption DEF Known, LedgerOpen, TurnsInv, Starting, Latest, ServerLedger, Types
    <3> QED
      BY <1>5, <3>1
  <2> QED
    BY <1>2, <1>5, <1>8, <1>9, <2>1, <2>2 DEF LedgerOpen
<1> QED
  BY <1>12, <1>13

(* The next end: one more tombstone, and perhaps one less.                 *)
LEMMA HandledNext ==
  ASSUME Types, ServerLedger, NEW k \in 0..Len(ended), Handled(k), k < Len(ended),
         NEW t, t = ended[k + 1], completed' = RememberCompleted(t), done' = done \cup {t},
         ended' = ended
  PROVE  Handled(k + 1)'
<1>1. ended \in Seq(Turn) /\ completed \in Seq(Turn) /\ TombstoneLimit \in Nat \ {0} /\ k \in Nat
  BY TurnsAssumption DEF Types
<1>2. t \in Turn
  BY <1>1
<1>3. ~Tombstoned(t)
  <2>1. ~Recent(ended, t, k)
    BY <1>1 DEF Recent, ServerLedger
  <2> QED
    BY <2>1, TombstonedRecent
<1>4. completed' = Append(IF Len(completed) >= TombstoneLimit THEN Tail(completed) ELSE completed, t)
  BY <1>3 DEF RememberCompleted
<1>5. done' = {ended'[i] : i \in 1..(k + 1)}
  <2>1. 1..(k + 1) = (1..k) \cup {k + 1}
    BY <1>1
  <2>2. done = {ended[i] : i \in 1..k}
    BY DEF Handled
  <2> QED
    BY <2>1, <2>2
<1>6. /\ Len(completed) = IF k < TombstoneLimit THEN k ELSE TombstoneLimit
      /\ \A j \in 1..Len(completed) : completed[j] = ended[k - Len(completed) + j]
  BY DEF Handled
<1>7. CASE k < TombstoneLimit
  <2>1. completed' = Append(completed, t) /\ Len(completed) = k
    BY <1>1, <1>4, <1>6, <1>7
  <2>2. Len(completed') = k + 1 /\ \A j \in 1..k : completed'[j] = completed[j]
    BY <1>1, <1>2, <2>1
  <2>3. completed'[k + 1] = t
    BY <1>1, <1>2, <2>1
  <2>4. ASSUME NEW j \in 1..(k + 1) PROVE completed'[j] = ended[(k + 1) - (k + 1) + j]
    <3>1. (k + 1) - (k + 1) + j = j /\ (j = k + 1 \/ (j \in 1..k /\ k - k + j = j))
      BY <1>1
    <3> QED
      BY <1>6, <2>1, <2>2, <2>3, <3>1
  <2>5. Len(completed') = IF k + 1 < TombstoneLimit THEN k + 1 ELSE TombstoneLimit
    BY <1>1, <1>7, <2>2
  <2>6. k + 1 <= Len(ended')
    BY <1>1
  <2> QED
    BY <1>5, <2>2, <2>4, <2>5, <2>6 DEF Handled
<1>8. CASE ~(k < TombstoneLimit)
  <2> DEFINE l == TombstoneLimit
  <2>1. completed' = Append(Tail(completed), t) /\ Len(completed) = l /\ completed # <<>>
    BY <1>1, <1>4, <1>6, <1>8
  <2>2. /\ Tail(completed) \in Seq(Turn) /\ Len(Tail(completed)) = l - 1
        /\ \A j \in 1..(l - 1) : Tail(completed)[j] = completed[j + 1]
    BY <1>1, <2>1
  <2>3. /\ Len(completed') = l /\ completed'[l] = t
        /\ \A j \in 1..(l - 1) : completed'[j] = Tail(completed)[j]
    BY <1>1, <1>2, <2>1, <2>2
  <2>4. ASSUME NEW j \in 1..l PROVE completed'[j] = ended[(k + 1) - l + j]
    <3>1. j = l \/ (j \in 1..(l - 1) /\ j + 1 \in 1..l /\ k - l + (j + 1) = (k + 1) - l + j)
      BY <1>1
    <3>2. j = l => (k + 1) - l + j = k + 1
      BY <1>1
    <3> QED
      BY <1>6, <2>1, <2>2, <2>3, <3>1, <3>2
  <2>5. Len(completed') = IF k + 1 < l THEN k + 1 ELSE l
    BY <1>1, <1>8, <2>3
  <2>6. k + 1 <= Len(ended')
    BY <1>1
  <2> QED
    BY <1>5, <2>3, <2>4, <2>5, <2>6 DEF Handled
<1> QED
  BY <1>7, <1>8

LEMMA PumpCompletedDelivery ==
  ASSUME TurnsInv, PumpCompleted
  PROVE  Delivery' /\ LedgerOpen'
<1>1. PICK k \in 0..Len(ended), e \in [DOMAIN inbox -> 0..Len(ended)] :
        Schedule(k, e) /\ StartsKnown(e)
  BY DEF TurnsInv, Delivery
<1> DEFINE t == Head(inbox).turn
<1>2. /\ inbox # <<>> /\ inbox' = Tail(inbox) /\ Head(inbox).t = "completed"
      /\ UNCHANGED <<ended, repeating, srvTurn, used, rpc>>
      /\ completed' = RememberCompleted(t) /\ done' = done \cup {t}
      /\ active' = IF active = t THEN None ELSE active
  BY DEF PumpCompleted, MatchesActive, server
<1>3. Types /\ Announced(k, e) /\ Handled(k) /\ ServerLedger /\ LedgerOpen
  BY <1>1 DEF TurnsInv, Schedule
<1>4. PICK f \in [DOMAIN inbox' -> 0..Len(ended)] :
        /\ Announced(e[1], f)'
        /\ \A p \in DOMAIN inbox' :
             /\ p + 1 \in DOMAIN inbox /\ f[p] = e[p + 1] /\ e[1] <= f[p]
             /\ inbox'[p] = inbox[p + 1]
  BY <1>2, <1>3, Taken
<1>5. Fits(ended, repeating, Head(inbox), k, e[1]) /\ e[1] \in 0..Len(ended)
  BY <1>2, <1>3, Taken
<1>6. \/ k < Len(ended) /\ t = ended[k + 1] /\ e[1] = k + 1
      \/ e[1] = k /\ Recent(ended, t, k)
  BY <1>2, <1>5 DEF Fits
<1>7. pc'["main"] = pc["main"]
  <2>1. Goto("pump", "slot_completed", t)
    BY DEF PumpCompleted
  <2> QED
    BY <1>3, <2>1 DEF Types, Goto, Threads, Callers
<1>8. \A u \in Turn : u # t /\ Known(u) => Known(u)'
  BY <1>2, <1>7 DEF Known
<1>9. PICK b : b = e[1]
  OBVIOUS
<1>10. Handled(b)'
  <2>1. CASE k < Len(ended) /\ t = ended[k + 1] /\ e[1] = k + 1
    BY <1>2, <1>3, <1>9, <2>1, HandledNext
  <2>2. CASE e[1] = k /\ Recent(ended, t, k)
    <3>1. Tombstoned(t) /\ t \in done
      BY <1>3, <2>2, TombstonedRecent
    <3>2. completed' = completed /\ done' = done
      BY <1>2, <3>1 DEF RememberCompleted
    <3> QED
      BY <1>2, <1>3, <1>9, <2>2, <3>2 DEF Handled
  <2> QED
    BY <1>6, <2>1, <2>2
<1>11. t \in done /\ Recent(ended, t, k) => active' = active
  BY <1>2, <1>3 DEF LedgerOpen
<1>12. StartsKnown(f)'
  <2>1. ASSUME NEW p \in DOMAIN inbox', inbox'[p].t = "started", Open(ended, inbox'[p].turn, f[p])
        PROVE  \A u \in Turn : u = inbox'[p].turn => Known(u)'
    <3>1. Known(inbox'[p].turn)
      BY <1>1, <1>4, <2>1 DEF StartsKnown
    <3>2. CASE k < Len(ended) /\ t = ended[k + 1] /\ e[1] = k + 1
      <4>1. k + 1 \in 1..f[p]
        <5>1. k \in Nat /\ f[p] \in Nat /\ k + 1 <= f[p]
          BY <1>3, <1>4, <3>2 DEF Types
        <5> QED
          BY <5>1
      <4>2. inbox'[p].turn # t
        BY <2>1, <3>2, <4>1 DEF Open
      <4> QED
        BY <1>8, <3>1, <4>2
    <3>3. CASE e[1] = k /\ Recent(ended, t, k)
      <4>1. active' = active
        BY <1>3, <1>11, <3>3, TombstonedRecent
      <4> QED
        BY <1>2, <1>7, <3>1, <4>1 DEF Known
    <3> QED
      BY <1>6, <3>2, <3>3
  <2>2. \A p \in DOMAIN inbox' : inbox'[p].turn \in Turn
    BY <1>3, <1>4, InboxTypes
  <2> QED
    BY <1>2, <2>1, <2>2 DEF StartsKnown
<1>13. Delivery'
  <2>1. Announced(b, f)'
    BY <1>4, <1>9
  <2>2. Len(ended') = Len(ended)
    BY <1>2
  <2> QED
    BY <1>4, <1>5, <1>9, <1>10, <1>12, <2>1, <2>2 DEF Delivery, Schedule
<1>14. LedgerOpen'
  <2>1. srvTurn # None => srvTurn # t
    <3>1. \E i \in DOMAIN ended : ended[i] = t
      BY <1>3, <1>6 DEF Recent, Types
    <3> QED
      BY <1>3, <3>1 DEF ServerLedger
  <2>2. None \notin done /\ t # None
    <3>1. 1 \in DOMAIN inbox /\ inbox[1] = Head(inbox)
      BY <1>2, <1>3 DEF Types
    <3> QED
      BY <1>3, <3>1, InboxTypes, TurnsAssumption DEF Types
  <2>3. srvTurn' # None => Known(srvTurn)'
    <3>1. srvTurn \in Turn \cup {None} /\ (srvTurn # None => Known(srvTurn))
      BY <1>3 DEF Types, LedgerOpen
    <3>2. \A u \in Turn : u = srvTurn => Known(u)'
      BY <1>8, <2>1, <3>1, TurnsAssumption
    <3> QED
      BY <1>2, <3>1, <3>2 DEF Known
  <2> QED
    BY <1>2, <1>3, <2>2, <2>3 DEF LedgerOpen
<1> QED
  BY <1>13, <1>14

-----------------------------------------------------------------------------
(* The other steps leave the inbox and what has ended alone; what the      *)
(* ledger knows they keep, unless it is done.                              *)
Undelivered == <<srvTurn, used, ended, repeating, inbox, completed, done>>

LEMMA KeptLedger ==
  ASSUME TurnsInv, UNCHANGED Undelivered,
         \A t \in Turn : t \notin done /\ Known(t) => Known(t)',
         active' \notin done, active' # None => active' \in used
  PROVE  Delivery' /\ LedgerOpen'
<1>1. Types /\ Delivery /\ LedgerOpen /\ ServerLedger
  BY DEF TurnsInv
<1>2. Delivery'
  BY <1>1, DeliveryKept DEF Undelivered
<1>3. srvTurn # None => srvTurn \in Turn /\ srvTurn \notin done
  <2>1. PICK k \in 0..Len(ended) : Handled(k)
    BY <1>1 DEF Delivery, Schedule
  <2>2. done \subseteq {ended[i] : i \in DOMAIN ended}
    BY <1>1, <2>1 DEF Handled, Types
  <2> QED
    BY <1>1, <2>2 DEF ServerLedger, Types
<1>4. srvTurn # None => \A t \in Turn : t = srvTurn => Known(t)'
  BY <1>1, <1>3 DEF LedgerOpen
<1> QED
  BY <1>1, <1>2, <1>3, <1>4 DEF LedgerOpen, Undelivered, Known

(* A turn in start_turn's response that has no tombstone is not done.      *)
LEMMA LatestUndone ==
  ASSUME TurnsInv, NEW t \in Turn, Latest(t)
  PROVE  (t \in done => Tombstoned(t)) /\ t \in used /\ (Tombstoned(t) => t \in done)
<1>1. Types /\ ServerLedger /\ Delivery
  BY DEF TurnsInv
<1>2. PICK k \in 0..Len(ended) : Handled(k)
  BY <1>1 DEF Delivery, Schedule
<1>3. Tombstoned(t) <=> Recent(ended, t, k)
  BY <1>1, <1>2, TombstonedRecent
<1>4. Recent(ended, t, k) => t \in done
  BY <1>1, <1>2, TombstonedRecent
<1>5. ended \in Seq(Turn) /\ Len(ended) \in Nat /\ DOMAIN ended = 1..Len(ended)
  BY <1>1 DEF Types
<1>6. t \in used
  BY <1>1, <1>5 DEF Latest, ServerLedger
<1>7. ASSUME t \in done PROVE Recent(ended, t, k)
  <2>1. PICK i \in 1..k : ended[i] = t
    BY <1>2, <1>7 DEF Handled
  <2>2. i \in DOMAIN ended /\ t # srvTurn
    BY <1>1, <1>5, <2>1 DEF ServerLedger
  <2>3. Len(ended) \in DOMAIN ended /\ ended[Len(ended)] = t
    BY <1>5, <2>2 DEF Latest
  <2>4. i = Len(ended)
    BY <1>1, <2>1, <2>2, <2>3 DEF ServerLedger
  <2>5. k - i < TombstoneLimit
    BY <1>5, <2>4, TurnsAssumption
  <2> QED
    BY <2>1, <2>5 DEF Recent
<1> QED
  BY <1>3, <1>4, <1>6, <1>7

LEMMA StartTurnReturnLedger ==
  ASSUME TurnsInv, StartTurnReturn
  PROVE  Delivery' /\ LedgerOpen'
<1> DEFINE t == rpc["main"].turn
<1>1. Types /\ LedgerOpen /\ Starting /\ "main" \in Callers
  BY DEF TurnsInv, Callers
<1>2. UNCHANGED Undelivered
  BY DEF StartTurnReturn, Undelivered, server, history
<1>3. pc["main"] = "start_wait" /\ rpc["main"].kind = "start" /\ rpc["main"].status # "sent"
  BY <1>1 DEF StartTurnReturn, Starting
<1>4. CASE rpc["main"].status = "error"
  <2>1. active = None /\ active' = active
    BY <1>1, <1>3, <1>4 DEF StartTurnReturn, Starting
  <2>2. \A u \in Turn : ~Known(u)
    BY <1>4, <2>1, TurnsAssumption DEF Known
  <2> QED
    BY <1>1, <1>2, <2>1, <2>2, KeptLedger DEF LedgerOpen
<1>5. CASE rpc["main"].status = "finished"
  <2>1. active = None /\ active' = None
    BY <1>1, <1>3, <1>5 DEF StartTurnReturn, Starting
  <2>2. \A u \in Turn : ~Known(u)
    BY <1>5, <2>1, TurnsAssumption DEF Known
  <2> QED
    BY <1>1, <1>2, <2>1, <2>2, KeptLedger DEF LedgerOpen
<1>6. CASE rpc["main"].status = "inProgress"
  <2>1. active' = IF Tombstoned(t) THEN None ELSE t
    BY <1>6 DEF StartTurnReturn, CompletedEarly
  <2>2. active \in {None, t} /\ Latest(t) /\ t \in Turn
    BY <1>1, <1>3, <1>6 DEF Starting, Latest, Types, Rpc
  <2>3. (t \in done <=> Tombstoned(t)) /\ t \in used
    BY <2>2, LatestUndone
  <2>4. ASSUME NEW u \in Turn, u \notin done, Known(u) PROVE active' = u
    BY <2>1, <2>2, <2>3, <2>4, TurnsAssumption DEF Known
  <2>5. None \notin done
    BY <1>1, TurnsAssumption DEF Types
  <2> QED
    BY <1>2, <2>1, <2>3, <2>4, <2>5, KeptLedger DEF Known
<1> QED
  BY <1>1, <1>3, <1>4, <1>5, <1>6 DEF StartTurnReturn

LEMMA SameLedger ==
  ASSUME TurnsInv, UNCHANGED Undelivered, UNCHANGED active,
         pc["main"] = "start_wait" /\ rpc["main"].status = "inProgress" =>
           pc'["main"] = pc["main"] /\ rpc'["main"] = rpc["main"]
  PROVE  Delivery' /\ LedgerOpen'
<1>1. \A t \in Turn : Known(t) => Known(t)'
  BY DEF Known
<1>2. active' \notin done /\ (active' # None => active' \in used)
  BY DEF TurnsInv, LedgerOpen
<1> QED
  BY <1>1, <1>2, KeptLedger

LEMMA ServerLedgerKnown ==
  ASSUME TurnsInv, ServerStep
  PROVE  Delivery' /\ LedgerOpen'
<1> USE DEF server, ledger, device, history
<1>0. Types /\ ServerLedger /\ Delivery /\ LedgerOpen /\ Starting
  BY DEF TurnsInv
<1>1. ASSUME NEW t \in Turn, ServerStarts(t) PROVE Delivery' /\ LedgerOpen'
  <2>1. /\ pc["main"] = "start_wait" /\ rpc["main"].status = "sent"
        /\ UNCHANGED <<repeating, completed, done, active, pc>>
    BY <1>0, <1>1 DEF ServerStarts, Starting
  <2>2. \A u \in Turn : Known(u) => Known(u)'
    BY <2>1 DEF Known
  <2>3. Open(ended, t, Len(ended)) /\ t # None
    BY <1>0, <1>1, TurnsAssumption DEF ServerStarts, ServerLedger, Open, Types
  <2>4. CASE srvTurn' = t
    <3>1. /\ ended' = ended /\ Notify(<<[t |-> "started", turn |-> t]>>)
          /\ rpc' = [rpc EXCEPT !["main"].turn = t, !["main"].status = "inProgress"]
      BY <1>1, <2>3, <2>4 DEF ServerStarts
    <3>2. rpc'["main"].turn = t /\ rpc'["main"].status = "inProgress"
      BY <1>0, <3>1 DEF Types, Rpc, Callers
    <3>3. Known(t)'
      BY <2>1, <3>2 DEF Known
    <3>4. PICK m \in Message : m.t = "started" /\ m.turn = t /\ Notify(<<m>>)
      BY <3>1 DEF Message
    <3>5. Delivery'
      BY <1>0, <2>1, <2>2, <2>3, <3>1, <3>3, <3>4, DeliveryPosted
    <3> QED
      BY <1>0, <1>1, <2>1, <2>4, <3>3, <3>5 DEF LedgerOpen, ServerStarts, Known
  <2>5. CASE srvTurn' # t
    <3>1. ended' = Append(ended, t) /\ Notify(<<[t |-> "completed", turn |-> t]>>) /\ srvTurn' = None
      BY <1>1, <2>5 DEF ServerStarts
    <3>2. PICK m \in Message : m.t = "completed" /\ m.turn = t /\ Notify(<<m>>)
      BY <3>1 DEF Message
    <3>3. Delivery'
      BY <1>0, <2>1, <2>2, <3>1, <3>2, DeliveryPosted
    <3> QED
      BY <1>0, <1>1, <2>1, <3>1, <3>3 DEF LedgerOpen, ServerStarts
  <2> QED
    BY <2>4, <2>5
<1>2. CASE ServerCompletes
  <2>1. /\ ended' = Append(ended, srvTurn) /\ Notify(<<[t |-> "completed", turn |-> srvTurn]>>)
        /\ srvTurn \in Turn /\ srvTurn' = None
        /\ UNCHANGED <<used, repeating, completed, done, active, pc, rpc>>
    BY <1>0, <1>2 DEF ServerCompletes, Types
  <2>2. PICK m \in Message : m.t = "completed" /\ m.turn = srvTurn /\ Notify(<<m>>)
    BY <2>1 DEF Message
  <2>3. \A u \in Turn : Known(u) => Known(u)'
    BY <2>1 DEF Known
  <2>4. Delivery'
    BY <1>0, <2>1, <2>2, <2>3, DeliveryPosted
  <2> QED
    BY <1>0, <2>1, <2>4 DEF LedgerOpen
<1>3. CASE ServerRefusesStart
  BY <1>3, SameLedger DEF ServerRefusesStart, Undelivered
<1>4. ASSUME NEW c \in Callers, ServerAnswersInterrupt(c) PROVE Delivery' /\ LedgerOpen'
  <2>1. rpc["main"].status = "inProgress" => rpc'["main"] = rpc["main"]
    BY <1>0, <1>4 DEF ServerAnswersInterrupt, Types
  <2> QED
    BY <1>4, <2>1, SameLedger DEF ServerAnswersInterrupt, Undelivered
<1>5. ASSUME NEW t \in Turn, NEW kind \in {"started", "completed"}, ServerRepeats(t, kind)
      PROVE  Delivery' /\ LedgerOpen'
  <2>1. /\ Notify(<<[t |-> kind, turn |-> t]>>) /\ repeating
        /\ UNCHANGED <<srvTurn, used, ended, repeating, completed, done, active, pc, rpc>>
    BY <1>5 DEF ServerRepeats
  <2>2. PICK m \in Message : m.t = kind /\ m.turn = t /\ Notify(<<m>>)
    BY <2>1 DEF Message
  <2>3. \A u \in Turn : Known(u) => Known(u)'
    BY <2>1 DEF Known
  <2>4. \/ Recent(ended, t, Len(ended))
        \/ kind = "started" /\ Open(ended, t, Len(ended)) /\ Known(t)
    <3>1. CASE t = srvTurn
      <4>1. kind = "started" /\ Known(t)
        BY <1>0, <1>5, <3>1, TurnsAssumption DEF ServerRepeats, LedgerOpen
      <4>2. Open(ended, t, Len(ended))
        BY <1>0, <3>1 DEF ServerLedger, Open, Types
      <4> QED
        BY <4>1, <4>2
    <3>2. CASE t # srvTurn
      BY <1>0, <1>5, <3>2 DEF ServerRepeats, Repeatable, Recent, Types
    <3> QED
      BY <3>1, <3>2
  <2>5. Delivery'
    BY <1>0, <2>1, <2>2, <2>3, <2>4, DeliveryPosted
  <2>6. srvTurn # None => Known(srvTurn)'
    BY <1>0, <2>1 DEF LedgerOpen, Known
  <2> QED
    BY <1>0, <2>1, <2>5, <2>6 DEF LedgerOpen, Known
<1>6. CASE ClientFails
  BY <1>6, SameLedger DEF ClientFails, Undelivered, Callers
<1> QED
  BY <1>1, <1>2, <1>3, <1>4, <1>5, <1>6 DEF ServerStep

LEMMA LedgerStep ==
  ASSUME TurnsInv, TurnsStep
  PROVE  Delivery' /\ LedgerOpen'
<1> USE DEF server, ledger, device, history
<1>0. Types /\ Starting /\ "main" \in Threads /\ "serial" \in Threads /\ "pump" \in Threads
  BY DEF TurnsInv, Threads, Callers
<1>1. CASE MainStep
  <2>1. CASE \/ RunCommand \/ InterruptCommand \/ WaitCommand \/ WaitReturn \/ Quit
             \/ MainNoticesFailure \/ InterruptTurnBegin("main") \/ InterruptTurnReturn("main")
    <3>1. pc["main"] # "start_wait"
      BY <2>1 DEF RunCommand, InterruptCommand, WaitCommand, WaitReturn, Quit,
         MainNoticesFailure, InterruptTurnBegin, InterruptTurnReturn
    <3>2. UNCHANGED Undelivered /\ UNCHANGED active
      BY <2>1 DEF RunCommand, InterruptCommand, WaitCommand, WaitReturn, Quit,
         MainNoticesFailure, InterruptTurnBegin, InterruptTurnReturn, Undelivered
    <3> QED
      BY <3>1, <3>2, SameLedger
  <2>2. CASE StartTurnBegin
    BY <2>2, SameLedger DEF StartTurnBegin, Undelivered
  <2> QED
    BY <1>1, <2>1, <2>2, StartTurnReturnLedger DEF MainStep
<1>2. CASE SerialStep
  <2>1. ASSUME NEW t \in Turn, InterruptClaimed(t) PROVE Delivery' /\ LedgerOpen'
    BY <1>0, <2>1, GotoType, SameLedger DEF InterruptClaimed, Undelivered, Types, Goto, Threads
  <2>2. CASE InterruptTurnBegin("serial") \/ InterruptTurnReturn("serial")
    <3>1. pc'["main"] = pc["main"]
      BY <1>0, <2>2 DEF InterruptTurnBegin, InterruptTurnReturn, Goto, Raise, Types
    <3>2. rpc'["main"] = rpc["main"]
      BY <1>0, <2>2 DEF InterruptTurnBegin, InterruptTurnReturn, Types, Callers
    <3> QED
      BY <2>2, <3>1, <3>2, SameLedger DEF InterruptTurnBegin, InterruptTurnReturn, Undelivered
  <2> QED
    BY <1>2, <2>1, <2>2 DEF SerialStep
<1>3. CASE PumpStep
  <2>1. CASE TurnStartedInSlot \/ TurnCompletedInSlot \/ PumpFails
    <3>1. pc'["main"] = pc["main"]
      BY <1>0, <2>1 DEF TurnStartedInSlot, TurnCompletedInSlot, PumpFails, Goto, Raise, Types
    <3> QED
      BY <2>1, <3>1, SameLedger
      DEF TurnStartedInSlot, TurnCompletedInSlot, PumpFails, Undelivered
  <2> QED
    BY <1>3, <2>1, PumpStartedDelivery, PumpCompletedDelivery DEF PumpStep
<1>4. CASE FailAll
  BY <1>4, SameLedger DEF FailAll, FailPending, Undelivered, Callers
<1> QED
  BY <1>1, <1>2, <1>3, <1>4, ServerLedgerKnown DEF TurnsStep

-----------------------------------------------------------------------------
(* The other conjuncts.                                                    *)

(* What a thread's step leaves to the others.                              *)
LEMMA Frames ==
  ASSUME Types
  PROVE  /\ MainStep => /\ UNCHANGED <<srvTurn, used, ended, repeating, inbox, fatal, completed, slot, done>>
                        /\ UNCHANGED <<interrupted, forwarded>>
                        /\ \A u \in {"serial", "pump"} : pc'[u] = pc[u] /\ job'[u] = job[u]
                        /\ rpc'["serial"] = rpc["serial"]
         /\ SerialStep => /\ UNCHANGED <<srvTurn, used, ended, repeating, inbox, fatal, completed, slot, done>>
                          /\ UNCHANGED <<active, starting>>
                          /\ \A u \in {"main", "pump"} : pc'[u] = pc[u] /\ job'[u] = job[u]
                          /\ rpc'["main"] = rpc["main"]
         /\ PumpStep => /\ UNCHANGED <<srvTurn, used, ended, repeating, rpc, fatal, starting, turnLock>>
                        /\ UNCHANGED <<interrupted, forwarded>>
                        /\ \A u \in {"main", "serial"} : pc'[u] = pc[u] /\ job'[u] = job[u]
         /\ ServerStep \/ FailAll =>
              UNCHANGED <<repeating, ledger, turnLock, device, pc, job, history>>
<1> USE DEF server, ledger, device, history
<1>1. /\ "main" \in Threads /\ "serial" \in Threads /\ "pump" \in Threads
      /\ pc \in [Threads -> Labels] /\ job \in [Threads -> Turn \cup {None}] /\ rpc \in [Callers -> Rpc]
      /\ "main" \in Callers /\ "serial" \in Callers
  BY DEF Types, Threads, Callers
<1>2. ASSUME MainStep
      PROVE  /\ UNCHANGED <<srvTurn, used, ended, repeating, inbox, fatal, completed, slot, done>>
             /\ UNCHANGED <<interrupted, forwarded>>
             /\ \A u \in {"serial", "pump"} : pc'[u] = pc[u] /\ job'[u] = job[u]
             /\ rpc'["serial"] = rpc["serial"]
  <2>1. \E l, t : Goto("main", l, t)
    BY <1>2 DEF MainStep, RunCommand, StartTurnBegin, StartTurnReturn, InterruptCommand, WaitCommand,
       WaitReturn, Quit, MainNoticesFailure, InterruptTurnBegin, InterruptTurnReturn, Raise
  <2>2. \A u \in {"serial", "pump"} : pc'[u] = pc[u] /\ job'[u] = job[u]
    BY <1>1, <2>1 DEF Goto
  <2>3. UNCHANGED <<srvTurn, used, ended, repeating, inbox, fatal, completed, slot, done>>
    BY <1>2 DEF MainStep, RunCommand, StartTurnBegin, StartTurnReturn, InterruptCommand, WaitCommand,
       WaitReturn, Quit, MainNoticesFailure, InterruptTurnBegin, InterruptTurnReturn
  <2>4. UNCHANGED <<interrupted, forwarded>>
    BY <1>2 DEF MainStep, RunCommand, StartTurnBegin, StartTurnReturn, InterruptCommand, WaitCommand,
       WaitReturn, Quit, MainNoticesFailure, InterruptTurnBegin, InterruptTurnReturn
  <2>5. rpc'["serial"] = rpc["serial"]
    BY <1>1, <1>2 DEF MainStep, RunCommand, StartTurnBegin, StartTurnReturn, InterruptCommand, WaitCommand,
       WaitReturn, Quit, MainNoticesFailure, InterruptTurnBegin, InterruptTurnReturn
  <2> QED
    BY <2>2, <2>3, <2>4, <2>5
<1>3. ASSUME SerialStep
      PROVE  /\ UNCHANGED <<srvTurn, used, ended, repeating, inbox, fatal, completed, slot, done>>
             /\ UNCHANGED <<active, starting>>
             /\ \A u \in {"main", "pump"} : pc'[u] = pc[u] /\ job'[u] = job[u]
             /\ rpc'["main"] = rpc["main"]
  <2>1. \E l, t : Goto("serial", l, t)
    BY <1>3 DEF SerialStep, InterruptClaimed, InterruptTurnBegin, InterruptTurnReturn, Raise
  <2>2. \A u \in {"main", "pump"} : pc'[u] = pc[u] /\ job'[u] = job[u]
    BY <1>1, <2>1 DEF Goto
  <2>3. rpc'["main"] = rpc["main"]
    BY <1>1, <1>3 DEF SerialStep, InterruptClaimed, InterruptTurnBegin, InterruptTurnReturn
  <2>4. UNCHANGED <<srvTurn, used, ended, repeating, inbox, fatal, completed, slot, done, active, starting>>
    BY <1>3 DEF SerialStep, InterruptClaimed, InterruptTurnBegin, InterruptTurnReturn
  <2> QED
    BY <2>2, <2>3, <2>4
<1>4. ASSUME PumpStep
      PROVE  /\ UNCHANGED <<srvTurn, used, ended, repeating, rpc, fatal, starting, turnLock>>
             /\ UNCHANGED <<interrupted, forwarded>>
             /\ \A u \in {"main", "serial"} : pc'[u] = pc[u] /\ job'[u] = job[u]
  <2>1. (pc' = pc /\ job' = job) \/ \E l, t : Goto("pump", l, t)
    BY <1>4 DEF PumpStep, PumpStarted, PumpCompleted, TurnStartedInSlot, TurnCompletedInSlot,
       PumpFails, Raise
  <2>2. \A u \in {"main", "serial"} : pc'[u] = pc[u] /\ job'[u] = job[u]
    BY <1>1, <2>1 DEF Goto
  <2>3. UNCHANGED <<srvTurn, used, ended, repeating, rpc, fatal, starting, turnLock, interrupted, forwarded>>
    BY <1>4 DEF PumpStep, PumpStarted, PumpCompleted, TurnStartedInSlot, TurnCompletedInSlot, PumpFails
  <2> QED
    BY <2>2, <2>3
<1>5. ServerStep \/ FailAll => UNCHANGED <<repeating, ledger, turnLock, device, pc, job, history>>
  BY DEF ServerStep, ServerStarts, ServerCompletes, ServerRefusesStart, ServerAnswersInterrupt,
     ServerRepeats, ClientFails, FailAll
<1> QED
  BY <1>2, <1>3, <1>4, <1>5

LEMMA ServerLedgerStep ==
  ASSUME TurnsInv, TurnsStep
  PROVE  ServerLedger'
<1>0. Types /\ ServerLedger
  BY DEF TurnsInv
<1>1. ASSUME NEW t \in Turn, t \notin {ended[i] : i \in DOMAIN ended}, ended' = Append(ended, t)
      PROVE  /\ {ended'[i] : i \in DOMAIN ended'} = {ended[i] : i \in DOMAIN ended} \cup {t}
             /\ \A i, j \in DOMAIN ended' : ended'[i] = ended'[j] => i = j
  <2>1. ended \in Seq(Turn)
    BY <1>0 DEF Types
  <2>2. /\ DOMAIN ended' = DOMAIN ended \cup {Len(ended) + 1} /\ Len(ended) + 1 \notin DOMAIN ended
        /\ ended'[Len(ended) + 1] = t
        /\ \A i \in DOMAIN ended : ended'[i] = ended[i]
    BY <1>1, <2>1
  <2>3. {ended'[i] : i \in DOMAIN ended'} = {ended[i] : i \in DOMAIN ended} \cup {t}
    BY <2>2
  <2> QED
    BY <1>0, <1>1, <2>2, <2>3 DEF ServerLedger
<1>2. CASE UNCHANGED <<srvTurn, used, ended>>
  BY <1>0, <1>2 DEF ServerLedger
<1>3. ASSUME NEW t \in Turn, ServerStarts(t) PROVE ServerLedger'
  <2>1. t \notin {ended[i] : i \in DOMAIN ended} /\ srvTurn = None /\ used' = used \cup {t} /\ t # None
    BY <1>0, <1>3, TurnsAssumption DEF ServerStarts, ServerLedger
  <2>2. CASE srvTurn' = t /\ ended' = ended
    BY <1>0, <2>1, <2>2 DEF ServerLedger
  <2>3. CASE srvTurn' = None /\ ended' = Append(ended, t)
    BY <1>0, <1>1, <2>1, <2>3 DEF ServerLedger
  <2> QED
    BY <1>3, <2>2, <2>3 DEF ServerStarts
<1>4. CASE ServerCompletes
  <2>1. srvTurn \in Turn /\ srvTurn' = None /\ used' = used /\ ended' = Append(ended, srvTurn)
    BY <1>0, <1>4 DEF ServerCompletes, Types
  <2>2. None \notin {ended[i] : i \in DOMAIN ended} /\ srvTurn # None
    BY <1>0, <2>1, TurnsAssumption DEF Types
  <2>3. srvTurn \notin {ended[i] : i \in DOMAIN ended}
    BY <1>0 DEF ServerLedger
  <2>4. used = {ended[i] : i \in DOMAIN ended} \cup {srvTurn}
    BY <1>0, <2>2 DEF ServerLedger
  <2>5. /\ {ended'[i] : i \in DOMAIN ended'} = {ended[i] : i \in DOMAIN ended} \cup {srvTurn}
        /\ \A i, j \in DOMAIN ended' : ended'[i] = ended'[j] => i = j
    BY <1>1, <2>1, <2>3
  <2>6. used' = {ended'[i] : i \in DOMAIN ended'} /\ None \notin {ended'[i] : i \in DOMAIN ended'}
    BY <2>1, <2>2, <2>4, <2>5
  <2> QED
    BY <2>1, <2>5, <2>6 DEF ServerLedger
<1>5. CASE ServerStep
  BY <1>2, <1>3, <1>4, <1>5 DEF ServerStep, ServerRefusesStart, ServerAnswersInterrupt,
     ServerRepeats, ClientFails, server
<1>6. CASE MainStep \/ SerialStep \/ PumpStep \/ FailAll
  BY <1>0, <1>2, <1>6, Frames DEF FailAll, server
<1> QED
  BY <1>5, <1>6 DEF TurnsStep

(* While start_turn waits for its response, the server runs its turn or    *)
(* none.                                                                   *)
LEMMA StartedIsRunning ==
  ASSUME TurnsInv, rpc["main"].kind = "start", srvTurn # None
  PROVE  rpc["main"].status = "inProgress" /\ srvTurn = rpc["main"].turn
BY DEF TurnsInv, Starting, LedgerOpen, Known

LEMMA StartingStep ==
  ASSUME TurnsInv, TurnsStep
  PROVE  Starting'
<1> USE DEF server, ledger, device, history
<1>0. Types /\ Starting /\ LedgerOpen /\ Delivery
  BY DEF TurnsInv
<1>1. /\ "main" \in Threads /\ "serial" \in Threads /\ "pump" \in Threads
      /\ pc \in [Threads -> Labels] /\ job \in [Threads -> Turn \cup {None}] /\ rpc \in [Callers -> Rpc]
      /\ "main" \in Callers /\ "serial" \in Callers /\ rpc["main"] \in Rpc /\ rpc["serial"] \in Rpc
  BY <1>0 DEF Types, Threads, Callers
<1>2. CASE ServerStep
  <2>0. UNCHANGED <<active, starting, pc>>
    BY <1>0, <1>2, Frames
  <2>1. ASSUME NEW t \in Turn, ServerStarts(t) PROVE Starting'
    <3>1. /\ rpc["main"].kind = "start" /\ active = None
          /\ rpc'["serial"] = rpc["serial"] /\ rpc'["main"].kind = "start" /\ rpc'["main"].turn = t
          /\ rpc'["main"].status \in {"inProgress", "finished"}
      BY <1>0, <1>1, <2>1 DEF ServerStarts, Starting, Rpc
    <3>2. Latest(t)'
      BY <1>0, <2>1, TurnsAssumption DEF ServerStarts, Latest, Types
    <3> QED
      BY <1>0, <2>0, <3>1, <3>2 DEF Starting, Latest
  <2>2. CASE ServerCompletes
    <3>1. rpc' = rpc /\ srvTurn \in Turn /\ srvTurn' = None /\ ended' = Append(ended, srvTurn)
      BY <1>0, <2>2 DEF ServerCompletes, Types
    <3>2. ended \in Seq(Turn) /\ srvTurn # None
      BY <1>0, <2>2 DEF Types, ServerCompletes
    <3>3. rpc["main"].kind = "start" => Latest(rpc["main"].turn)'
      BY <3>1, <3>2, StartedIsRunning DEF Latest
    <3> QED
      BY <1>0, <2>0, <3>1, <3>3 DEF Starting, Latest
  <2>3. CASE ServerRefusesStart
    <3>1. /\ rpc["main"].kind = "start" /\ rpc["main"].status = "sent"
          /\ rpc'["serial"] = rpc["serial"] /\ rpc'["main"].kind = "start"
          /\ rpc'["main"].status = "error"
      BY <1>1, <2>3 DEF ServerRefusesStart, Rpc
    <3> QED
      BY <1>0, <2>0, <3>1 DEF Starting
  <2>4. ASSUME NEW c \in Callers, ServerAnswersInterrupt(c) PROVE Starting'
    <3>1. /\ rpc'[c].kind = "interrupt" /\ rpc'[c].status \in {"ok", "error"}
          /\ \A d \in Callers \ {c} : rpc'[d] = rpc[d]
          /\ rpc[c].kind = "interrupt"
      BY <1>1, <2>4 DEF ServerAnswersInterrupt, Rpc
    <3>2. UNCHANGED <<srvTurn, ended>>
      BY <2>4 DEF ServerAnswersInterrupt
    <3> QED
      BY <1>0, <2>0, <3>1, <3>2 DEF Starting, Callers, Latest
  <2>5. ASSUME NEW t \in Turn, NEW kind, ServerRepeats(t, kind) PROVE Starting'
    BY <1>0, <2>0, <2>5 DEF ServerRepeats, Starting, Latest
  <2>6. CASE ClientFails
    <3>1. \A c \in Callers : rpc'[c].kind = rpc[c].kind /\ rpc'[c].turn = rpc[c].turn
            /\ rpc'[c].status = IF rpc[c].status = "sent" THEN "error" ELSE rpc[c].status
      BY <1>1, <2>6 DEF ClientFails, Rpc
    <3>2. UNCHANGED <<srvTurn, ended>>
      BY <2>6 DEF ClientFails
    <3> QED
      BY <1>0, <1>1, <2>0, <3>1, <3>2 DEF Starting, Latest
  <2> QED
    BY <1>2, <2>1, <2>2, <2>3, <2>4, <2>5, <2>6 DEF ServerStep
<1>3. CASE MainStep
  <2>0. UNCHANGED <<srvTurn, ended>> /\ rpc'["serial"] = rpc["serial"]
    BY <1>0, <1>3, Frames
  <2>1. CASE RunCommand \/ InterruptCommand \/ WaitCommand \/ WaitReturn \/ Quit \/ MainNoticesFailure
    <3>1. pc["main"] # "start_wait" /\ pc'["main"] # "start_wait" /\ UNCHANGED <<rpc, active, starting>>
      BY <1>1, <2>1 DEF RunCommand, InterruptCommand, WaitCommand, WaitReturn, Quit,
         MainNoticesFailure, Goto, Raise
    <3> QED
      BY <1>0, <2>0, <3>1 DEF Starting
  <2>2. CASE StartTurnBegin
    <3>1. CASE ~starting /\ active = None /\ ~fatal
      <4>1. /\ starting' = TRUE /\ pc'["main"] = "start_wait"
            /\ rpc'["main"].kind = "start" /\ rpc'["main"].status = "sent" /\ active' = active
        BY <1>1, <2>2, <3>1 DEF StartTurnBegin, Goto, NoRpc
      <4> QED
        BY <1>0, <2>0, <3>1, <4>1 DEF Starting
    <3>2. CASE starting \/ active # None \/ fatal
      <4>1. pc["main"] = "start" /\ pc'["main"] = "dead" /\ UNCHANGED <<rpc, active, starting>>
        BY <1>1, <2>2, <3>2 DEF StartTurnBegin, Goto, Raise
      <4> QED
        BY <1>0, <2>0, <4>1 DEF Starting
    <3> QED
      BY <2>2, <3>1, <3>2 DEF StartTurnBegin
  <2>3. CASE StartTurnReturn
    <3>1. starting' = FALSE /\ pc'["main"] \in {"idle", "dead"} /\ rpc'["main"] = NoRpc
      BY <1>1, <2>3 DEF StartTurnReturn, Goto, Raise
    <3> QED
      BY <1>0, <2>0, <3>1 DEF Starting, NoRpc
  <2>4. CASE InterruptTurnBegin("main")
    <3>1. CASE active = job["main"] /\ ~fatal
      <4>1. /\ pc["main"] = "interrupt" /\ pc'["main"] = "interrupt_wait" /\ starting' = starting
            /\ rpc'["main"].kind = "interrupt" /\ rpc'["main"].status = "sent"
        BY <1>1, <2>4, <3>1 DEF InterruptTurnBegin, Goto
      <4> QED
        BY <1>0, <2>0, <4>1 DEF Starting
    <3>2. CASE active # job["main"] \/ fatal
      <4>1. pc["main"] = "interrupt" /\ pc'["main"] = "dead" /\ UNCHANGED <<starting, rpc>>
        BY <1>1, <2>4, <3>2 DEF InterruptTurnBegin, Goto, Raise
      <4> QED
        BY <1>0, <2>0, <4>1 DEF Starting
    <3> QED
      BY <2>4, <3>1, <3>2 DEF InterruptTurnBegin
  <2>5. CASE InterruptTurnReturn("main")
    <3>1. /\ pc["main"] = "interrupt_wait" /\ pc'["main"] \in {"idle", "dead"} /\ starting' = starting
          /\ rpc'["main"] = NoRpc
      BY <1>1, <2>5 DEF InterruptTurnReturn, Goto, Raise
    <3> QED
      BY <1>0, <2>0, <3>1 DEF Starting, NoRpc
  <2> QED
    BY <1>3, <2>1, <2>2, <2>3, <2>4, <2>5 DEF MainStep
<1>4. CASE SerialStep
  <2>1. /\ UNCHANGED <<srvTurn, ended, active, starting>>
        /\ pc'["main"] = pc["main"] /\ rpc'["main"] = rpc["main"]
    BY <1>0, <1>4, Frames
  <2>2. \/ rpc'["serial"] = rpc["serial"]
        \/ rpc'["serial"].kind # "start" /\ rpc'["serial"].status \notin {"inProgress", "finished"}
    BY <1>1, <1>4 DEF SerialStep, InterruptClaimed, InterruptTurnBegin, InterruptTurnReturn, NoRpc
  <2> QED
    BY <1>0, <2>1, <2>2 DEF Starting, Latest
<1>5. CASE PumpStep
  <2>1. UNCHANGED <<srvTurn, ended, starting, rpc>> /\ pc'["main"] = pc["main"]
    BY <1>0, <1>5, Frames
  <2>2. \/ active' \in {active, None}
        \/ active' # None /\ Known(active') /\ active \in {None, active'}
    <3>1. CASE PumpStarted /\ active' # active
      <4>1. PICK k \in 0..Len(ended), e \in [DOMAIN inbox -> 0..Len(ended)] :
              Schedule(k, e) /\ StartsKnown(e)
        BY <1>0 DEF Delivery
      <4>2. active' = Head(inbox).turn /\ CanActivate(Head(inbox).turn)
        BY <3>1 DEF PumpStarted
      <4>3. Known(Head(inbox).turn) /\ active \in {None, Head(inbox).turn}
        BY <3>1, <4>1, <4>2, Activated
      <4>4. Head(inbox).turn # None
        BY <3>1, <4>2, <4>3
      <4> QED
        BY <4>2, <4>3, <4>4
    <3>2. CASE ~(PumpStarted /\ active' # active)
      BY <1>5, <3>2 DEF PumpStep, PumpStarted, PumpCompleted, TurnStartedInSlot, TurnCompletedInSlot,
         PumpFails
    <3> QED
      BY <3>1, <3>2
  <2> QED
    BY <1>0, <2>1, <2>2 DEF Starting, Latest, Known
<1>6. CASE FailAll
  <2>1. UNCHANGED <<active, starting, pc, srvTurn, ended>>
    BY <1>6 DEF FailAll
  <2>2. \A c \in Callers : rpc'[c].kind = rpc[c].kind /\ rpc'[c].turn = rpc[c].turn
          /\ rpc'[c].status = IF rpc[c].status = "sent" THEN "error" ELSE rpc[c].status
    BY <1>0, <1>6, FailType DEF FailAll
  <2> QED
    BY <1>0, <1>1, <2>1, <2>2 DEF Starting, Latest
<1> QED
  BY <1>2, <1>3, <1>4, <1>5, <1>6 DEF TurnsStep

LEMMA InterruptingStep ==
  ASSUME TurnsInv, TurnsStep
  PROVE  Interrupting'
<1> USE DEF server, ledger, device, history
<1>0. Types /\ Starting /\ Interrupting
  BY DEF TurnsInv
<1>1. /\ "main" \in Threads /\ "serial" \in Threads /\ "pump" \in Threads
      /\ pc \in [Threads -> Labels] /\ job \in [Threads -> Turn \cup {None}] /\ rpc \in [Callers -> Rpc]
      /\ "main" \in Callers /\ "serial" \in Callers /\ rpc["main"] \in Rpc /\ rpc["serial"] \in Rpc
      /\ Callers = {"main", "serial"} /\ Nobody \notin Callers
  BY <1>0 DEF Types, Threads, Callers, Nobody
<1>2. CASE ServerStep \/ FailAll
  <2>1. UNCHANGED <<active, turnLock, pc, job>>
    BY <1>0, <1>2, Frames
  <2>2. ASSUME NEW c \in Callers
        PROVE  rpc'[c].kind = rpc[c].kind /\ (rpc[c].kind = "interrupt" => rpc'[c].turn = rpc[c].turn)
    <3>1. CASE FailAll
      BY <1>0, <3>1, FailType DEF FailAll
    <3>2. CASE ClientFails
      BY <1>1, <3>2 DEF ClientFails, Rpc
    <3>3. CASE \E d \in Callers : ServerAnswersInterrupt(d)
      BY <1>1, <3>3 DEF ServerAnswersInterrupt, Rpc
    <3>4. CASE (\E t \in Turn : ServerStarts(t)) \/ ServerRefusesStart
      <4>1. rpc["main"].kind = "start" /\ rpc'["main"].kind = "start"
        <5>1. CASE \E t \in Turn : ServerStarts(t)
          BY <1>1, <5>1 DEF ServerStarts, Rpc
        <5>2. CASE ServerRefusesStart
          BY <1>1, <5>2 DEF ServerRefusesStart, Rpc
        <5> QED
          BY <3>4, <5>1, <5>2
      <4>2. rpc'["serial"] = rpc["serial"]
        BY <1>1, <3>4 DEF ServerStarts, ServerRefusesStart
      <4> QED
        BY <1>1, <4>1, <4>2
    <3>5. CASE ServerCompletes \/ \E t \in Turn, kind \in {"started", "completed"} : ServerRepeats(t, kind)
      BY <3>5 DEF ServerCompletes, ServerRepeats
    <3> QED
      BY <1>2, <3>1, <3>2, <3>3, <3>4, <3>5 DEF ServerStep
  <2> QED
    BY <1>0, <2>1, <2>2 DEF Interrupting
<1>3. ASSUME NEW c \in Callers, InterruptTurnBegin(c) PROVE Interrupting'
  <2>0. /\ pc[c] = "interrupt" /\ turnLock = Nobody /\ active' = active
        /\ \A d \in Callers : pc[d] # "interrupt_wait" /\ rpc[d].kind # "interrupt"
    BY <1>0, <1>1, <1>3 DEF InterruptTurnBegin, Interrupting
  <2>1. CASE active = job[c] /\ ~fatal
    <3>1. /\ turnLock' = c /\ pc'[c] = "interrupt_wait" /\ job'[c] = job[c]
          /\ rpc'[c].kind = "interrupt" /\ rpc'[c].turn = job[c]
      BY <1>1, <1>3, <2>1 DEF InterruptTurnBegin, TakeTurnLock, Goto, Threads
    <3>2. \A d \in Callers \ {c} : pc'[d] = pc[d] /\ rpc'[d] = rpc[d]
      BY <1>1, <1>3, <2>1 DEF InterruptTurnBegin, Goto
    <3> QED
      BY <2>0, <2>1, <3>1, <3>2 DEF Interrupting
  <2>2. CASE active # job[c] \/ fatal
    <3>1. pc'[c] # "interrupt_wait" /\ UNCHANGED <<turnLock, rpc>>
      BY <1>1, <1>3, <2>2 DEF InterruptTurnBegin, Raise, Goto, Threads
    <3>2. \A d \in Callers \ {c} : pc'[d] = pc[d]
      BY <1>1, <1>3, <2>2 DEF InterruptTurnBegin, Raise, Goto
    <3> QED
      BY <1>1, <2>0, <3>1, <3>2 DEF Interrupting
  <2> QED
    BY <1>3, <2>1, <2>2 DEF InterruptTurnBegin
<1>4. ASSUME NEW c \in Callers, InterruptTurnReturn(c) PROVE Interrupting'
  <2>1. pc[c] = "interrupt_wait" /\ turnLock' = Nobody /\ rpc'[c] = NoRpc
    BY <1>1, <1>4 DEF InterruptTurnReturn
  <2>2. pc'[c] # "interrupt_wait" /\ \A d \in Callers \ {c} : pc'[d] = pc[d] /\ rpc'[d] = rpc[d]
    BY <1>1, <1>4 DEF InterruptTurnReturn, Raise, Goto, Threads
  <2>3. turnLock = c /\ \A d \in Callers \ {c} : pc[d] # "interrupt_wait" /\ rpc[d].kind # "interrupt"
    BY <1>0, <2>1 DEF Interrupting
  <2> QED
    BY <1>1, <2>1, <2>2, <2>3 DEF Interrupting, NoRpc
<1>5. CASE \/ RunCommand \/ InterruptCommand \/ WaitCommand \/ WaitReturn \/ Quit
           \/ MainNoticesFailure \/ StartTurnBegin \/ StartTurnReturn
  <2>0. MainStep
    BY <1>5 DEF MainStep
  <2>1. /\ pc["main"] # "interrupt_wait" /\ pc'["main"] # "interrupt_wait" /\ turnLock' = turnLock
    BY <1>1, <1>5 DEF RunCommand, InterruptCommand, WaitCommand, WaitReturn, Quit,
       MainNoticesFailure, StartTurnBegin, StartTurnReturn, Goto, Raise
  <2>2. pc'["serial"] = pc["serial"] /\ job'["serial"] = job["serial"] /\ rpc'["serial"] = rpc["serial"]
    BY <1>0, <2>0, Frames
  <2>3. rpc'["main"] = rpc["main"] \/ rpc'["main"].kind # "interrupt"
    <3>1. CASE StartTurnBegin
      BY <1>1, <3>1 DEF StartTurnBegin, NoRpc
    <3>2. CASE StartTurnReturn
      BY <1>1, <3>2 DEF StartTurnReturn, NoRpc
    <3> QED
      BY <1>5, <3>1, <3>2 DEF RunCommand, InterruptCommand, WaitCommand, WaitReturn, Quit,
         MainNoticesFailure
  <2>4. active' = active \/ turnLock = Nobody
    BY <1>5 DEF RunCommand, InterruptCommand, WaitCommand, WaitReturn, Quit,
       MainNoticesFailure, StartTurnBegin, StartTurnReturn
  <2> QED
    BY <1>0, <1>1, <2>1, <2>2, <2>3, <2>4 DEF Interrupting
<1>6. ASSUME NEW t \in Turn, InterruptClaimed(t) PROVE Interrupting'
  <2>1. /\ pc["serial"] = "idle" /\ pc'["serial"] = "interrupt" /\ UNCHANGED <<active, turnLock, rpc>>
        /\ pc'["main"] = pc["main"] /\ job'["main"] = job["main"]
    BY <1>1, <1>6 DEF InterruptClaimed, Goto
  <2> QED
    BY <1>0, <1>1, <2>1 DEF Interrupting
<1>7. CASE PumpStep
  <2>1. UNCHANGED <<rpc, turnLock>> /\ \A c \in Callers : pc'[c] = pc[c] /\ job'[c] = job[c]
    BY <1>0, <1>1, <1>7, Frames
  <2>2. active' = active \/ turnLock = Nobody
    BY <1>7 DEF PumpStep, PumpStarted, PumpCompleted, TurnStartedInSlot, TurnCompletedInSlot, PumpFails
  <2> QED
    BY <1>0, <1>1, <2>1, <2>2 DEF Interrupting
<1> QED
  BY <1>1, <1>2, <1>3, <1>4, <1>5, <1>6, <1>7 DEF TurnsStep, MainStep, SerialStep

LEMMA ClaimsStep ==
  ASSUME TurnsInv, TurnsStep
  PROVE  Claims' /\ ForwardedOnce'
<1> USE DEF server, ledger, device, history
<1>0. Types /\ Claims /\ ForwardedOnce /\ forwarded \in Seq(Turn)
  BY DEF TurnsInv, Types
<1>1. /\ "serial" \in Threads /\ pc \in [Threads -> Labels] /\ job \in [Threads -> Turn \cup {None}]
  BY <1>0 DEF Types, Threads, Callers
<1>2. CASE ServerStep \/ MainStep \/ PumpStep \/ FailAll
  <2>1. UNCHANGED <<interrupted, forwarded>> /\ pc'["serial"] = pc["serial"] /\ job'["serial"] = job["serial"]
    BY <1>0, <1>2, Frames
  <2> QED
    BY <1>0, <2>1 DEF Claims, ForwardedOnce
<1>3. ASSUME NEW t \in Turn, InterruptClaimed(t) PROVE Claims' /\ ForwardedOnce'
  <2>1. /\ pc'["serial"] = "interrupt" /\ job'["serial"] = t /\ t \notin interrupted
        /\ interrupted' = interrupted \cup {t} /\ forwarded' = forwarded
    BY <1>1, <1>3 DEF InterruptClaimed, AlreadyInterrupted, Goto
  <2> QED
    BY <1>0, <2>1 DEF Claims, ForwardedOnce
<1>4. CASE InterruptTurnBegin("serial")
  <2>1. CASE active = job["serial"] /\ ~fatal
    <3>1. /\ pc["serial"] = "interrupt" /\ job'["serial"] = job["serial"]
          /\ UNCHANGED <<interrupted, forwarded>>
      BY <1>1, <1>4, <2>1 DEF InterruptTurnBegin, Goto
    <3> QED
      BY <1>0, <3>1 DEF Claims, ForwardedOnce
  <2>2. CASE active # job["serial"] \/ fatal
    <3>1. /\ pc["serial"] = "interrupt" /\ pc'["serial"] = "idle"
          /\ interrupted' = interrupted \ {job["serial"]} /\ forwarded' = forwarded
      BY <1>1, <1>4, <2>2 DEF InterruptTurnBegin, Raise, Goto
    <3> QED
      BY <1>0, <3>1 DEF Claims, ForwardedOnce
  <2> QED
    BY <1>4, <2>1, <2>2 DEF InterruptTurnBegin
<1>5. CASE InterruptTurnReturn("serial")
  <2>0. pc["serial"] = "interrupt_wait" /\ pc'["serial"] = "idle"
    BY <1>1, <1>5 DEF InterruptTurnReturn, Raise, Goto
  <2>1. CASE rpc["serial"].status = "ok"
    <3>1. forwarded' = Append(forwarded, job["serial"]) /\ interrupted' = interrupted
      BY <1>5, <2>1 DEF InterruptTurnReturn
    <3>2. /\ DOMAIN forwarded' = DOMAIN forwarded \cup {Len(forwarded) + 1}
          /\ forwarded'[Len(forwarded) + 1] = job["serial"]
          /\ \A i \in DOMAIN forwarded : forwarded'[i] = forwarded[i]
      BY <1>0, <3>1
    <3> QED
      BY <1>0, <2>0, <3>1, <3>2 DEF Claims, ForwardedOnce
  <2>2. CASE rpc["serial"].status = "error"
    <3>1. interrupted' = interrupted \ {job["serial"]} /\ forwarded' = forwarded
      BY <1>5, <2>2 DEF InterruptTurnReturn
    <3> QED
      BY <1>0, <2>0, <3>1 DEF Claims, ForwardedOnce
  <2> QED
    BY <1>5, <2>1, <2>2 DEF InterruptTurnReturn
<1> QED
  BY <1>2, <1>3, <1>4, <1>5 DEF TurnsStep, SerialStep

LEMMA NoRequestStep ==
  ASSUME TurnsInv, TurnsStep
  PROVE  NoRequestAfterFatal'
<1> USE DEF server, ledger, device, history
<1>0. Types /\ NoRequestAfterFatal /\ rpc \in [Callers -> Rpc] /\ \A c \in Callers : rpc[c] \in Rpc
  BY DEF TurnsInv, Types
<1>1. CASE FailAll
  <2>1. \A c \in Callers : rpc'[c].status # "sent"
    BY <1>0, <1>1, FailType DEF FailAll
  <2> QED
    BY <2>1 DEF NoRequestAfterFatal
<1>2. CASE ClientFails
  BY <1>0, <1>2 DEF ClientFails, NoRequestAfterFatal, Rpc
<1>3. CASE ~FailAll /\ ~ClientFails
  <2>1. fatal' = fatal
    <3>1. MainStep \/ SerialStep \/ PumpStep => fatal' = fatal
      BY <1>0, Frames
    <3>2. ServerStep => fatal' = fatal
      BY <1>3 DEF ServerStep, ServerStarts, ServerCompletes, ServerRefusesStart,
         ServerAnswersInterrupt, ServerRepeats
    <3> QED
      BY <1>3, <3>1, <3>2 DEF TurnsStep
  <2>2. CASE fatal
    <3>1. ASSUME NEW c \in Callers PROVE rpc'[c] = rpc[c] \/ rpc'[c].status # "sent"
      <4>0. rpc[c].status # "sent" /\ \A d \in Callers : rpc[d].status # "sent"
        BY <1>0, <2>2 DEF NoRequestAfterFatal
      <4>1. CASE ServerStep
        BY <1>3, <4>0, <4>1 DEF ServerStep, ServerStarts, ServerCompletes, ServerRefusesStart,
           ServerAnswersInterrupt, ServerRepeats, Callers
      <4>2. CASE MainStep \/ SerialStep
        <5>1. CASE StartTurnBegin \/ StartTurnReturn
          <6>1. CASE StartTurnBegin
            BY <2>2, <6>1 DEF StartTurnBegin
          <6>2. CASE StartTurnReturn
            BY <1>0, <6>2 DEF StartTurnReturn, NoRpc, Callers
          <6> QED
            BY <5>1, <6>1, <6>2
        <5>2. ASSUME NEW d \in Callers, InterruptTurnBegin(d) PROVE rpc' = rpc
          BY <2>2, <5>2 DEF InterruptTurnBegin
        <5>3. ASSUME NEW d \in Callers, InterruptTurnReturn(d)
              PROVE  rpc'[c] = rpc[c] \/ rpc'[c].status # "sent"
          BY <1>0, <5>3 DEF InterruptTurnReturn, NoRpc
        <5>4. CASE rpc' = rpc
          BY <5>4
        <5> QED
          BY <4>2, <5>1, <5>2, <5>3, <5>4 DEF MainStep, SerialStep, RunCommand, InterruptCommand,
             WaitCommand, WaitReturn, Quit, MainNoticesFailure, InterruptClaimed, Callers
      <4>3. CASE PumpStep
        BY <1>0, <4>3, Frames
      <4> QED
        BY <1>3, <4>1, <4>2, <4>3 DEF TurnsStep
    <3> QED
      BY <1>0, <2>2, <3>1 DEF NoRequestAfterFatal
  <2> QED
    BY <2>1, <2>2 DEF NoRequestAfterFatal
<1> QED
  BY <1>1, <1>2, <1>3

LEMMA SlotStep ==
  ASSUME TurnsInv, TurnsStep
  PROVE  SlotFollows'
<1> USE DEF server, ledger, device, history
<1>0. Types /\ SlotFollows /\ Delivery
  BY DEF TurnsInv
<1>1. /\ "pump" \in Threads /\ pc \in [Threads -> Labels] /\ job \in [Threads -> Turn \cup {None}]
      /\ inbox \in Seq(Message)
  BY <1>0 DEF Types, Threads
<1>2. CASE UNCHANGED <<repeating, inbox, srvTurn, slot>> /\ pc'["pump"] = pc["pump"] /\ job'["pump"] = job["pump"]
  BY <1>0, <1>2 DEF SlotFollows, LastWord, Pending, Effect
<1>3. CASE MainStep \/ SerialStep
  BY <1>0, <1>2, <1>3, Frames
<1>4. CASE FailAll
  BY <1>2, <1>4 DEF FailAll
<1>5. CASE ServerStep
  <2>0. UNCHANGED <<repeating, slot, pc, job>>
    BY <1>0, <1>5, Frames
  <2>1. ASSUME NEW m \in Message, Notify(<<m>>), Effect(m) = srvTurn' PROVE SlotFollows'
    <3>1. inbox' # <<>> /\ inbox'[Len(inbox')] = m
      BY <1>0, <2>1, NotifyOne
    <3> QED
      BY <2>1, <3>1 DEF SlotFollows, LastWord, Effect
  <2>2. ASSUME NEW t \in Turn, ServerStarts(t) PROVE SlotFollows'
    <3>1. \/ srvTurn' = t /\ Notify(<<[t |-> "started", turn |-> t]>>)
          \/ srvTurn' = None /\ Notify(<<[t |-> "completed", turn |-> t]>>)
      BY <2>2 DEF ServerStarts
    <3>2. \E m \in Message : Notify(<<m>>) /\ Effect(m) = srvTurn'
      BY <3>1 DEF Message, Effect
    <3> QED
      BY <2>1, <3>2
  <2>3. CASE ServerCompletes
    <3>1. srvTurn \in Turn /\ srvTurn' = None /\ Notify(<<[t |-> "completed", turn |-> srvTurn]>>)
      BY <1>0, <2>3 DEF ServerCompletes, Types
    <3>2. \E m \in Message : Notify(<<m>>) /\ Effect(m) = srvTurn'
      BY <3>1 DEF Message, Effect
    <3> QED
      BY <2>1, <3>2
  <2>4. CASE ServerRefusesStart \/ (\E c \in Callers : ServerAnswersInterrupt(c)) \/ ClientFails
    BY <1>2, <2>4 DEF ServerRefusesStart, ServerAnswersInterrupt, ClientFails
  <2>5. ASSUME NEW t, NEW kind, ServerRepeats(t, kind) PROVE SlotFollows'
    BY <2>5 DEF ServerRepeats, SlotFollows
  <2> QED
    BY <1>5, <2>2, <2>3, <2>4, <2>5 DEF ServerStep
<1>6. ASSUME inbox # <<>>, inbox' = Tail(inbox), UNCHANGED <<srvTurn, repeating>>, ~repeating,
             pc["pump"] = "idle", Pending' = Effect(Head(inbox))
      PROVE  SlotFollows'
  <2>1. /\ inbox' = <<>> => Head(inbox) = inbox[Len(inbox)]
        /\ inbox' # <<>> => inbox'[Len(inbox')] = inbox[Len(inbox)]
    <3>1. /\ Len(inbox) \in Nat /\ Len(inbox) > 0 /\ inbox' \in Seq(Message)
          /\ Len(inbox') = Len(inbox) - 1 /\ Head(inbox) = inbox[1]
          /\ DOMAIN inbox' = 1..Len(inbox')
      BY <1>1, <1>6
    <3>2. \A p \in 1..(Len(inbox) - 1) : inbox'[p] = inbox[p + 1]
      BY <1>1, <1>6
    <3>3. inbox' = <<>> <=> Len(inbox') = 0
      BY <3>1
    <3>4. inbox' = <<>> => Len(inbox) = 1
      BY <3>1, <3>3
    <3>5. inbox' # <<>> => Len(inbox') \in 1..(Len(inbox) - 1) /\ Len(inbox') + 1 = Len(inbox)
      BY <3>1, <3>3
    <3> QED
      BY <3>1, <3>2, <3>4, <3>5
  <2>2. LastWord = srvTurn
    BY <1>0, <1>6 DEF SlotFollows
  <2> QED
    BY <1>6, <2>1, <2>2 DEF SlotFollows, LastWord, Effect
<1>7. CASE PumpStarted
  <2>1. CASE ~repeating
    <3>1. PICK k \in 0..Len(ended), e \in [DOMAIN inbox -> 0..Len(ended)] :
            Schedule(k, e) /\ StartsKnown(e)
      BY <1>0 DEF Delivery
    <3>2. CanActivate(Head(inbox).turn)
      BY <1>7, <2>1, <3>1, Activated
    <3>3. pc'["pump"] = "slot_started" /\ job'["pump"] = Head(inbox).turn
      BY <1>1, <1>7, <3>2 DEF PumpStarted, Goto
    <3>4. Pending' = Effect(Head(inbox))
      BY <1>7, <3>3 DEF Pending, Effect, PumpStarted
    <3> QED
      BY <1>6, <1>7, <2>1, <3>4 DEF PumpStarted
  <2> QED
    BY <1>7, <2>1 DEF PumpStarted, SlotFollows
<1>8. CASE PumpCompleted
  <2>1. pc'["pump"] = "slot_completed"
    BY <1>1, <1>8 DEF PumpCompleted, Goto
  <2>2. Pending' = Effect(Head(inbox))
    BY <1>8, <2>1 DEF Pending, Effect, PumpCompleted
  <2>3. CASE ~repeating
    BY <1>6, <1>8, <2>2, <2>3 DEF PumpCompleted
  <2> QED
    BY <1>8, <2>3 DEF PumpCompleted, SlotFollows
<1>9. CASE TurnStartedInSlot \/ TurnCompletedInSlot
  <2>1. /\ pc'["pump"] = "idle" /\ UNCHANGED <<inbox, srvTurn, repeating>>
        /\ \/ pc["pump"] = "slot_started" /\ slot' = job["pump"]
           \/ pc["pump"] = "slot_completed" /\ slot' = None
    BY <1>1, <1>9 DEF TurnStartedInSlot, TurnCompletedInSlot, Goto
  <2>2. Pending' = Pending
    BY <2>1 DEF Pending
  <2> QED
    BY <1>0, <2>1, <2>2 DEF SlotFollows, LastWord, Effect
<1>10. CASE PumpFails
  BY <1>1, <1>10 DEF PumpFails, Raise, Goto, SlotFollows
<1> QED
  BY <1>3, <1>4, <1>5, <1>7, <1>8, <1>9, <1>10 DEF TurnsStep, PumpStep

-----------------------------------------------------------------------------
(* TurnsInv is inductive, and every step of Runtime is one of Turns or     *)
(* leaves its variables alone.                                             *)
LEMMA TurnsInvInit == Init => TurnsInv
<1> SUFFICES ASSUME Init PROVE TurnsInv
  OBVIOUS
<1> USE DEF Init
<1>1. Types
  <2>1. rpc \in [Callers -> Rpc]
    BY RpcTypes
  <2>2. pc \in [Threads -> Labels] /\ job \in [Threads -> Turn \cup {None}]
    BY DEF Labels
  <2>3. ended \in Seq(Turn) /\ inbox \in Seq(Message) /\ completed \in Seq(Turn) /\ forwarded \in Seq(Turn)
    OBVIOUS
  <2> QED
    BY <2>1, <2>2, <2>3 DEF Types
<1>2. ServerLedger
  BY DEF ServerLedger
<1>3. Delivery
  <2>1. Len(ended) = 0 /\ Len(completed) = 0 /\ DOMAIN inbox = {}
    OBVIOUS
  <2>2. PICK e \in [DOMAIN inbox -> 0..Len(ended)] : e = [p \in DOMAIN inbox |-> 0]
    BY <2>1
  <2>3. Handled(0)
    BY <2>1, TurnsAssumption DEF Handled
  <2>4. Announced(0, e) /\ StartsKnown(e)
    BY <2>1 DEF Announced, StartsKnown
  <2>5. 0 \in 0..Len(ended) /\ Schedule(0, e) /\ StartsKnown(e)
    BY <2>1, <2>3, <2>4 DEF Schedule
  <2> HIDE DEF Init
  <2> QED
    BY <2>2, <2>5 DEF Delivery
<1>4. LedgerOpen /\ Claims /\ ForwardedOnce /\ NoRequestAfterFatal
  <2>1. DOMAIN forwarded = {} /\ pc["serial"] = "idle"
    BY DEF Threads, Callers
  <2> QED
    BY <2>1 DEF LedgerOpen, Claims, ForwardedOnce, NoRequestAfterFatal
<1>5. Starting /\ Interrupting
  BY DEF Starting, Interrupting, Threads, Callers, NoRpc, Nobody
<1>6. SlotFollows
  BY DEF SlotFollows, LastWord, Pending, Threads
<1> QED
  BY <1>1, <1>2, <1>3, <1>4, <1>5, <1>6 DEF TurnsInv

LEMMA TurnsInvStep == TurnsInv /\ (TurnsStep \/ UNCHANGED vars) => TurnsInv'
<1>1. ASSUME TurnsInv, TurnsStep PROVE TurnsInv'
  <2>1. Types'
    BY <1>1, TypesStep DEF TurnsInv
  <2> QED
    BY <1>1, <2>1, ServerLedgerStep, LedgerStep, StartingStep, InterruptingStep, ClaimsStep,
       NoRequestStep, SlotStep DEF TurnsInv
<1>2. ASSUME TurnsInv, UNCHANGED vars PROVE TurnsInv'
  <2>1. Delivery' /\ LedgerOpen'
    BY <1>2, SameLedger DEF vars, server, ledger, history, Undelivered
  <2>2. Types' /\ ServerLedger'
    BY <1>2 DEF TurnsInv, Types, ServerLedger, vars, server, ledger, device, history
  <2>3. Starting' /\ Interrupting'
    BY <1>2 DEF TurnsInv, Starting, Latest, Interrupting, vars, server, ledger
  <2>4. Claims' /\ ForwardedOnce' /\ NoRequestAfterFatal'
    BY <1>2 DEF TurnsInv, Claims, ForwardedOnce, NoRequestAfterFatal, vars, device, history
  <2>5. SlotFollows'
    BY <1>2 DEF TurnsInv, SlotFollows, LastWord, Pending, Effect, vars, server, device
  <2> QED
    BY <2>1, <2>2, <2>3, <2>4, <2>5 DEF TurnsInv
<1> QED
  BY <1>1, <1>2

LEMMA RuntimeStep ==
  ASSUME [RuntimeNext]_allVars
  PROVE  /\ TurnsStep \/ UNCHANGED vars
         /\ fatal => fatal'
<1> USE DEF server, ledger, device, history
<1>1. CASE Boot \/ OtherController \/ Ended \/ SerialExits \/ PumpExits \/ UNCHANGED allVars
  <2>1. UNCHANGED vars
    BY <1>1 DEF Boot, OtherController, Ended, SerialExits, PumpExits, allVars, ResolvePort, AcquireGuard,
       StartClient, StartThread, MakeSession, AwaitConnection, AwaitHello
  <2> QED
    BY <2>1 DEF vars
<1>2. CASE Cleanup /\ ~CloseClient
  <2>1. UNCHANGED vars
    BY <1>2 DEF Cleanup, ClosePump, CloseSession, JoinSession, Reap, JoinPump, ReleaseGuard
  <2> QED
    BY <2>1 DEF vars
<1>3. CASE CloseClient
  BY <1>3 DEF CloseClient, TurnsStep, FailAll
<1>4. CASE ServerRuns
  <2>1. ServerStep
    BY <1>4 DEF ServerRuns
  <2>2. fatal' = fatal \/ fatal' = TRUE
    BY <2>1 DEF ServerStep, ServerStarts, ServerCompletes, ServerRefusesStart,
       ServerAnswersInterrupt, ServerRepeats, ClientFails
  <2> QED
    BY <2>1, <2>2 DEF TurnsStep
<1>5. CASE MainRuns
  BY <1>5 DEF MainRuns, TurnsStep, MainStep, RunCommand, StartTurnBegin, StartTurnReturn, InterruptCommand,
     WaitCommand, WaitReturn, Quit, MainNoticesFailure, InterruptTurnBegin, InterruptTurnReturn
<1>6. CASE SerialRuns
  BY <1>6 DEF SerialRuns, TurnsStep, SerialStep, InterruptClaimed, InterruptTurnBegin, InterruptTurnReturn
<1>7. CASE PumpRuns
  BY <1>7 DEF PumpRuns, TurnsStep, PumpStep, PumpStarted, PumpCompleted, TurnStartedInSlot,
     TurnCompletedInSlot, PumpFails
<1> QED
  BY <1>1, <1>2, <1>3, <1>4, <1>5, <1>6, <1>7 DEF RuntimeNext, Cleanup

LEMMA StagesStep == Stages /\ [RuntimeNext]_allVars => Stages'
<1> SUFFICES ASSUME Stages, [RuntimeNext]_allVars PROVE Stages'
  OBVIOUS
<1>0. fatal => fatal'
  BY RuntimeStep
<1> USE DEF Stages, runtime, threads, flags
<1>1. CASE Boot
  BY <1>0, <1>1 DEF Boot, ResolvePort, AcquireGuard, StartClient, StartThread, MakeSession, StartLink,
     AwaitConnection, AwaitHello
<1>2. CASE Cleanup
  BY <1>0, <1>2 DEF Cleanup, ClosePump, CloseSession, JoinSession, CloseClient, Reap, JoinPump,
     ReleaseGuard
<1>3. CASE ServerRuns \/ MainRuns \/ SerialRuns
  BY <1>0, <1>3 DEF ServerRuns, MainRuns, SerialRuns
<1>4. CASE PumpRuns \/ PumpExits \/ SerialExits
  BY <1>0, <1>4 DEF PumpRuns, PumpExits, SerialExits
<1>5. CASE OtherController \/ Ended \/ UNCHANGED allVars
  BY <1>0, <1>5 DEF OtherController, Ended, allVars
<1> QED
  BY <1>1, <1>2, <1>3, <1>4, <1>5 DEF RuntimeNext

(* The inductive invariant of the whole runtime: types, what the server    *)
(* ended and what of it is still unread, the ledger, the slot, the claims, *)
(* the locks and the stages of the cleanup.                                *)
THEOREM RuntimeInvariant == RuntimeSpec => [](TurnsInv /\ Stages)
<1>1. RuntimeInit => TurnsInv /\ Stages
  BY TurnsInvInit DEF RuntimeInit, Stages
<1>2. (TurnsInv /\ Stages) /\ [RuntimeNext]_allVars => (TurnsInv /\ Stages)'
  BY TurnsInvStep, StagesStep, RuntimeStep
<1> QED
  BY <1>1, <1>2, PTL DEF RuntimeSpec

-----------------------------------------------------------------------------
(* A turn whose completion the pump has handled is never active again:     *)
(* neither turn/start's late response nor a repeated turn/started brings   *)
(* it back, since its tombstone outlives both.                             *)
THEOREM NeverReactivatedAlways == RuntimeSpec => []NeverReactivated
<1>1. TurnsInv => NeverReactivated
  BY DEF TurnsInv, LedgerOpen, NeverReactivated
<1> QED
  BY <1>1, RuntimeInvariant, PTL

(* From interrupt_turn's check to the return of its RPC the turn it names  *)
(* stays the active one.                                                   *)
THEOREM InterruptHoldsTurnAlways == RuntimeSpec => []InterruptHoldsTurn
<1>1. TurnsInv => InterruptHoldsTurn
  BY DEF TurnsInv, Interrupting, InterruptHoldsTurn
<1> QED
  BY <1>1, RuntimeInvariant, PTL

(* The device's interrupt of a turn is acknowledged at most once, also     *)
(* when earlier attempts failed and were withdrawn.                        *)
THEOREM ForwardedOnceAlways == RuntimeSpec => []ForwardedOnce
<1>1. TurnsInv => ForwardedOnce
  BY DEF TurnsInv
<1> QED
  BY <1>1, RuntimeInvariant, PTL

(* When the console finds no active turn, the server runs none, whatever   *)
(* notifications are still unread.                                         *)
THEOREM WaitIsTruthfulAlways == RuntimeSpec => []WaitIsTruthful
<1>1. TurnsInv => WaitIsTruthful
  BY DEF TurnsInv, LedgerOpen, Known, WaitIsTruthful
<1> QED
  BY <1>1, RuntimeInvariant, PTL

(* When every notification has been handled, slot 1 and the ledger agree   *)
(* with the server.                                                        *)
THEOREM SlotSettledAlways == RuntimeSpec => []SlotSettled
<1>1. ASSUME TurnsInv, ~repeating, inbox = <<>>, pc["pump"] = "idle", pc["main"] = "idle"
      PROVE  slot = active /\ active = srvTurn
  <2>1. slot = srvTurn
    BY <1>1 DEF TurnsInv, SlotFollows, LastWord, Pending
  <2>2. srvTurn # None => active = srvTurn
    BY <1>1 DEF TurnsInv, LedgerOpen, Known
  <2>3. ASSUME active # None PROVE active = srvTurn
    <3>1. PICK k \in 0..Len(ended), e \in [DOMAIN inbox -> 0..Len(ended)] : Schedule(k, e)
      BY <1>1 DEF TurnsInv, Delivery
    <3>2. k = Len(ended) /\ done = {ended[i] : i \in 1..k}
      BY <1>1, <3>1 DEF Schedule, Announced, Handled
    <3>3. DOMAIN ended = 1..Len(ended)
      BY <1>1 DEF TurnsInv, Types
    <3> QED
      BY <1>1, <2>3, <3>2, <3>3 DEF TurnsInv, LedgerOpen, ServerLedger
  <2> QED
    BY <2>1, <2>2, <2>3
<1>2. TurnsInv => SlotSettled
  BY <1>1 DEF SlotSettled
<1> QED
  BY <1>2, RuntimeInvariant, PTL

(* When the pump is joined its flag is set and no RPC is pending under the *)
(* turn lock it may be waiting for.                                        *)
THEOREM JoinIsShortAlways == RuntimeSpec => []JoinIsShort
<1>1. TurnsInv /\ Stages => JoinIsShort
  BY DEF TurnsInv, Types, NoRequestAfterFatal, Stages, JoinIsShort
<1> QED
  BY <1>1, RuntimeInvariant, PTL

(* The active turn is closed only by its own completion, by the pump or by *)
(* start_turn's check of the tombstones.                                   *)
LEMMA OnlyOwnStep ==
  ASSUME TurnsInv, TurnsStep, active # None, active' = None
  PROVE  active \in done'
<1> USE DEF server, ledger, device, history
<1>0. Types /\ Starting
  BY DEF TurnsInv
<1>1. CASE PumpStep
  <2>1. PumpStarted => active' = active \/ active' # None
    <3>1. inbox # <<>> => Head(inbox) \in Message
      BY <1>0 DEF Types
    <3>2. inbox # <<>> => Head(inbox).turn # None
      BY <3>1, TurnsAssumption DEF Message
    <3> QED
      BY <3>2 DEF PumpStarted
  <2> QED
    BY <1>1, <2>1 DEF PumpStep, PumpCompleted, MatchesActive, TurnStartedInSlot, TurnCompletedInSlot,
       PumpFails
<1>2. CASE MainStep
  <2>1. StartTurnReturn
    BY <1>2 DEF MainStep, RunCommand, StartTurnBegin, InterruptCommand, WaitCommand, WaitReturn, Quit,
       MainNoticesFailure, InterruptTurnBegin, InterruptTurnReturn
  <2>2. rpc["main"].kind = "start" /\ rpc["main"].status = "inProgress" /\ active = rpc["main"].turn
    BY <1>0, <2>1 DEF StartTurnReturn, Starting
  <2>3. Tombstoned(active) /\ done' = done
    BY <2>1, <2>2 DEF StartTurnReturn, CompletedEarly
  <2>4. Latest(active) /\ active \in Turn
    BY <1>0, <2>2 DEF Starting, Types, Latest
  <2> QED
    BY <2>3, <2>4, LatestUndone
<1>3. CASE SerialStep \/ ServerStep \/ FailAll
  BY <1>0, <1>3, Frames
<1> QED
  BY <1>1, <1>2, <1>3 DEF TurnsStep

(* A step that leaves no turn active has handled the completion of the one *)
(* that was: a late completion of an old turn does not close a newer one.  *)
THEOREM OnlyOwnCompletionClosesAlways == RuntimeSpec => OnlyOwnCompletionCloses
<1>1. TurnsInv /\ [RuntimeNext]_allVars => [active # None /\ active' = None => active \in done']_vars
  <2> SUFFICES ASSUME TurnsInv, [RuntimeNext]_allVars
               PROVE  [active # None /\ active' = None => active \in done']_vars
    OBVIOUS
  <2>1. TurnsStep \/ UNCHANGED vars
    BY RuntimeStep
  <2> QED
    BY <2>1, OnlyOwnStep
<1> QED
  BY <1>1, RuntimeInvariant, PTL DEF RuntimeSpec, OnlyOwnCompletionCloses
=============================================================================
