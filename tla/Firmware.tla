------------------------------ MODULE Firmware ------------------------------
(***************************************************************************)
(* The device: ControllerState (firmware/src/controller_state.cpp), what   *)
(* the dispatcher does with a fresh line (device_link.cpp), and the loop   *)
(* with its keys, button and transmit queue (main.cpp).                    *)
(*                                                                         *)
(* One iteration of loop() is Tick, any number of lines (ReadSerial takes  *)
(* 256 bytes), UpdateLink, HandleKeyboard, HandleInterrupt, RetryHello and *)
(* Drain.  millis() is `Clock', the true time modulo ClockSize (2^32 in    *)
(* the firmware); `now' is only used by properties.  Old and malformed     *)
(* lines, which change nothing here, are left to DeviceLink.               *)
(***************************************************************************)
EXTENDS Naturals, Sequences, FiniteSets

CONSTANTS
  Ids,          \* device approval ids
  NoId,         \* no approval
  Lines,        \* display lines of each approval's text
  Complete,     \* ids with complete content and normal risk: accept offered
  SlotCount,    \* kSlotCount
  Turn, None,   \* turn ids, no turn
  ClockSize,    \* 2^32: range of millis()
  GuardMs, StaleMs, HoldMs, HelloRetryMs, VisibleLines, TxDepth,
  MaxTime,      \* bound: true time
  Ticks,        \* possible durations of an iteration
  KeyEvents,    \* keys that may be down together: number keys, other keys
  ButtonLevels  \* {FALSE} when the button is left alone

ASSUME FirmwareAssumption ==
  /\ NoId \notin Ids /\ Lines \in [Ids -> Nat] /\ Complete \subseteq Ids
  /\ SlotCount \in Nat \ {0}
  /\ None \notin Turn
  /\ ClockSize \in Nat \ {0} /\ GuardMs \in Nat /\ StaleMs \in Nat /\ HoldMs \in Nat
  /\ HelloRetryMs \in Nat /\ VisibleLines \in Nat \ {0} /\ TxDepth \in Nat \ {0}
  /\ MaxTime \in Nat /\ Ticks \subseteq Nat
  /\ \A e \in KeyEvents :
       e.slots \subseteq 1..SlotCount /\ e.keys \subseteq {"j", "k", "0", "a", "d", "enter"}
  /\ ButtonLevels \subseteq BOOLEAN

VARIABLES
  now,       \* true time
  phase,     \* position in loop()
  link,      \* session set, protocol_ok_, receive_seen_, last_receive_ms_, link_state_
  service,   \* service_state_ is Ready
  focus,     \* selected_slot_
  turns,     \* slots_: the active turn of each slot
  approval,  \* approval_
  tx,        \* TxQueue
  lastHello, \* last_hello_ms
  button,    \* BtnA pressed, button_down_ms, interrupt_latched
  shown,     \* history of the shown approval: since when, lines reached
             \* by scrolling, decisions
  heard,     \* history: true time of the last valid line
  pressed    \* history of the press: since when, interrupts sent for it

view == <<service, focus, turns>>
history == <<shown, heard, pressed>>
vars == <<now, phase, link, view, approval, tx, lastHello, button, history>>

Slots == 1..SlotCount

Clock == now % ClockSize

(* Unsigned 32-bit subtraction.                                            *)
Elapsed(since) == (Clock + ClockSize - since) % ClockSize

Smaller(a, b) == IF a < b THEN a ELSE b

Larger(a, b) == IF a < b THEN b ELSE a

NoApproval == [id |-> NoId, sending |-> FALSE, accept |-> FALSE, decline |-> FALSE,
               bodyEnd |-> FALSE, scroll |-> 0, shownAt |-> 0, choice |-> "hold"]
NothingShown == [since |-> 0, reached |-> 0, decisions |-> 0]

(* What the loop enqueues.                                                 *)
Hello == [t |-> "hello"]
Pong == [t |-> "pong"]
Select(slot) == [t |-> "select", slot |-> slot]
Interrupt(slot, turn) == [t |-> "interrupt", slot |-> slot, turn |-> turn]
Decision(choice, id) == [t |-> choice, id |-> id]

(* Mutant: the link state is not looked at.                                *)
CanSendAlsoStale == link.protocolOk /\ service

(* can_send                                                                *)
CanSend == link.protocolOk /\ link.up /\ service

(* TxQueue::enqueue: a full queue refuses.                                 *)
HasRoom(q) == Len(q) < TxDepth
Enqueue(q, msg) == IF HasRoom(q) THEN Append(q, msg) ELSE q

Goto(label) == phase' = label

-----------------------------------------------------------------------------
Tick(d) ==
  /\ phase = "idle" /\ now + d <= MaxTime
  /\ now' = now + d
  /\ Goto("read")
  /\ UNCHANGED <<link, view, approval, tx, lastHello, button, history>>

(* Lines.  note_receive marks the link active.                             *)
NoteReceive(l) == [l EXCEPT !.lastReceive = Clock, !.received = TRUE, !.up = TRUE]

Receiving == phase = "read" /\ link.session /\ link.protocolOk

(* A hello of a new session clears the approval; of the same session it    *)
(* only counts as received.                                                *)
ReceiveHello(new) ==
  /\ phase = "read" /\ (~new => link.session)
  /\ link' = NoteReceive([link EXCEPT !.session = TRUE, !.protocolOk = TRUE])
  /\ heard' = now
  /\ IF new THEN service' = FALSE /\ approval' = NoApproval /\ shown' = NothingShown
            ELSE UNCHANGED <<service, approval, shown>>
  /\ UNCHANGED <<now, phase, focus, turns, tx, lastHello, button, pressed>>

(* A hello with another protocol version locks the device.                 *)
ReceiveBadHello ==
  /\ phase = "read"
  /\ link' = [link EXCEPT !.protocolOk = FALSE, !.up = FALSE]
  /\ service' = FALSE
  /\ UNCHANGED <<now, phase, focus, turns, approval, tx, lastHello, button, history>>

ReceiveState(ready, selected, active) ==
  /\ Receiving
  /\ link' = NoteReceive(link) /\ heard' = now
  /\ service' = ready /\ focus' = selected /\ turns' = active
  /\ UNCHANGED <<now, phase, approval, tx, lastHello, button, shown, pressed>>

MaxScroll(id) == IF Lines[id] > VisibleLines THEN Lines[id] - VisibleLines ELSE 0

Offered(id, sending) ==
  [NoApproval EXCEPT !.id = id, !.sending = sending,
     !.accept = ~sending /\ id \in Complete, !.decline = ~sending,
     !.bodyEnd = Lines[id] <= VisibleLines, !.shownAt = Clock]

(* Mutant: the host's flag overwrites the local one.                       *)
UpdatedFromHost(next) ==
  [next EXCEPT !.shownAt = approval.shownAt, !.scroll = approval.scroll,
     !.bodyEnd = approval.bodyEnd \/ next.bodyEnd, !.choice = approval.choice]

(* apply_approval for the id on display: guard, scroll position, end of    *)
(* body and local sending survive, and the choice if still offered.        *)
Updated(next) ==
  [next EXCEPT !.sending = next.sending \/ approval.sending,
     !.shownAt = approval.shownAt,
     !.scroll = Smaller(approval.scroll, MaxScroll(next.id)),
     !.bodyEnd = approval.bodyEnd \/ next.bodyEnd,
     !.choice = IF \/ approval.choice = "accept" /\ next.accept
                   \/ approval.choice = "decline" /\ next.decline
                THEN approval.choice ELSE "hold"]

ReceiveApproval(id, sending) ==
  /\ Receiving
  /\ link' = NoteReceive(link) /\ heard' = now
  /\ \/ /\ approval.id = id
        /\ approval' = Updated(Offered(id, sending))
        /\ UNCHANGED shown
     \/ /\ approval.id # id
        /\ approval' = Offered(id, sending)
        /\ shown' = [since |-> now, reached |-> Smaller(VisibleLines, Lines[id]),
                     decisions |-> 0]
  /\ UNCHANGED <<now, phase, view, tx, lastHello, button, pressed>>

ReceiveResolved(id) ==
  /\ Receiving
  /\ link' = NoteReceive(link) /\ heard' = now
  /\ IF approval.id = id THEN approval' = NoApproval /\ shown' = NothingShown
                         ELSE UNCHANGED <<approval, shown>>
  /\ UNCHANGED <<now, phase, view, tx, lastHello, button, pressed>>

ReceivePing ==
  /\ Receiving
  /\ link' = NoteReceive(link) /\ heard' = now
  /\ tx' = Enqueue(tx, Pong)
  /\ UNCHANGED <<now, phase, view, approval, lastHello, button, shown, pressed>>

-----------------------------------------------------------------------------
UpdateLink ==
  /\ phase = "read"
  /\ link' = [link EXCEPT !.up = link.received /\ Elapsed(link.lastReceive) <= StaleMs]
  /\ Goto("keys")
  /\ UNCHANGED <<now, view, approval, tx, lastHello, button, history>>

(* scroll_approval                                                         *)
Scrolled(a, delta) ==
  LET at == IF delta = "down" THEN Smaller(a.scroll + 1, MaxScroll(a.id))
            ELSE IF a.scroll = 0 THEN 0 ELSE a.scroll - 1 IN
  IF Lines[a.id] = 0 THEN a
  ELSE [a EXCEPT !.scroll = at, !.bodyEnd = @ \/ at + VisibleLines >= Lines[a.id]]

(* set_approval_choice                                                     *)
Chosen(a, c) ==
  IF (c = "accept" => a.accept) /\ (c = "decline" => a.decline)
  THEN [a EXCEPT !.choice = c] ELSE a

(* The last line on display at a scroll position.                          *)
LastVisible(a) == Smaller(a.scroll + VisibleLines, Lines[a.id])

(* What the keys of one event do to the approval before Enter: j, k, 0, a, *)
(* d, in this order.                                                       *)
Keyed(keys) ==
  LET a1 == IF "j" \in keys THEN Scrolled(approval, "down") ELSE approval
      a2 == IF "k" \in keys THEN Scrolled(a1, "up") ELSE a1
      a3 == IF "0" \in keys THEN Chosen(a2, "hold") ELSE a2
      a4 == IF "a" \in keys THEN Chosen(a3, "accept") ELSE a3
  IN IF "d" \in keys THEN Chosen(a4, "decline") ELSE a4

(* Mutant: the guard compares times instead of a difference.               *)
GuardOverOverflowing(a) == Clock >= (a.shownAt + GuardMs) % ClockSize

GuardOver(a) == Elapsed(a.shownAt) >= GuardMs

AcceptAllowed(a) == CanSend /\ ~a.sending /\ a.accept /\ a.bodyEnd /\ GuardOver(a)

DeclineAllowed(a) == CanSend /\ ~a.sending /\ a.decline

Decides(a) ==
  \/ a.choice = "accept" /\ AcceptAllowed(a)
  \/ a.choice = "decline" /\ DeclineAllowed(a)

(* The number keys of one event, in increasing order.                      *)
SelectKeys(pressedSlots) ==
  LET Key(i) == CHOOSE s \in pressedSlots :
                  Cardinality({o \in pressedSlots : o < s}) = i - 1
  IN [i \in 1..Cardinality(pressedSlots) |-> Select(Key(i))]

(* Number keys move the focus and tell the host if that is possible and    *)
(* the queue has room; then the approval's keys; then Enter.               *)
HandleKeyboard(slotKeys, keys) ==
  /\ phase = "keys"
  /\ focus' = IF slotKeys = {} THEN focus
              ELSE CHOOSE s \in slotKeys : \A o \in slotKeys : o <= s
  /\ LET selects == SelectKeys(slotKeys)
         q == IF CanSend THEN tx \o SubSeq(selects, 1, Smaller(Len(selects), TxDepth - Len(tx)))
                         ELSE tx
         a == Keyed(keys)
     IN \/ /\ approval.id = NoId
           /\ tx' = q
           /\ UNCHANGED <<approval, shown>>
        \/ /\ approval.id # NoId
           /\ LET sends == "enter" \in keys /\ Decides(a) /\ HasRoom(q) IN
              /\ tx' = IF sends THEN Append(q, Decision(a.choice, a.id)) ELSE q
              /\ approval' = [a EXCEPT !.sending = @ \/ sends]
              /\ shown' = [shown EXCEPT
                    !.reached = IF "j" \in keys
                                THEN Larger(@, LastVisible(Scrolled(approval, "down"))) ELSE @,
                    !.decisions = IF sends THEN @ + 1 ELSE @]
  /\ Goto("button")
  /\ UNCHANGED <<now, link, service, turns, lastHello, button, heard, pressed>>

(* Mutant: the latch is not set when the interrupt goes out.               *)
LatchedNever(b) == FALSE

Latched(b) == b.latched

(* The button is held for 500 ms; one interrupt per press, and none for a  *)
(* press during which it was not allowed.  button_down_ms is not read until *)
(* the next press sets it, so it is forgotten with the release.            *)
HandleInterrupt(down) ==
  /\ phase = "button"
  /\ LET b == CASE down /\ ~button.down -> [down |-> TRUE, downAt |-> Clock, latched |-> FALSE]
              [] ~down /\ button.down -> [down |-> FALSE, downAt |-> 0, latched |-> FALSE]
              [] OTHER -> button
         fires == b.down /\ ~Latched(b) /\ Elapsed(b.downAt) >= HoldMs
         sends == fires /\ CanSend /\ turns[focus] # None /\ HasRoom(tx)
     IN /\ button' = [b EXCEPT !.latched = @ \/ fires]
        /\ tx' = IF sends THEN Append(tx, Interrupt(focus, turns[focus]))
                          ELSE tx
        /\ pressed' = [since |-> IF ~down THEN 0 ELSE IF button.down THEN pressed.since ELSE now,
                       sent |-> (IF down /\ button.down THEN pressed.sent ELSE 0)
                                + (IF sends THEN 1 ELSE 0)]
  /\ Goto("hello")
  /\ UNCHANGED <<now, link, view, approval, lastHello, shown, heard>>

RetryHello ==
  /\ phase = "hello"
  /\ IF ~link.up /\ Elapsed(lastHello) >= HelloRetryMs /\ HasRoom(tx)
     THEN tx' = Append(tx, Hello) /\ lastHello' = Clock
     ELSE UNCHANGED <<tx, lastHello>>
  /\ Goto("drain")
  /\ UNCHANGED <<now, link, view, approval, button, history>>

(* One write per iteration: the frame at the head leaves completely or is  *)
(* kept for the next iteration.                                            *)
Drain ==
  /\ phase = "drain"
  /\ \/ tx # <<>> /\ tx' = Tail(tx)
     \/ UNCHANGED tx
  /\ Goto("idle")
  /\ UNCHANGED <<now, link, view, approval, lastHello, button, history>>

-----------------------------------------------------------------------------
(* setup(): a hello is queued at once.                                     *)
Init ==
  /\ now = 0 /\ phase = "read"
  /\ link = [session |-> FALSE, protocolOk |-> TRUE, received |-> FALSE,
             lastReceive |-> 0, up |-> FALSE]
  /\ service = FALSE /\ focus = 1 /\ turns = [s \in Slots |-> None]
  /\ approval = NoApproval
  /\ tx = <<Hello>> /\ lastHello = 0
  /\ button = [down |-> FALSE, downAt |-> 0, latched |-> FALSE]
  /\ shown = NothingShown /\ heard = 0 /\ pressed = [since |-> 0, sent |-> 0]

ReadSerial ==
  \/ \E new \in BOOLEAN : ReceiveHello(new)
  \/ ReceiveBadHello
  \/ \E ready \in BOOLEAN, s \in Slots, active \in [Slots -> Turn \cup {None}] :
       ReceiveState(ready, s, active)
  \/ \E id \in Ids, sending \in BOOLEAN : ReceiveApproval(id, sending)
  \/ \E id \in Ids : ReceiveResolved(id)
  \/ ReceivePing

(* The end of a bounded run; the loop itself never stops.                  *)
TimeBoundReached == phase = "idle" /\ (\A d \in Ticks : now + d > MaxTime) /\ UNCHANGED vars

Next ==
  \/ \E d \in Ticks : Tick(d)
  \/ ReadSerial \/ UpdateLink
  \/ \E e \in KeyEvents : HandleKeyboard(e.slots, e.keys)
  \/ \E down \in ButtonLevels : HandleInterrupt(down)
  \/ RetryHello \/ Drain \/ TimeBoundReached

Spec == Init /\ [][Next]_vars

-----------------------------------------------------------------------------
(* Properties.                                                             *)

(* The message of type t that the step puts into the queue.                *)
Sends(t) == Len(tx') > Len(tx) /\ tx'[Len(tx')].t = t

(* safety.md items 1, 2 and 7 for accept, across updates of the same id    *)
(* and clock wrap: the approval has been on display for the guard time,    *)
(* every line of it has been scrolled into view, and its content is        *)
(* complete and of normal risk.                                            *)
AcceptGuarded ==
  [][Sends("accept") =>
       /\ now - shown.since >= GuardMs
       /\ shown'.reached >= Lines[approval.id]
       /\ approval.id \in Complete]_vars

(* A shown approval is decided at most once, however often the host        *)
(* repeats it and the user presses Enter.                                  *)
DecidedOnce == shown.decisions <= 1 /\ (shown.decisions = 1 => approval.sending)

(* One press gives at most one interrupt, and not before the button was    *)
(* held for the hold time.                                                 *)
InterruptDeliberate ==
  /\ pressed.sent <= 1
  /\ pressed.sent = 1 => now - pressed.since >= HoldMs

(* Decisions and interrupts are queued only on a working protocol, link    *)
(* and service, the link having heard a line within the stale time (clock  *)
(* wrap excluded: after it update_link takes an old line for a new one).   *)
QueuedWhileUp ==
  [][Sends("accept") \/ Sends("decline") \/ Sends("interrupt") \/ Sends("select")
       => link.session /\ link.protocolOk /\ (now < ClockSize => now - heard <= StaleMs)]_vars
=============================================================================
