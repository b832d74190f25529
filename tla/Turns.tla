------------------------------- MODULE Turns -------------------------------
(***************************************************************************)
(* Turns of the controller's thread: AppServerOperations                   *)
(* (app_server/operations.py) and slot 1 of ControllerState                *)
(* (controller/state.py), as used by the console loop ("main"), the event  *)
(* pump ("pump") and the serial thread ("serial").                         *)
(*                                                                         *)
(* An RPC is a request in `rpc', which the app-server answers; the answer  *)
(* is delivered to the caller, while notifications go through `inbox' to   *)
(* the pump, so the two overtake each other.  `turnLock' is _turn_lock: a  *)
(* short critical section is one step that needs it free; interrupt_turn   *)
(* keeps it until its RPC returns.                                         *)
(***************************************************************************)
EXTENDS Naturals, Sequences, FiniteSets

CONSTANTS
  Turn,            \* turn ids
  None,            \* no turn
  TombstoneLimit,  \* _COMPLETED_TOMBSTONE_LIMIT
  MaxInbox         \* bound: unread notifications

ASSUME TurnsAssumption ==
  /\ None \notin Turn
  /\ TombstoneLimit \in Nat \ {0}
  /\ MaxInbox \in Nat

VARIABLES
  srvTurn,     \* the turn the app-server is running
  used,        \* turns the app-server has started
  ended,       \* turns the app-server has ended, in order
  repeating,   \* is this a server that repeats notifications of earlier turns?
  inbox,       \* notifications waiting for the pump
  rpc,         \* for main and serial: the request in flight and its answer
  fatal,       \* AppServerClient._fatal_error is set
  active,      \* _active_turns of the controller's thread
  starting,    \* is the thread in _starting_threads?
  completed,   \* _completed_turn_order; _completed_turns has the same members
  turnLock,    \* holder of _turn_lock across an RPC
  slot,        \* ControllerState: slot 1's turn_id
  interrupted, \* ControllerState._interrupted_turns
  pc, job,     \* what each thread is doing, and the turn it does it to
  done,        \* history: turns whose completion the pump has handled
  forwarded    \* history: turns whose device interrupt was acknowledged

server == <<srvTurn, used, ended, repeating>>
ledger == <<active, starting, completed>>
device == <<slot, interrupted>>
history == <<done, forwarded>>
vars == <<server, inbox, rpc, fatal, ledger, turnLock, device, pc, job, history>>

Callers == {"main", "serial"}
Threads == Callers \cup {"pump"}
Nobody == "nobody"

NoRpc == [kind |-> "none", turn |-> None, status |-> "none"]

Tombstoned(t) == \E i \in DOMAIN completed : completed[i] = t

Goto(t, label, turn) ==
  /\ pc' = [pc EXCEPT ![t] = label]
  /\ job' = [job EXCEPT ![t] = turn]

(* An exception ends the console loop; the serial thread drops the link,   *)
(* reconnects and goes on.                                                 *)
Raise(t) == Goto(t, IF t = "serial" THEN "idle" ELSE "dead", None)

-----------------------------------------------------------------------------
(* The app-server (external).                                              *)

Notify(ns) ==
  /\ Len(inbox) + Len(ns) <= MaxInbox
  /\ inbox' = inbox \o ns

(* turn/start: the turn runs, or has already ended when the response is    *)
(* written.                                                                *)
ServerStarts(t) ==
  /\ rpc["main"].kind = "start" /\ rpc["main"].status = "sent"
  /\ srvTurn = None /\ t \notin used
  /\ used' = used \cup {t}
  /\ \/ /\ srvTurn' = t /\ UNCHANGED ended
        /\ rpc' = [rpc EXCEPT !["main"].turn = t, !["main"].status = "inProgress"]
        /\ Notify(<<[t |-> "started", turn |-> t]>>)
     \/ /\ srvTurn' = None /\ ended' = Append(ended, t)
        /\ rpc' = [rpc EXCEPT !["main"].turn = t, !["main"].status = "finished"]
        /\ Notify(<<[t |-> "completed", turn |-> t]>>)
  /\ UNCHANGED <<repeating, fatal, ledger, turnLock, device, pc, job, history>>

ServerCompletes ==
  /\ srvTurn # None
  /\ srvTurn' = None /\ ended' = Append(ended, srvTurn)
  /\ Notify(<<[t |-> "completed", turn |-> srvTurn]>>)
  /\ UNCHANGED <<used, repeating, rpc, fatal, ledger, turnLock, device, pc, job, history>>

(* turn/interrupt is acknowledged while the turn runs and refused after.   *)
ServerAnswersInterrupt(c) ==
  /\ rpc[c].kind = "interrupt" /\ rpc[c].status = "sent"
  /\ rpc' = [rpc EXCEPT ![c].status = IF rpc[c].turn = srvTurn THEN "ok" ELSE "error"]
  /\ UNCHANGED <<server, inbox, fatal, ledger, turnLock, device, pc, job, history>>

ServerRefusesStart ==
  /\ rpc["main"].kind = "start" /\ rpc["main"].status = "sent"
  /\ rpc' = [rpc EXCEPT !["main"].status = "error"]
  /\ UNCHANGED <<server, inbox, fatal, ledger, turnLock, device, pc, job, history>>

(* A notification of the running turn or of one of the last turns is       *)
(* repeated; how late is bounded by what the tombstones can tell.          *)
Repeatable(t) ==
  t = srvTurn \/ \E i \in DOMAIN ended : ended[i] = t /\ Len(ended) - i < TombstoneLimit

ServerRepeats(t, kind) ==
  /\ repeating /\ Repeatable(t) /\ (kind = "completed" => t # srvTurn)
  /\ Notify(<<[t |-> kind, turn |-> t]>>)
  /\ UNCHANGED <<server, rpc, fatal, ledger, turnLock, device, pc, job, history>>

(* The client fails: the server exited, or an RPC timed out.               *)
ClientFails ==
  /\ ~fatal /\ fatal' = TRUE
  /\ rpc' = [c \in Callers |->
               IF rpc[c].status = "sent" THEN [rpc[c] EXCEPT !.status = "error"] ELSE rpc[c]]
  /\ UNCHANGED <<server, inbox, ledger, turnLock, device, pc, job, history>>

-----------------------------------------------------------------------------
(* Console loop.                                                           *)

(* "run <text>": the active turn is looked up first ...                    *)
RunCommand ==
  /\ pc["main"] = "idle" /\ turnLock = Nobody
  /\ active = None
  /\ Goto("main", "start", None)
  /\ UNCHANGED <<server, inbox, rpc, fatal, ledger, turnLock, device, history>>

(* ... and checked again by start_turn, which then sends the request.      *)
StartTurnBegin ==
  /\ pc["main"] = "start" /\ turnLock = Nobody
  /\ \/ /\ ~starting /\ active = None /\ ~fatal
        /\ starting' = TRUE
        /\ rpc' = [rpc EXCEPT !["main"] = [NoRpc EXCEPT !.kind = "start", !.status = "sent"]]
        /\ Goto("main", "start_wait", None)
     \/ /\ starting \/ active # None \/ fatal
        /\ Raise("main")
        /\ UNCHANGED <<starting, rpc>>
  /\ UNCHANGED <<server, inbox, fatal, active, completed, turnLock, device, history>>

(* Mutant: a completion that came first is forgotten.                      *)
CompletedEarlyIgnored(t) == FALSE

CompletedEarly(t) == Tombstoned(t)

StartTurnReturn ==
  /\ pc["main"] = "start_wait" /\ rpc["main"].status # "sent" /\ turnLock = Nobody
  /\ starting' = FALSE
  /\ rpc' = [rpc EXCEPT !["main"] = NoRpc]
  /\ LET t == rpc["main"].turn IN
     \/ /\ rpc["main"].status = "error"
        /\ Raise("main")
        /\ UNCHANGED active
     \/ /\ rpc["main"].status \in {"inProgress", "finished"}
        /\ active' = IF rpc["main"].status = "inProgress" /\ ~CompletedEarly(t)
                     THEN t ELSE None
        /\ Goto("main", "idle", None)
  /\ UNCHANGED <<server, inbox, fatal, completed, turnLock, device, history>>

(* "interrupt": the active turn is looked up, then interrupt_turn runs.    *)
InterruptCommand ==
  /\ pc["main"] = "idle" /\ turnLock = Nobody
  /\ active # None
  /\ Goto("main", "interrupt", active)
  /\ UNCHANGED <<server, inbox, rpc, fatal, ledger, turnLock, device, history>>

(* "wait": the active turn is polled under the lock until there is none;   *)
(* a pending approval or question, or the deadline, ends it early.         *)
WaitCommand ==
  /\ pc["main"] = "idle" /\ turnLock = Nobody
  /\ active # None
  /\ Goto("main", "wait", None)
  /\ UNCHANGED <<server, inbox, rpc, fatal, ledger, turnLock, device, history>>

WaitReturn ==
  /\ pc["main"] = "wait" /\ turnLock = Nobody
  /\ Goto("main", "idle", None)
  /\ UNCHANGED <<server, inbox, rpc, fatal, ledger, turnLock, device, history>>

(* "quit", or the end of the input, ends the loop, also with a turn active.*)
Quit ==
  /\ pc["main"] = "idle"
  /\ Goto("main", "stopped", None)
  /\ UNCHANGED <<server, inbox, rpc, fatal, ledger, turnLock, device, history>>

(* raise_if_failed at the top of both loops.                               *)
MainNoticesFailure ==
  /\ pc["main"] \in {"idle", "wait"} /\ pc["pump"] = "dead"
  /\ Raise("main")
  /\ UNCHANGED <<server, inbox, rpc, fatal, ledger, turnLock, device, history>>

-----------------------------------------------------------------------------
(* interrupt_turn, for the console and for the device.                     *)

(* Mutant: the check and the RPC are not one critical section.             *)
TakeTurnLockNot(c) == UNCHANGED turnLock

TakeTurnLock(c) == turnLock' = c


(* Mutant: every press is forwarded.                                       *)
AlreadyInterruptedNever(t) == FALSE

AlreadyInterrupted(t) == t \in interrupted

(* interrupt_claimed: the device names its slot's turn, once.  Link and    *)
(* service are up; slot 1 is selected.                                     *)
InterruptClaimed(t) ==
  /\ pc["serial"] = "idle"
  /\ slot = t
  /\ ~AlreadyInterrupted(t)
  /\ interrupted' = interrupted \cup {t}
  /\ Goto("serial", "interrupt", t)
  /\ UNCHANGED <<server, inbox, rpc, fatal, ledger, turnLock, slot, history>>

InterruptTurnBegin(c) ==
  /\ pc[c] = "interrupt" /\ turnLock = Nobody
  /\ LET t == job[c] IN
     \/ /\ active = t /\ ~fatal
        /\ TakeTurnLock(c)
        /\ rpc' = [rpc EXCEPT ![c] = [kind |-> "interrupt", turn |-> t, status |-> "sent"]]
        /\ Goto(c, "interrupt_wait", t)
        /\ UNCHANGED interrupted
     \/ /\ active # t \/ fatal                    \* ActiveTurnRequiredError
        /\ Raise(c)
        /\ interrupted' = IF c = "serial" THEN interrupted \ {t} ELSE interrupted
        /\ UNCHANGED <<rpc, turnLock>>
  /\ UNCHANGED <<server, inbox, fatal, ledger, slot, history>>

InterruptTurnReturn(c) ==
  /\ pc[c] = "interrupt_wait" /\ rpc[c].status # "sent"
  /\ turnLock' = Nobody
  /\ rpc' = [rpc EXCEPT ![c] = NoRpc]
  /\ \/ /\ rpc[c].status = "ok"
        /\ Goto(c, "idle", None)
        /\ forwarded' = IF c = "serial" THEN Append(forwarded, job[c]) ELSE forwarded
        /\ UNCHANGED interrupted
     \/ /\ rpc[c].status = "error"
        /\ Raise(c)
        /\ interrupted' = IF c = "serial" THEN interrupted \ {job[c]} ELSE interrupted
        /\ UNCHANGED forwarded
  /\ UNCHANGED <<server, inbox, fatal, ledger, slot, done>>

-----------------------------------------------------------------------------
(* Event pump: the ledger under _turn_lock, then the slot.                 *)

(* Mutant: tombstones are not consulted.                                   *)
CanActivateAgain(t) == starting \/ active \in {None, t}

CanActivate(t) == (starting \/ active \in {None, t}) /\ ~Tombstoned(t)

PumpStarted ==
  /\ pc["pump"] = "idle" /\ inbox # <<>> /\ Head(inbox).t = "started" /\ turnLock = Nobody
  /\ inbox' = Tail(inbox)
  /\ LET t == Head(inbox).turn IN
     \/ /\ CanActivate(t)
        /\ active' = t
        /\ Goto("pump", "slot_started", t)
     \/ /\ ~CanActivate(t)
        /\ UNCHANGED <<active, pc, job>>
  /\ UNCHANGED <<server, rpc, fatal, starting, completed, turnLock, device, history>>

TurnStartedInSlot ==
  /\ pc["pump"] = "slot_started"
  /\ slot' = job["pump"]
  /\ Goto("pump", "idle", None)
  /\ UNCHANGED <<server, inbox, rpc, fatal, ledger, turnLock, interrupted, history>>

RememberCompleted(t) ==
  IF Tombstoned(t) THEN completed
  ELSE Append(IF Len(completed) >= TombstoneLimit THEN Tail(completed) ELSE completed, t)

(* Mutant: any completion closes the active turn.                          *)
MatchesAlways(t) == TRUE

(* Mutant: the active turn is never closed.                                *)
MatchesNever(t) == FALSE

MatchesActive(t) == active = t

PumpCompleted ==
  /\ pc["pump"] = "idle" /\ inbox # <<>> /\ Head(inbox).t = "completed" /\ turnLock = Nobody
  /\ inbox' = Tail(inbox)
  /\ LET t == Head(inbox).turn IN
     /\ completed' = RememberCompleted(t)
     /\ active' = IF MatchesActive(t) THEN None ELSE active
     /\ done' = done \cup {t}
     /\ Goto("pump", "slot_completed", t)
  /\ UNCHANGED <<server, rpc, fatal, starting, turnLock, device, forwarded>>

(* Mutant: the slot keeps its turn.                                        *)
TurnCompletedInSlotKept ==
  /\ pc["pump"] = "slot_completed"
  /\ Goto("pump", "idle", None)
  /\ UNCHANGED <<server, inbox, rpc, fatal, ledger, turnLock, device, history>>

TurnCompletedInSlot ==
  /\ pc["pump"] = "slot_completed"
  /\ slot' = None
  /\ Goto("pump", "idle", None)
  /\ UNCHANGED <<server, inbox, rpc, fatal, ledger, turnLock, interrupted, history>>

PumpFails ==
  /\ pc["pump"] = "idle" /\ fatal
  /\ Raise("pump")
  /\ UNCHANGED <<server, inbox, rpc, fatal, ledger, turnLock, device, history>>

-----------------------------------------------------------------------------
Init ==
  /\ srvTurn = None /\ used = {} /\ ended = <<>> /\ repeating \in BOOLEAN /\ inbox = <<>>
  /\ rpc = [c \in Callers |-> NoRpc] /\ fatal = FALSE
  /\ active = None /\ starting = FALSE /\ completed = <<>> /\ turnLock = Nobody
  /\ slot = None /\ interrupted = {}
  /\ pc = [t \in Threads |-> "idle"] /\ job = [t \in Threads |-> None]
  /\ done = {} /\ forwarded = <<>>

ServerStep ==
  \/ \E t \in Turn : ServerStarts(t)
  \/ ServerCompletes \/ ServerRefusesStart
  \/ \E c \in Callers : ServerAnswersInterrupt(c)
  \/ \E t \in Turn, kind \in {"started", "completed"} : ServerRepeats(t, kind)
  \/ ClientFails

MainStep ==
  \/ RunCommand \/ StartTurnBegin \/ StartTurnReturn
  \/ InterruptCommand \/ InterruptTurnBegin("main") \/ InterruptTurnReturn("main")
  \/ WaitCommand \/ WaitReturn \/ Quit \/ MainNoticesFailure

SerialStep ==
  \/ \E t \in Turn : InterruptClaimed(t)
  \/ InterruptTurnBegin("serial") \/ InterruptTurnReturn("serial")

PumpStep ==
  PumpStarted \/ TurnStartedInSlot \/ PumpCompleted \/ TurnCompletedInSlot \/ PumpFails

(* Runtime.tla adds the start-up and the cleanup around these steps.       *)
-----------------------------------------------------------------------------
(* Properties.                                                             *)

(* operations doc: a turn whose completion was handled never becomes       *)
(* active again, even when turn/start's response or a repeated turn/started*)
(* is handled after it.                                                    *)
NeverReactivated == active \notin done

(* operations doc: a late completion of an old turn does not close a newer *)
(* active turn.                                                            *)
OnlyOwnCompletionCloses ==
  [][active # None /\ active' = None => active \in done']_vars

(* From its check to the end of its RPC an interrupt is about the turn the *)
(* ledger holds active: no notification slips in between.                  *)
InterruptHoldsTurn ==
  \A c \in Callers : pc[c] = "interrupt_wait" => active = job[c] /\ turnLock = c

(* A turn's device interrupt is acknowledged at most once, however often   *)
(* the device repeats it and whatever errors lie in between.               *)
ForwardedOnce ==
  \A i, j \in DOMAIN forwarded : i # j => forwarded[i] # forwarded[j]

(* When everything the server said has been handled, the slot shown to the *)
(* device has the ledger's active turn, and that is the server's.          *)
SlotSettled ==
  (/\ ~repeating /\ inbox = <<>> /\ ~fatal
   /\ pc["pump"] = "idle" /\ pc["main"] = "idle")
  => slot = active /\ active = srvTurn

(* "turn_wait PASS" is true: when the console finds no active turn, the    *)
(* server is running none, whatever is still unread.                       *)
WaitIsTruthful ==
  (/\ pc["main"] \in {"idle", "wait"} /\ active = None /\ ~fatal)
  => srvTurn = None

(* A turn that has ended leaves ledger and slot, although the pump must    *)
(* wait for an interrupt's RPC; unless the client or the console loop ends.*)
CompletionApplied ==
  \A t \in Turn :
    (t \in {active, slot} /\ t # srvTurn) ~>
      (t \notin {active, slot} \/ fatal \/ pc["main"] \in {"stopped", "dead"})
=============================================================================
