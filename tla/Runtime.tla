------------------------------ MODULE Runtime ------------------------------
(***************************************************************************)
(* The life of run_controller (controller/runtime.py) around the steps of  *)
(* Turns, inside the instance guard (controller/instance_guard.py), a file *)
(* lock that another controller process competes for: the app-server       *)
(* client, the serial link's thread and the event pump are started one     *)
(* after the other, each start may raise, and one finally clause takes     *)
(* down whatever there is, in its own order, while the threads may be in   *)
(* the middle of an operation or wait for a lock.                          *)
(***************************************************************************)
EXTENDS Turns

VARIABLES
  guard,     \* the process that holds the lock file
  stage,     \* where run_controller is
  made,      \* are there a session and a pump object?
  client,    \* the app-server process and the client's threads
  link,      \* the serial link's thread
  pump,      \* the event pump's thread
  stopLink,  \* SerialLink._stop
  stopPump   \* _EventPump._stop

threads == <<client, link, pump>>
flags == <<stopLink, stopPump>>
runtime == <<guard, stage, made, threads, flags>>
allVars == <<vars, runtime>>

-----------------------------------------------------------------------------
(* The port is resolved first, then the instance guard is taken.           *)

ResolvePort ==
  /\ stage = "port"
  /\ stage' \in {"guard", "ended"}
  /\ UNCHANGED <<vars, guard, made, threads, flags>>

(* LOCK_EX with LOCK_NB.                                                   *)
LockFree == guard = Nobody

AcquireGuard ==
  /\ stage = "guard"
  /\ \/ LockFree /\ guard' = "us" /\ stage' = "client"
     \/ stage' = "ended" /\ UNCHANGED guard     \* already running, or no file
  /\ UNCHANGED <<vars, made, threads, flags>>

Unlock == guard' = Nobody

(* __exit__, after run_controller has returned or raised.                  *)
ReleaseGuard ==
  /\ stage = "release"
  /\ stage' = "ended"
  /\ Unlock
  /\ UNCHANGED <<vars, made, threads, flags>>

(* Another process does the same.                                          *)
OtherController ==
  /\ \/ LockFree /\ guard' = "other"
     \/ guard = "other" /\ guard' = Nobody
  /\ UNCHANGED <<vars, stage, made, threads, flags>>

-----------------------------------------------------------------------------
(* Start-up.  A step that raises goes to the finally clause.               *)

StartClient ==
  /\ stage = "client"
  /\ \/ client' = "alive" /\ stage' = "thread"
     \/ client' = "alive" /\ stage' = "close_pump"      \* initialize fails
     \/ client' = "absent" /\ stage' = "close_pump"     \* no process
  /\ UNCHANGED <<vars, guard, made, link, pump, flags>>

(* thread/start                                                            *)
StartThread ==
  /\ stage = "thread"
  /\ stage' \in {"session", "close_pump"}
  /\ UNCHANGED <<vars, guard, made, threads, flags>>

StartLink == link' = "alive"

(* Session and pump are made, and the session is started.                  *)
MakeSession ==
  /\ stage = "session"
  /\ stage' = "connect"
  /\ made' = TRUE
  /\ StartLink
  /\ UNCHANGED <<vars, guard, client, pump, flags>>

AwaitConnection ==
  /\ stage = "connect"
  /\ stage' \in {"hello", "close_pump"}
  /\ UNCHANGED <<vars, guard, made, threads, flags>>

AwaitHello ==
  /\ stage = "hello"
  /\ \/ stage' = "console" /\ pump' = "alive"
     \/ stage' = "close_pump" /\ UNCHANGED pump
  /\ UNCHANGED <<vars, guard, made, client, link, flags>>

-----------------------------------------------------------------------------
(* The steps of Turns, taken by threads that exist.                        *)

ServerRuns ==
  /\ client = "alive"
  /\ ServerStep
  /\ UNCHANGED runtime

MainRuns ==
  /\ stage = "console"
  /\ MainStep
  /\ stage' = IF pc'["main"] \in {"stopped", "dead"} THEN "close_pump" ELSE stage
  /\ UNCHANGED <<guard, made, threads, flags>>

(* A thread tests its stop flag when it is back in its loop.               *)
Leaves(stop, label) == stop /\ label = "idle"

SerialRuns ==
  /\ link = "alive"
  /\ SerialStep
  /\ link' = IF Leaves(stopLink, pc'["serial"]) THEN "gone" ELSE link
  /\ UNCHANGED <<guard, stage, made, client, pump, flags>>

SerialExits ==
  /\ link = "alive" /\ Leaves(stopLink, pc["serial"])
  /\ link' = "gone"
  /\ UNCHANGED <<vars, guard, stage, made, client, pump, flags>>

PumpRuns ==
  /\ pump = "alive"
  /\ PumpStep
  /\ pump' = IF pc'["pump"] = "dead" \/ Leaves(stopPump, pc'["pump"]) THEN "gone" ELSE pump
  /\ UNCHANGED <<guard, stage, made, client, link, flags>>

PumpExits ==
  /\ pump = "alive" /\ Leaves(stopPump, pc["pump"])
  /\ pump' = "gone"
  /\ UNCHANGED <<vars, guard, stage, made, client, link, flags>>

-----------------------------------------------------------------------------
(* The finally clause.                                                     *)

ClosePump ==
  /\ stage = "close_pump"
  /\ stage' = "close_session"
  /\ stopPump' = made
  /\ UNCHANGED <<vars, guard, made, threads, stopLink>>

(* Mutant: the session is not closed.                                      *)
StopLinkNever == FALSE

StopLink == made

CloseSession ==
  /\ stage = "close_session"
  /\ stage' = "join_session"
  /\ stopLink' = StopLink
  /\ UNCHANGED <<vars, guard, made, threads, stopPump>>

(* Both joins of the link's thread are timed: it may outlive them.         *)
JoinSession ==
  /\ stage = "join_session"
  /\ stage' = "close_client"
  /\ UNCHANGED <<vars, guard, made, threads, flags>>

(* Mutant: requests under way are left to their timeout.                   *)
FailPendingNot(c) == rpc[c]

FailPending(c) ==
  IF rpc[c].status = "sent" THEN [rpc[c] EXCEPT !.status = "error"] ELSE rpc[c]

(* client.close fails the pending requests and closes stdin ...            *)
CloseClient ==
  /\ stage = "close_client"
  /\ stage' = "reap"
  /\ fatal' = TRUE
  /\ rpc' = [c \in Callers |-> FailPending(c)]
  /\ UNCHANGED <<server, inbox, ledger, turnLock, device, pc, job, history,
                 guard, made, threads, flags>>

(* ... and returns when the process has exited or was killed.              *)
Reap ==
  /\ stage = "reap"
  /\ stage' = "join_pump"
  /\ client' = IF client = "alive" THEN "gone" ELSE client
  /\ UNCHANGED <<vars, guard, made, link, pump, flags>>

(* The join of the pump: RuntimeError after two seconds is JoinIsShort's   *)
(* subject.                                                                *)
JoinPump ==
  /\ stage = "join_pump" /\ pump # "alive"
  /\ stage' = "release"
  /\ UNCHANGED <<vars, guard, made, threads, flags>>

-----------------------------------------------------------------------------
RuntimeInit ==
  /\ Init
  /\ guard \in {Nobody, "other"}
  /\ stage = "port" /\ made = FALSE
  /\ client = "absent" /\ link = "absent" /\ pump = "absent"
  /\ stopLink = FALSE /\ stopPump = FALSE

Boot ==
  \/ ResolvePort \/ AcquireGuard
  \/ StartClient \/ StartThread \/ MakeSession \/ AwaitConnection \/ AwaitHello

Cleanup ==
  ClosePump \/ CloseSession \/ JoinSession \/ CloseClient \/ Reap \/ JoinPump
    \/ ReleaseGuard

Ended == stage = "ended" /\ link # "alive" /\ UNCHANGED allVars

RuntimeNext ==
  \/ Boot \/ Cleanup \/ Ended \/ OtherController
  \/ ServerRuns \/ MainRuns
  \/ SerialRuns \/ SerialExits \/ PumpRuns \/ PumpExits

RuntimeSpec == RuntimeInit /\ [][RuntimeNext]_allVars

(* Every wait of the main thread is timed or for a lock, except for the    *)
(* user's next command; the serial thread and the pump go on and get the   *)
(* turn lock in the end; an RPC is answered or times out.                  *)
RuntimeFairness ==
  /\ WF_allVars(Boot \/ Cleanup)
  /\ SF_allVars(MainRuns /\ pc["main"] # "idle")
  /\ SF_allVars(PumpRuns \/ PumpExits)
  /\ SF_allVars(link = "alive" /\ (InterruptTurnBegin("serial") \/ InterruptTurnReturn("serial"))
                /\ SerialRuns)
  /\ SF_allVars(SerialExits)
  /\ WF_allVars(ServerRuns /\ (ServerRefusesStart \/ \E c \in Callers : ServerAnswersInterrupt(c)))

FairRuntimeSpec == RuntimeSpec /\ RuntimeFairness

-----------------------------------------------------------------------------
(* Properties.                                                             *)

(* pump.join's two seconds are enough: by then the flag is set and no RPC, *)
(* whose timeout is 30 seconds, is pending with the turn lock the pump may *)
(* be waiting for.                                                         *)
JoinIsShort ==
  stage = "join_pump" =>
    /\ pump = "alive" => stopPump
    /\ turnLock # Nobody => rpc[turnLock].status # "sent"

(* However far the start-up came, whatever was going on and whether a turn *)
(* was active: once the finally clause is entered, it ends, and with it    *)
(* every thread and the app-server; the next controller can start.         *)
EverythingStops ==
  stage = "close_pump" ~>
    (/\ stage = "ended" /\ guard # "us"
     /\ client # "alive" /\ link # "alive" /\ pump # "alive")
=============================================================================
