------------------------------ MODULE Bringup ------------------------------
(***************************************************************************)
(* The M1 bring-up: BringupSession and run_bringup (device_link/bringup.py)*)
(* with the serial thread that runs the session's callbacks, the wire, and *)
(* the diagnostic firmware (bringup_main.cpp, bringup_protocol.cpp).       *)
(*                                                                         *)
(* The script runs on the main thread.  A call (echo or ping) takes its    *)
(* number under _lock and is written later, after _lock was released; the  *)
(* serial thread numbers its periodic ping inside the write lock.          *)
(*                                                                         *)
(* Abstractions.  A session id is the number of its connection: token_hex  *)
(* gives a fresh one.  _request_id is not kept beside _host_sequence: once *)
(* the hello is out, one is taken whenever the other is.  _last_heap is set*)
(* and cleared with the heartbeat event, _stale_silence_ms with the stale  *)
(* event ("late" marks a silence over six seconds), and _host_output_paused*)
(* with _stale_measurement_active.  Deadlines may expire at any time.      *)
(***************************************************************************)
EXTENDS Naturals, Sequences

CONSTANTS
  Iterations,     \* echoes of measure_throughput
  MaxConnections, \* bound: times the port is opened
  MaxPinged,      \* bound: sequence number up to which the serial thread pings
  MaxWire         \* bound: frames on the wire in one direction

ASSUME BringupAssumption ==
  /\ Iterations \in Nat /\ MaxConnections \in Nat
  /\ MaxPinged \in Nat /\ MaxWire \in Nat

VARIABLES
  at, pc,       \* the script's step, and where the main thread is in it
  call,         \* the call under way: its type, connection and number
  done,         \* its waiter's event is set
  result,       \* how run_bringup ended
  port,         \* what the serial thread is doing
  connection,   \* _generation, and with it _session
  seq,          \* _host_sequence
  helloSent,    \* _hello_sent
  failure,      \* is there a _failure?
  events,       \* the events that are set
  waiters,      \* _echo_waiters and _ping_waiters
  measuring,    \* _stale_measurement_active
  h2d, d2h,     \* frames on the wire
  linked,       \* firmware: linked
  gate,         \* firmware: HostSessionGate
  g0,           \* firmware: G0Tracker
  answered      \* history: the device has answered the call under way

script == <<at, pc, call, done, result>>
session == <<seq, helloSent, failure, events, waiters, measuring>>
serial == <<port, connection>>
firmware == <<linked, gate, g0>>
vars == <<script, session, serial, h2d, d2h, firmware, answered>>

Frame(t, c, n) == [t |-> t, c |-> c, n |-> n]
NoCall == Frame("none", 0, 0)
Torn == Frame("torn", 0, 0)    \* the beginning of a line
Plain(t) == Frame(t, 0, 0)     \* a frame without a session or an id

(* measure_throughput                                                      *)
Throughput == [i \in 1..Iterations |-> "echo"]

Script ==
  <<"connected", "ready", "echo", "echo", "ping">> \o Throughput
    \o <<"heartbeat", "digit", "short", "long", "begin", "stale">>

Step == Script[at]
Stop == result # "running"
Active == port \in {"opened", "reading"}
Waiting(step, where) == ~Stop /\ Step = step /\ pc = where

-----------------------------------------------------------------------------
(* Main thread: run_bringup and the calls it makes.                        *)

Pass ==
  /\ pc' = "enter"
  /\ IF at = Len(Script) THEN result' = "passed" /\ UNCHANGED at
                         ELSE at' = at + 1 /\ UNCHANGED result

Raise == result' = "failed" /\ UNCHANGED <<at, pc>>

WaitConnected ==
  /\ Waiting("connected", "enter")
  /\ \/ Active /\ Pass
     \/ ~Active /\ Raise
  /\ UNCHANGED <<call, done, session, serial, h2d, d2h, firmware, answered>>

(* _wait for the events of the session.                                    *)
WaitEvent ==
  /\ \E s \in {"ready", "heartbeat", "digit", "short", "long", "stale"} : Waiting(s, "enter")
  /\ \/ /\ ~failure /\ Step \in events
        /\ IF Step \in {"heartbeat", "stale"}
             THEN pc' = "read" /\ UNCHANGED <<at, result>>
             ELSE Pass
     \/ failure /\ Raise
     \/ Step \notin events /\ Raise
  /\ UNCHANGED <<call, done, session, serial, h2d, d2h, firmware, answered>>

(* What was measured is read after the wait; a connection made in between  *)
(* has cleared it.                                                         *)
ReadMeasurement ==
  /\ Waiting("heartbeat", "read") \/ Waiting("stale", "read")
  /\ \/ Step \in events /\ (Step = "stale" => "late" \notin events) /\ Pass
     \/ (failure \/ Step \notin events \/ "late" \in events) /\ Raise
  /\ UNCHANGED <<call, done, session, serial, h2d, d2h, firmware, answered>>

RequireReady == ~failure /\ "ready" \in events

BeginCall(t) ==
  /\ Waiting(t, "enter")
  /\ \/ /\ RequireReady
        /\ seq' = seq + 1
        /\ call' = Frame(t, connection, seq + 1)
        /\ waiters' = waiters \cup {<<t, seq + 1>>}
        /\ done' = FALSE /\ answered' = FALSE
        /\ pc' = "send"
        /\ UNCHANGED <<at, result>>
     \/ ~RequireReady /\ Raise /\ UNCHANGED <<seq, call, waiters, done, answered>>
  /\ UNCHANGED <<helloSent, failure, events, measuring, serial, h2d, d2h, firmware>>

(* SerialLink.send: nothing is written on a dropped link; a write may raise.*)
SendCall(t) ==
  /\ Waiting(t, "send")
  /\ \/ /\ Active /\ Len(h2d) < MaxWire
        /\ h2d' = Append(h2d, call)
        /\ pc' = "wait"
        /\ UNCHANGED <<at, result, waiters>>
     \/ Active /\ Raise /\ UNCHANGED <<h2d, waiters>>
     \/ ~Active /\ Raise /\ waiters' = waiters \ {<<t, call.n>>} /\ UNCHANGED h2d
  /\ UNCHANGED <<call, done, seq, helloSent, failure, events, measuring,
                 serial, d2h, firmware, answered>>

WaitCall(t) ==
  /\ Waiting(t, "wait")
  /\ \/ ~failure /\ done /\ Pass /\ waiters' = waiters \ {<<t, call.n>>}
     \/ (failure \/ ~done) /\ Raise /\ UNCHANGED waiters
  /\ UNCHANGED <<call, done, seq, helloSent, failure, events, measuring,
                 serial, h2d, d2h, firmware, answered>>

Call(t) == BeginCall(t) \/ SendCall(t) \/ WaitCall(t)

Echo == Call("echo")
Ping == Call("ping")

BeginStaleMeasurement ==
  /\ Waiting("begin", "enter")
  /\ \/ /\ RequireReady /\ Pass
        /\ events' = events \ {"stale", "late"}
        /\ measuring' = TRUE
     \/ ~RequireReady /\ Raise /\ UNCHANGED <<events, measuring>>
  /\ UNCHANGED <<call, done, seq, helloSent, failure, waiters, serial, h2d, d2h,
                 firmware, answered>>

-----------------------------------------------------------------------------
(* Serial thread.                                                          *)

(* What the device wrote while nobody listened may or may not be kept.     *)
Open ==
  /\ port = "closed" /\ ~Stop /\ connection < MaxConnections
  /\ port' = "opened"
  /\ d2h' \in {d2h, <<>>}
  /\ UNCHANGED <<script, session, connection, h2d, firmware, answered>>

(* Mutant: waiters of the previous connection are kept.                    *)
NewWaitersKept == waiters

NewWaiters == {}

(* Mutant: the stale report of the previous connection is not cleared.     *)
NewEventsKept == events \cap {"stale", "late"}

NewEvents == {}

OnConnected ==
  /\ port = "opened"
  /\ port' = "reading"
  /\ connection' = connection + 1
  /\ seq' = 0
  /\ helloSent' = FALSE
  /\ events' = NewEvents
  /\ measuring' = FALSE
  /\ waiters' = NewWaiters
  /\ UNCHANGED <<script, failure, h2d, d2h, firmware, answered>>

AnswersHello == ~helloSent

ReplyToHello ==
  \/ /\ AnswersHello /\ Len(h2d) < MaxWire
     /\ seq' = seq + 1
     /\ helloSent' = TRUE
     /\ h2d' = Append(h2d, Frame("hello", connection, seq + 1))
     /\ UNCHANGED <<failure, events, waiters, measuring, done>>
  \/ ~AnswersHello /\ UNCHANGED <<session, h2d, done>>

(* Mutant: a ready is taken whichever session it names.                    *)
OwnReadyAny(m) == TRUE

OwnReady(m) == m.c = connection

ReceiveReady(m) ==
  /\ IF OwnReady(m) THEN events' = events \cup {"ready"} /\ UNCHANGED failure
                    ELSE failure' = TRUE /\ UNCHANGED events
  /\ UNCHANGED <<seq, helloSent, waiters, measuring, h2d, done>>

(* The answer to a call; a damaged echo has another length or checksum.    *)
ReceiveAnswer(m, t) ==
  /\ IF <<t, m.n>> \in waiters
       THEN /\ done' = (done \/ (m.t # "damaged" /\ <<t, m.n>> = <<call.t, call.n>>))
            /\ failure' = (failure \/ m.t = "damaged")
       ELSE UNCHANGED <<done, failure>>
  /\ UNCHANGED <<seq, helloSent, events, waiters, measuring, h2d>>

Sets(es) ==
  /\ events' = events \cup es
  /\ UNCHANGED <<seq, helloSent, failure, waiters, measuring, h2d, done>>

(* A stale report counts during a measurement and ends the readiness.      *)
ReceiveStale(es) ==
  /\ events' = IF measuring /\ "ready" \in events
                 THEN (events \ {"ready"}) \cup es ELSE events
  /\ UNCHANGED <<seq, helloSent, failure, waiters, measuring, h2d, done>>

OnMessage(m) ==
  \/ m.t = "hello" /\ ReplyToHello
  \/ m.t = "ready" /\ ReceiveReady(m)
  \/ m.t \in {"echo", "damaged"} /\ ReceiveAnswer(m, "echo")
  \/ m.t = "pong" /\ ReceiveAnswer(m, "ping")
  \/ m.t \in {"heartbeat", "digit", "short", "long"} /\ Sets({m.t})
  \/ m.t \in {"key", "press", "release"} /\ Sets({})
  \/ m.t = "stale" /\ ReceiveStale({"stale"})
  \/ m.t = "late" /\ ReceiveStale({"stale", "late"})
  \/ m.t = "error" /\ failure' = TRUE
     /\ UNCHANGED <<seq, helloSent, events, waiters, measuring, h2d, done>>

Read ==
  /\ port = "reading" /\ ~Stop /\ d2h # <<>>
  /\ OnMessage(Head(d2h))
  /\ d2h' = Tail(d2h)
  /\ UNCHANGED <<at, pc, call, result, serial, firmware, answered>>

(* Numbered and written under the write lock.                              *)
PeriodicPing ==
  /\ port = "reading" /\ ~Stop /\ "ready" \in events /\ ~measuring
  /\ seq < MaxPinged /\ Len(h2d) < MaxWire
  /\ seq' = seq + 1
  /\ h2d' = Append(h2d, Frame("ping", connection, seq + 1))
  /\ UNCHANGED <<script, helloSent, failure, events, waiters, measuring,
                 serial, d2h, firmware, answered>>

(* Frames on their way may be lost with a connection, the last one of them *)
(* in the middle.                                                          *)
Disconnect ==
  /\ port = "reading"
  /\ port' = "dropped"
  /\ \E n \in 0..Len(h2d) :
       \/ h2d' = SubSeq(h2d, 1, n)
       \/ n < Len(h2d) /\ h2d' = Append(SubSeq(h2d, 1, n), Torn)
  /\ UNCHANGED <<script, session, connection, firmware, answered>>

(* An I/O error, silence or the stop.                                      *)
Drop == Disconnect /\ UNCHANGED d2h

(* A damaged line raises in the decoder.                                   *)
RefuseLine == d2h # <<>> /\ Disconnect /\ d2h' = Tail(d2h)

OnStale ==
  /\ port = "dropped"
  /\ port' = "closed"
  /\ events' = events \ {"ready"}
  /\ UNCHANGED <<script, seq, helloSent, failure, waiters, measuring, connection,
                 h2d, d2h, firmware, answered>>

Exit ==
  /\ port = "closed" /\ Stop
  /\ port' = "stopped"
  /\ UNCHANGED <<script, session, connection, h2d, d2h, firmware, answered>>

-----------------------------------------------------------------------------
(* Firmware.                                                               *)

Say(m) == Len(d2h) < MaxWire /\ d2h' = Append(d2h, m)

Ready(c) == Frame("ready", c, 0)
Error == Plain("error")

(* HostSessionGate: only the hello of another session starts over.         *)
GateLast(m) == IF m.t = "hello" /\ m.c # gate.c THEN 0 ELSE gate.n
Accepts(m) == m.n > GateLast(m)
Passed(m) == [c |-> IF m.t = "hello" THEN m.c ELSE gate.c, n |-> m.n]

HandleHello(m) ==
  /\ m.t = "hello" /\ Accepts(m)
  /\ gate' = Passed(m)
  /\ linked' = TRUE
  /\ Say(Ready(m.c))
  /\ UNCHANGED answered

(* Bytes of a long line may be lost: the echo then tells another length.   *)
HandleEcho(m) ==
  /\ m.t = "echo" /\ linked /\ Accepts(m)
  /\ gate' = Passed(m)
  /\ \E t \in {"echo", "damaged"} :
       /\ Say(Frame(t, 0, m.n))
       /\ answered' = (answered \/ (t = "echo" /\ m = call))
  /\ UNCHANGED linked

HandlePing(m) ==
  /\ m.t = "ping" /\ linked /\ Accepts(m)
  /\ gate' = Passed(m)
  /\ Say(Frame("pong", 0, m.n))
  /\ answered' = (answered \/ m = call)
  /\ UNCHANGED linked

Ignored(m) ==
  /\ m.t # "torn"
  /\ ~Accepts(m) \/ (m.t # "hello" /\ ~linked)
  /\ UNCHANGED <<gate, linked, d2h, answered>>

ProcessLine ==
  /\ h2d # <<>>
  /\ LET m == Head(h2d) IN HandleHello(m) \/ HandleEcho(m) \/ HandlePing(m) \/ Ignored(m)
  /\ h2d' = Tail(h2d)
  /\ UNCHANGED <<script, session, serial, g0>>

(* A torn line and the frame glued to it are no JSON.                      *)
ProcessGarbled ==
  /\ Len(h2d) > 1 /\ Head(h2d) = Torn
  /\ Say(Error)
  /\ h2d' = SubSeq(h2d, IF h2d[2] = Torn THEN 2 ELSE 3, Len(h2d))
  /\ UNCHANGED <<script, session, serial, firmware, answered>>

SendHello ==
  /\ ~linked
  /\ Say(Plain("hello"))
  /\ UNCHANGED <<script, session, serial, h2d, firmware, answered>>

SendHeartbeat ==
  /\ linked
  /\ Say(Plain("heartbeat"))
  /\ UNCHANGED <<script, session, serial, h2d, firmware, answered>>

SendStale ==
  /\ linked
  /\ linked' = FALSE
  /\ \E t \in {"stale", "late"} : Say(Plain(t))
  /\ UNCHANGED <<script, session, serial, h2d, gate, g0, answered>>

(* Bound: the user waits for the prompt.                                   *)
Prompted(steps) == Step \in steps

HandleKeyboard ==
  /\ Prompted({"digit"})
  /\ \E t \in {"digit", "key"} : Say(Plain(t))
  /\ UNCHANGED <<script, session, serial, h2d, firmware, answered>>

(* G0Tracker.update: up, down, and down with the long press reported.      *)
Tracker == {<<"up", "down", "press">>, <<"down", "up", "short">>,
            <<"down", "held", "long">>, <<"held", "up", "release">>}

HandleG0 ==
  /\ Prompted({"short", "long"}) \/ g0 = "held"
  /\ \E next \in {"up", "down", "held"}, t \in {"press", "short", "long", "release"} :
       <<g0, next, t>> \in Tracker /\ g0' = next /\ Say(Plain(t))
  /\ UNCHANGED <<script, session, serial, h2d, linked, gate, answered>>

(* A reset takes the USB port away; the restarted firmware says hello.     *)
Restart ==
  /\ port = "closed"
  /\ linked' = FALSE
  /\ gate' = [c |-> 0, n |-> 0]
  /\ g0' = "up"
  /\ h2d' = <<>>
  /\ d2h' = <<Plain("hello")>>
  /\ UNCHANGED <<script, session, serial, answered>>

-----------------------------------------------------------------------------
Init ==
  /\ at = 1 /\ pc = "enter" /\ call = NoCall /\ done = FALSE /\ result = "running"
  /\ port = "closed" /\ connection = 0
  /\ seq = 0 /\ helloSent = FALSE /\ failure = FALSE
  /\ events = {} /\ waiters = {} /\ measuring = FALSE
  /\ h2d = <<>> /\ d2h = <<Plain("hello")>>
  /\ linked = FALSE /\ gate = [c |-> 0, n |-> 0] /\ g0 = "up"
  /\ answered = FALSE

Main ==
  \/ WaitConnected \/ WaitEvent \/ ReadMeasurement
  \/ Echo \/ Ping \/ BeginStaleMeasurement

Device ==
  \/ ProcessLine \/ ProcessGarbled \/ SendHello \/ SendHeartbeat \/ SendStale
  \/ HandleKeyboard \/ HandleG0 \/ Restart

(* Bound: what the device does after the run has no reader.                *)
DeviceRuns == ~Stop /\ Device

Ended == port = "stopped" /\ UNCHANGED vars

Next ==
  \/ Main \/ DeviceRuns \/ Ended
  \/ Open \/ OnConnected \/ Read \/ PeriodicPing \/ Drop \/ RefuseLine \/ OnStale \/ Exit

Spec == Init /\ [][Next]_vars

-----------------------------------------------------------------------------
(* Properties.                                                             *)

(* A measurement is of the call it is reported for: when the waiter of a   *)
(* call is released, the device has answered this very call, undamaged.    *)
(* Numbers start over with every connection, and answers and calls of the  *)
(* previous one may still be under way.                                    *)
OwnAnswer == done => answered

(* While the link is up and the session ready, the device has accepted the *)
(* hello of this connection, whatever it wrote before it.                  *)
ReadyIsMutual ==
  port = "reading" /\ "ready" \in events => gate.c = connection

(* docs/m1/cardputer-bringup.md: neither a hello nor a restart counts as   *)
(* evidence of staleness.  When the measurement has its evidence, the      *)
(* device was in this connection's session and has left it for good.       *)
StaleIsEvidence ==
  port = "reading" /\ "stale" \in events => gate.c = connection /\ ~linked

(* docs/m1/cardputer-bringup.md: messages carry increasing numbers.        *)
NumbersIncrease ==
  \A i, j \in DOMAIN h2d :
    i < j /\ h2d[i] # Torn /\ h2d[j] # Torn /\ h2d[i].c = h2d[j].c
      => h2d[i].n < h2d[j].n
=============================================================================
