--------------------------- MODULE BringupProofs ---------------------------
(***************************************************************************)
(* Theorems about Bringup, for any number of connections, pings and echoes *)
(* and a wire of any length: a released waiter was answered, readiness is  *)
(* mutual, and stale evidence comes from the device leaving the session.   *)
(***************************************************************************)
EXTENDS Bringup, TLAPS

Kinds == {"none", "torn", "hello", "ready", "echo", "damaged", "ping", "pong",
          "heartbeat", "digit", "key", "short", "long", "press", "release",
          "stale", "late", "error"}

Frames == [t : Kinds, c : Nat, n : Nat]

Types ==
  /\ pc \in {"enter", "read", "send", "wait"}
  /\ call \in Frames
  /\ done \in BOOLEAN /\ answered \in BOOLEAN
  /\ port \in {"closed", "opened", "reading", "dropped", "stopped"}
  /\ connection \in Nat /\ seq \in Nat
  /\ helloSent \in BOOLEAN /\ linked \in BOOLEAN
  /\ h2d \in Seq(Frames) /\ d2h \in Seq(Frames)
  /\ gate \in [c : Nat, n : Nat]

(* The port is open and the connection has its session.                    *)
Live == port \in {"reading", "dropped"}

(* A call of an earlier connection whose waiter is gone unanswered: it can *)
(* only time out.                                                          *)
Stuck == pc = "wait" /\ waiters = {} /\ ~done /\ call.c # connection

(* The device is in this connection's session; Fresh frames were written   *)
(* in it, Joined when the host has read its ready.                         *)
Fresh(j) ==
  gate.c = connection /\ \A k \in DOMAIN d2h : k > j => d2h[k] # Ready(connection)

Joined ==
  gate.c = connection /\ \A k \in DOMAIN d2h : d2h[k] # Ready(connection)

(* Sessions go up along the wire, and a connection has one hello.          *)
Greetings ==
  /\ gate.c <= connection
  /\ gate.c = connection /\ connection > 0 => helloSent
  /\ port = "reading" => connection > 0
  /\ \A i \in DOMAIN h2d : h2d[i].t = "hello" =>
       /\ gate.c < h2d[i].c
       /\ h2d[i].c = connection => helloSent
  /\ \A i, j \in DOMAIN h2d :
       i < j /\ h2d[i].t = "hello" /\ h2d[j].t = "hello" => h2d[i].c < h2d[j].c

(* A number is taken once in a connection.                                 *)
Numbers ==
  /\ call.c <= connection
  /\ call.c = connection => call.n <= seq
  /\ \A i \in DOMAIN h2d : h2d[i].t # "torn" =>
       /\ h2d[i].c <= connection
       /\ h2d[i].n > 0
       /\ h2d[i].c = connection => h2d[i].n <= seq
       /\ call.c = connection /\ h2d[i].c = connection /\ h2d[i].n = call.n => h2d[i] = call
       /\ pc = "send" => h2d[i] # call

(* Behind a connection's hello, a frame of an earlier one is a call that   *)
(* was written too late.                                                   *)
Late ==
  \A i \in DOMAIN h2d :
    /\ h2d[i].t # "torn" /\ h2d[i].c # connection
    /\ \/ gate.c = connection
       \/ \E k \in DOMAIN h2d : k < i /\ h2d[k].t = "hello" /\ h2d[k].c = connection
    => Stuck

(* The device's readies go up as well; readiness is read in the session.   *)
Readiness ==
  /\ \A j \in DOMAIN d2h : d2h[j].t = "ready" => d2h[j].c <= gate.c /\ d2h[j].n = 0
  /\ \A i, j \in DOMAIN d2h :
       i < j /\ d2h[i].t = "ready" /\ d2h[j].t = "ready" => d2h[i].c < d2h[j].c
  /\ "ready" \in events => Live /\ Joined

(* A device that reported staleness in this session has left it.           *)
Leaving ==
  /\ \A j \in DOMAIN d2h : d2h[j].t \in {"stale", "late"} /\ Fresh(j) => ~linked
  /\ Live /\ "stale" \in events => gate.c = connection /\ ~linked

(* The call under way and its waiter.                                      *)
Waits ==
  /\ pc \in {"send", "wait"} => 
       call.t = Step /\ call.t \in {"echo", "ping"} /\ call.n > 0
  /\ waiters \subseteq {<<call.t, call.n>>}
  /\ waiters # {} => call.c = connection /\ pc \in {"send", "wait"}
  /\ waiters # {} /\ Live => Joined

(* What an answer of this session can be the answer to.                    *)
Answers ==
  /\ done => answered
  /\ pc = "send" => ~answered
  /\ \A j \in DOMAIN d2h : d2h[j].t \in {"echo", "damaged", "pong"} /\ Fresh(j) =>
       d2h[j].n <= seq \/ Stuck
  /\ \A j \in DOMAIN d2h :
       /\ Fresh(j) /\ call.c = connection /\ d2h[j].n = call.n
       /\ \/ call.t = "echo" /\ d2h[j].t = "echo"
          \/ call.t = "ping" /\ d2h[j].t = "pong"
       => answered

BringupInv ==
  /\ Types /\ Greetings /\ Numbers /\ Late
  /\ Readiness /\ Leaving /\ Waits /\ Answers

-----------------------------------------------------------------------------
(* The wire: what appending, taking the first and losing frames leave.     *)

LEMMA AppendIs ==
  ASSUME NEW S, NEW s \in Seq(S), NEW x \in S, NEW z, z = Append(s, x)
  PROVE  /\ z \in Seq(S)
         /\ DOMAIN s = 1..Len(s) /\ Len(s) \in Nat
         /\ DOMAIN z = 1..(Len(s) + 1)
         /\ \A i \in DOMAIN s : i \in DOMAIN z /\ z[i] = s[i]
         /\ z[Len(s) + 1] = x
  OBVIOUS

LEMMA TailIs ==
  ASSUME NEW S, NEW s \in Seq(S), s # <<>>, NEW z, z = Tail(s)
  PROVE  /\ z \in Seq(S)
         /\ 1 \in DOMAIN s /\ s[1] = Head(s) /\ s[1] \in S
         /\ \A i \in DOMAIN z : i + 1 \in DOMAIN s /\ z[i] = s[i + 1]
         /\ \A k \in DOMAIN s : k > 1 => k - 1 \in DOMAIN z
  OBVIOUS

LEMMA FromIs ==
  ASSUME NEW S, NEW s \in Seq(S), NEW d \in {1, 2}, NEW z,
         z = SubSeq(s, d + 1, Len(s)), Len(s) > 1
  PROVE  /\ z \in Seq(S)
         /\ \A i \in DOMAIN z : i + d \in DOMAIN s /\ z[i] = s[i + d]
  OBVIOUS

LEMMA CutIs ==
  ASSUME NEW S, NEW s \in Seq(S), NEW n \in 0..Len(s), NEW x \in S, NEW z,
         z = SubSeq(s, 1, n) \/ z = Append(SubSeq(s, 1, n), x)
  PROVE  /\ z \in Seq(S)
         /\ \A i \in DOMAIN z : z[i] = x \/ (i \in DOMAIN s /\ z[i] = s[i])
<1>1. CASE z = SubSeq(s, 1, n)
  BY <1>1
<1>2. CASE z = Append(SubSeq(s, 1, n), x)
  <2>1. PICK y : y = SubSeq(s, 1, n)
    OBVIOUS
  <2>2. y \in Seq(S) /\ \A i \in DOMAIN y : i \in DOMAIN s /\ y[i] = s[i]
    BY <2>1
  <2>3. z = Append(y, x)
    BY <1>2, <2>1
  <2>4. /\ z \in Seq(S) /\ DOMAIN y = 1..Len(y) /\ Len(y) \in Nat
        /\ DOMAIN z = 1..(Len(y) + 1)
        /\ \A i \in DOMAIN y : z[i] = y[i]
        /\ z[Len(y) + 1] = x
    BY <2>2, <2>3, AppendIs
  <2> QED
    BY <2>2, <2>4
<1> QED
  BY <1>1, <1>2

LEMMA FramesAre ==
  /\ \A m \in Frames : m.t \in Kinds /\ m.c \in Nat /\ m.n \in Nat
  /\ \A t \in Kinds, c, n \in Nat :
       LET m == Frame(t, c, n) IN m \in Frames /\ m.t = t /\ m.c = c /\ m.n = n
  BY DEF Frames, Frame

(* Frames the host writes may be lost from either end, and one be torn.    *)
LEMMA Lost ==
  ASSUME BringupInv, NEW d \in Nat, h2d' \in Seq(Frames),
         \A i \in DOMAIN h2d' :
           h2d'[i].t = "torn" \/ (i + d \in DOMAIN h2d /\ h2d'[i] = h2d[i + d]),
         gate'.c = gate.c, port' = "reading" => port = "reading",
         UNCHANGED <<call, pc, waiters, done, connection, seq, helloSent>>
  PROVE  Greetings' /\ Numbers' /\ Late'
<1> DOMAIN h2d \subseteq Nat /\ DOMAIN h2d' \subseteq Nat
  BY DEF BringupInv, Types
<1>1. Greetings'
  <2>1. \A i, j \in DOMAIN h2d' :
       i < j /\ h2d'[i].t = "hello" /\ h2d'[j].t = "hello" => h2d'[i].c < h2d'[j].c
    <3> SUFFICES ASSUME NEW i \in DOMAIN h2d', NEW j \in DOMAIN h2d', i < j,
                        h2d'[i].t = "hello", h2d'[j].t = "hello"
                 PROVE  h2d'[i].c < h2d'[j].c
      OBVIOUS
    <3>1. /\ i + d \in DOMAIN h2d /\ h2d'[i] = h2d[i + d]
          /\ j + d \in DOMAIN h2d /\ h2d'[j] = h2d[j + d]
          /\ i + d < j + d
      OBVIOUS
    <3> QED
      BY <3>1 DEF BringupInv, Greetings
  <2> QED
    BY <2>1 DEF BringupInv, Greetings
<1>2. Numbers'
  BY DEF BringupInv, Numbers
<1>3. Late'
  <2> SUFFICES ASSUME NEW i \in DOMAIN h2d', h2d'[i].t # "torn", h2d'[i].c # connection,
                      \/ gate.c = connection
                      \/ \E k \in DOMAIN h2d' :
                           k < i /\ h2d'[k].t = "hello" /\ h2d'[k].c = connection
               PROVE  Stuck
    BY DEF Late, Stuck
  <2>1. i + d \in DOMAIN h2d /\ h2d'[i] = h2d[i + d]
    OBVIOUS
  <2>2. \A k \in DOMAIN h2d' : k < i /\ h2d'[k].t = "hello" =>
          k + d \in DOMAIN h2d /\ h2d'[k] = h2d[k + d] /\ k + d < i + d
    OBVIOUS
  <2> QED
    BY <2>1, <2>2 DEF BringupInv, Late
<1> QED
  BY <1>1, <1>2, <1>3

(* What the host has read of the device's frames is gone from the front.   *)
LEMMA Heard ==
  ASSUME BringupInv, NEW d \in Nat, d2h' \in Seq(Frames),
         \A i \in DOMAIN d2h' : i + d \in DOMAIN d2h /\ d2h'[i] = d2h[i + d],
         \A k \in DOMAIN d2h : k > d => k - d \in DOMAIN d2h',
         gate' = gate, connection' = connection
  PROVE  /\ \A j \in DOMAIN d2h' : Fresh(j)' => Fresh(j + d)
         /\ Joined => Joined'
         /\ \A j \in DOMAIN d2h' : d2h'[j].t = "ready" => d2h'[j].c <= gate.c /\ d2h'[j].n = 0
         /\ \A i, j \in DOMAIN d2h' :
              i < j /\ d2h'[i].t = "ready" /\ d2h'[j].t = "ready" => d2h'[i].c < d2h'[j].c
<1> DOMAIN d2h \subseteq Nat /\ DOMAIN d2h' \subseteq Nat
  BY DEF BringupInv, Types
<1>1. ASSUME NEW j \in DOMAIN d2h', Fresh(j)' PROVE Fresh(j + d)
  <2> SUFFICES ASSUME NEW k \in DOMAIN d2h, k > j + d PROVE d2h[k] # Ready(connection)
    BY <1>1 DEF Fresh
  <2>1. k - d \in DOMAIN d2h' /\ k - d > j /\ (k - d) + d = k
    OBVIOUS
  <2>2. d2h'[k - d] = d2h[k]
    BY <2>1
  <2> QED
    BY <1>1, <2>1, <2>2 DEF Fresh, Ready
<1>2. Joined => Joined'
  BY DEF Joined, Ready
<1>3. \A j \in DOMAIN d2h' : d2h'[j].t = "ready" => d2h'[j].c <= gate.c /\ d2h'[j].n = 0
  BY DEF BringupInv, Readiness
<1>4. ASSUME NEW i \in DOMAIN d2h', NEW j \in DOMAIN d2h', i < j,
             d2h'[i].t = "ready", d2h'[j].t = "ready"
      PROVE  d2h'[i].c < d2h'[j].c
  <2>1. i + d < j + d
    BY <1>4
  <2> QED
    BY <1>4, <2>1 DEF BringupInv, Readiness
<1> QED
  BY <1>1, <1>2, <1>3, <1>4

(* A frame the device writes in the session it is in.                      *)
LEMMA Said ==
  ASSUME BringupInv, NEW m \in Frames, d2h' = Append(d2h, m),
         gate'.c = gate.c, connection' = connection, m.t # "ready"
  PROVE  /\ d2h' \in Seq(Frames)
         /\ \A j \in DOMAIN d2h' :
              \/ j \in DOMAIN d2h /\ d2h'[j] = d2h[j] /\ (Fresh(j)' => Fresh(j))
              \/ d2h'[j] = m
         /\ Joined => Joined'
         /\ \A j \in DOMAIN d2h' : d2h'[j].t = "ready" => d2h'[j].c <= gate.c /\ d2h'[j].n = 0
         /\ \A i, j \in DOMAIN d2h' :
              i < j /\ d2h'[i].t = "ready" /\ d2h'[j].t = "ready" => d2h'[i].c < d2h'[j].c
<1>1. /\ d2h' \in Seq(Frames)
      /\ DOMAIN d2h = 1..Len(d2h) /\ Len(d2h) \in Nat
      /\ DOMAIN d2h' = 1..(Len(d2h) + 1)
      /\ \A i \in DOMAIN d2h : i \in DOMAIN d2h' /\ d2h'[i] = d2h[i]
      /\ d2h'[Len(d2h) + 1] = m
  BY AppendIs DEF BringupInv, Types
<1>2. ASSUME NEW j \in DOMAIN d2h'
      PROVE  \/ j \in DOMAIN d2h /\ d2h'[j] = d2h[j] /\ (Fresh(j)' => Fresh(j))
             \/ d2h'[j] = m
  BY <1>1 DEF Fresh, Ready
<1>3. Joined => Joined'
  BY <1>1 DEF Joined, Ready, Frame
<1>4. \A j \in DOMAIN d2h' : d2h'[j].t = "ready" => d2h'[j].c <= gate.c /\ d2h'[j].n = 0
  BY <1>1, <1>2 DEF BringupInv, Readiness
<1>5. ASSUME NEW i \in DOMAIN d2h', NEW j \in DOMAIN d2h', i < j,
             d2h'[i].t = "ready", d2h'[j].t = "ready"
      PROVE  d2h'[i].c < d2h'[j].c
  <2>1. i \in DOMAIN d2h /\ j \in DOMAIN d2h
    BY <1>1, <1>5
  <2> QED
    BY <1>1, <1>5, <2>1 DEF BringupInv, Readiness
<1> QED
  BY <1>1, <1>2, <1>3, <1>4, <1>5

-----------------------------------------------------------------------------
(* One lemma per action: the main thread and the port.                     *)

(* A wait, or the start of the measurement, concerns no call: none is      *)
(* under way before or after it.                                           *)
LEMMA WaitsStep ==
  ASSUME BringupInv,
         WaitConnected \/ WaitEvent \/ ReadMeasurement \/ BeginStaleMeasurement
  PROVE  BringupInv'
<1>1. pc \in {"enter", "read"} /\ pc' \in {"enter", "read"}
  BY DEF WaitConnected, WaitEvent, ReadMeasurement, BeginStaleMeasurement, Waiting, Pass, Raise
<1>2. /\ events' \subseteq events
      /\ UNCHANGED <<call, done, seq, helloSent, waiters, port, connection, h2d, d2h, linked,
                     gate, answered>>
  BY DEF WaitConnected, WaitEvent, ReadMeasurement, BeginStaleMeasurement, session, serial,
         firmware
<1>3. Types' /\ Greetings'
  BY <1>1, <1>2 DEF BringupInv, Types, Greetings
<1>4. Numbers' /\ Late'
  BY <1>1, <1>2 DEF BringupInv, Numbers, Late, Stuck
<1>5. Readiness' /\ Leaving'
  BY <1>2 DEF BringupInv, Readiness, Leaving, Live, Joined, Fresh
<1>6. Waits'
  BY <1>1, <1>2 DEF BringupInv, Waits
<1>7. Answers'
  BY <1>1, <1>2 DEF BringupInv, Answers, Stuck, Fresh
<1> QED
  BY <1>3, <1>4, <1>5, <1>6, <1>7 DEF BringupInv

LEMMA ClosingStep == ASSUME BringupInv, OnStale \/ Exit PROVE BringupInv'
<1>1. /\ port' \in {"closed", "stopped"}
      /\ events' \subseteq events /\ "ready" \notin events'
      /\ UNCHANGED <<at, pc, call, done, seq, helloSent, waiters, connection, h2d, d2h, linked,
                     gate, answered>>
  BY DEF OnStale, Exit, script, session, firmware, BringupInv, Readiness, Live
<1>2. Types' /\ Greetings' /\ Numbers' /\ Late'
  BY <1>1 DEF BringupInv, Types, Greetings, Numbers, Late, Stuck
<1>3. Readiness' /\ Leaving'
  BY <1>1 DEF BringupInv, Readiness, Leaving, Live, Fresh
<1>4. Waits' /\ Answers'
  BY <1>1 DEF BringupInv, Waits, Answers, Live, Step, Stuck, Fresh
<1> QED
  BY <1>2, <1>3, <1>4 DEF BringupInv

LEMMA OpenStep == ASSUME BringupInv, Open PROVE BringupInv'
<1>1. Types'
  <2>1. d2h' \in Seq(Frames)
    <3>1. d2h \in Seq(Frames) /\ <<>> \in Seq(Frames)
      BY DEF BringupInv, Types
    <3> QED
      BY <3>1 DEF Open
  <2> QED
    BY <2>1 DEF script, session, serial, firmware, BringupInv, Types, Open
<1>2. Greetings' /\ Numbers' /\ Late'
  BY DEF script, session, serial, firmware, BringupInv, Greetings, Numbers, Late, Stuck, Open
<1>3. Readiness' /\ Leaving'
  BY DEF script, session, serial, firmware, BringupInv, Readiness, Leaving, Live, Fresh,
         Joined, Open
<1>4. Waits'
  BY DEF script, session, serial, firmware, BringupInv, Waits, Live, Step, Open
<1>5. Answers'
  BY DEF script, session, serial, firmware, BringupInv, Answers, Fresh, Stuck, Open
<1> QED
  BY <1>1, <1>2, <1>3, <1>4, <1>5 DEF BringupInv

(* Everything under way belongs to an earlier connection now.              *)
LEMMA OnConnectedStep == ASSUME BringupInv, OnConnected PROVE BringupInv'
<1>0. /\ port' = "reading" /\ connection' = connection + 1 /\ seq' = 0 /\ ~helloSent'
      /\ helloSent' \in BOOLEAN /\ events' = {} /\ waiters' = {}
      /\ UNCHANGED <<at, pc, call, done, h2d, d2h, linked, gate, answered>>
  BY DEF OnConnected, NewEvents, NewWaiters, script, firmware
<1>1. /\ connection \in Nat /\ gate.c \in Nat /\ gate.c <= connection /\ call.c <= connection
      /\ call.c \in Nat
  BY DEF BringupInv, Types, Greetings, Numbers, Frames
<1>2. gate'.c < connection' /\ call'.c < connection' /\ connection' > 0 /\ connection' \in Nat
  BY <1>0, <1>1
<1>3. \A i \in DOMAIN h2d : h2d[i].t # "torn" => h2d[i].c \in Nat /\ h2d[i].c < connection'
  <2>1. \A i \in DOMAIN h2d : h2d[i].c \in Nat
    <3>1. \A i \in DOMAIN h2d : h2d[i] \in Frames
      BY DEF BringupInv, Types
    <3> QED
      BY <3>1 DEF Frames
  <2> QED
    BY <1>0, <1>1, <2>1 DEF BringupInv, Numbers
<1>4. Types'
  BY <1>0, <1>2 DEF BringupInv, Types
<1>5. Greetings'
  <2>1. \A i \in DOMAIN h2d : h2d[i].t = "hello" =>
          gate.c < h2d[i].c /\ h2d[i].c # connection'
    BY <1>2, <1>3 DEF BringupInv, Greetings
  <2>2. gate'.c <= connection' /\ gate'.c # connection'
    BY <1>0, <1>1, <1>2
  <2> QED
    BY <1>0, <1>2, <2>1, <2>2 DEF BringupInv, Greetings
<1>6. Numbers'
  <2>1. call'.c <= connection' /\ call'.c # connection'
    BY <1>0, <1>1, <1>2
  <2>2. \A i \in DOMAIN h2d : h2d[i].t # "torn" =>
          h2d[i].c <= connection' /\ h2d[i].c # connection'
    BY <1>2, <1>3
  <2> QED
    BY <1>0, <2>1, <2>2 DEF BringupInv, Numbers
<1>7. Late'
  <2>1. gate'.c # connection'
    BY <1>0, <1>1, <1>2
  <2>2. \A i \in DOMAIN h2d : h2d[i].t = "hello" => h2d[i].c # connection'
    BY <1>2, <1>3
  <2> QED
    BY <1>0, <2>1, <2>2 DEF Late
<1>8. ASSUME NEW j PROVE ~Fresh(j)'
  BY <1>0, <1>1, <1>2 DEF Fresh
<1>9. Readiness' /\ Leaving'
  BY <1>0, <1>8 DEF BringupInv, Readiness, Leaving
<1>10. Waits'
  BY <1>0 DEF BringupInv, Waits, Step
<1>11. Answers'
  BY <1>0, <1>8 DEF BringupInv, Answers
<1> QED
  BY <1>4, <1>5, <1>6, <1>7, <1>9, <1>10, <1>11 DEF BringupInv

(* A call takes a number nobody has used: the session is joined, so all    *)
(* frames under way are its own.                                           *)
LEMMA BeginCallStep ==
  ASSUME BringupInv, NEW t \in {"echo", "ping"}, BeginCall(t)
  PROVE  BringupInv'
<1> USE DEF BeginCall, script, session, serial, firmware, Waiting
<1>1. CASE ~RequireReady
  <2>1. UNCHANGED <<pc, at, call, done, seq, helloSent, waiters, measuring, events, port,
                    connection, h2d, d2h, linked, gate, answered>>
    BY <1>1 DEF Raise
  <2> QED
    BY <2>1 DEF BringupInv, Types, Greetings, Numbers, Late, Stuck, Readiness, Live, Joined,
                Leaving, Fresh, Waits, Step, Answers
<1>2. CASE RequireReady
  <2>0. /\ pc = "enter" /\ pc' = "send" /\ seq' = seq + 1 /\ seq \in Nat
        /\ call' = [t |-> t, c |-> connection, n |-> seq + 1] /\ connection \in Nat
        /\ call'.t = t /\ call'.c = connection /\ call'.n = seq + 1 /\ Step = t
        /\ waiters' = {<<t, seq + 1>>}
        /\ ~done' /\ ~answered' /\ done' \in BOOLEAN /\ answered' \in BOOLEAN
        /\ UNCHANGED <<at, helloSent, events, port, connection, h2d, d2h, linked, gate>>
    <3>1. waiters = {} /\ seq \in Nat /\ connection \in Nat
      BY DEF BringupInv, Waits, Types
    <3>2. /\ pc = "enter" /\ pc' = "send" /\ seq' = seq + 1 /\ Step = t
          /\ call' = [t |-> t, c |-> connection, n |-> seq + 1]
          /\ waiters' = waiters \cup {<<t, seq + 1>>}
          /\ done' = FALSE /\ answered' = FALSE
          /\ UNCHANGED <<at, helloSent, events, port, connection, h2d, d2h, linked, gate>>
      BY <1>2 DEF Frame
    <3>3. waiters' = {<<t, seq + 1>>}
      BY <3>1, <3>2
    <3> QED
      BY <3>1, <3>2, <3>3
  <2>1. Types'
    BY <2>0 DEF BringupInv, Types, Frames, Kinds
  <2>2. Greetings' /\ Readiness' /\ Leaving'
    BY <2>0 DEF BringupInv, Greetings, Readiness, Leaving, Live, Joined, Fresh
  <2>3. gate.c = connection /\ Joined /\ Live /\ ~Stuck
    BY <1>2, <2>0 DEF RequireReady, BringupInv, Readiness, Joined, Stuck
  <2>4. \A i \in DOMAIN h2d : h2d[i].t # "torn" =>
          h2d[i] \in Frames /\ h2d[i].c = connection /\ h2d[i].n <= seq
    <3>1. \A i \in DOMAIN h2d : h2d[i] \in Frames
      BY DEF BringupInv, Types
    <3> QED
      BY <2>3, <3>1 DEF BringupInv, Late, Numbers
  <2>5. Numbers'
    BY <2>0, <2>4 DEF BringupInv, Numbers, Frames
  <2>6. Late'
    BY <2>0, <2>4 DEF Late
  <2>7. Waits'
    BY <2>0, <2>3 DEF Waits, Live, Joined, Step
  <2>8. Answers'
    <3>1. \A j \in DOMAIN d2h : d2h[j].t \in {"echo", "damaged", "pong"} /\ Fresh(j) =>
            d2h[j].n <= seq /\ d2h[j].n \in Nat
      <4>0. \A j \in DOMAIN d2h : d2h[j] \in Frames
        BY DEF BringupInv, Types
      <4>1. \A j \in DOMAIN d2h : d2h[j].n \in Nat
        BY <4>0 DEF Frames
      <4> QED
        BY <2>3, <4>1 DEF BringupInv, Answers
    <3>2. \A j \in DOMAIN d2h : Fresh(j)' <=> Fresh(j)
      BY <2>0 DEF Fresh
    <3> QED
      BY <2>0, <3>1, <3>2 DEF Answers
  <2> QED
    BY <2>1, <2>2, <2>5, <2>6, <2>7, <2>8 DEF BringupInv
<1> QED
  BY <1>1, <1>2

(* A frame the host writes: behind it there is nothing.                    *)
LEMMA Written ==
  ASSUME BringupInv, NEW m \in Frames, h2d' = Append(h2d, m), m.t # "torn"
  PROVE  /\ h2d' \in Seq(Frames)
         /\ DOMAIN h2d \subseteq Nat /\ DOMAIN h2d' \subseteq Nat
         /\ \A i \in DOMAIN h2d' : h2d'[i] = m \/ (i \in DOMAIN h2d /\ h2d'[i] = h2d[i])
         /\ \A i, k \in DOMAIN h2d' : k < i => k \in DOMAIN h2d /\ h2d'[k] = h2d[k]
<1>1. /\ h2d' \in Seq(Frames)
      /\ DOMAIN h2d = 1..Len(h2d) /\ Len(h2d) \in Nat
      /\ DOMAIN h2d' = 1..(Len(h2d) + 1)
      /\ \A i \in DOMAIN h2d : i \in DOMAIN h2d' /\ h2d'[i] = h2d[i]
      /\ h2d'[Len(h2d) + 1] = m
  BY AppendIs DEF BringupInv, Types
<1> QED
  BY <1>1

LEMMA SendCallStep ==
  ASSUME BringupInv, NEW t \in {"echo", "ping"}, SendCall(t)
  PROVE  BringupInv'
<1> USE DEF SendCall, script, session, serial, firmware, Waiting
<1>0. /\ pc = "send" /\ call.t = t /\ call \in Frames
      /\ UNCHANGED <<at, call, done, seq, helloSent, events, port, connection, d2h, linked,
                     gate, answered>>
      /\ ~done /\ ~answered
  BY DEF Raise, BringupInv, Types, Waits, Answers
<1>1. CASE h2d' = h2d /\ pc' = pc
  <2>1. waiters' \subseteq waiters
    BY <1>1
  <2>2. Types' /\ Greetings' /\ Numbers' /\ Readiness' /\ Leaving'
    BY <1>0, <1>1 DEF BringupInv, Types, Greetings, Numbers, Readiness, Leaving, Live,
                      Joined, Fresh
  <2>3. Late'
    BY <1>0, <1>1 DEF BringupInv, Late, Stuck
  <2>4. Waits'
    BY <1>0, <1>1, <2>1 DEF BringupInv, Waits, Live, Joined, Step
  <2>5. Answers'
    BY <1>0, <1>1 DEF BringupInv, Answers, Fresh, Stuck
  <2> QED
    BY <2>2, <2>3, <2>4, <2>5 DEF BringupInv
<1>2. CASE h2d' = Append(h2d, call) /\ pc' = "wait" /\ waiters' = waiters
  <2>1. /\ h2d' \in Seq(Frames)
        /\ \A i \in DOMAIN h2d' : h2d'[i] = call \/ (i \in DOMAIN h2d /\ h2d'[i] = h2d[i])
        /\ \A i, k \in DOMAIN h2d' : k < i => k \in DOMAIN h2d /\ h2d'[k] = h2d[k]
    BY <1>0, <1>2, Written
  <2>2. call.c # connection => waiters = {}
    BY DEF BringupInv, Waits
  <2>3. Types' /\ Readiness' /\ Leaving'
    BY <1>0, <1>2, <2>1 DEF BringupInv, Types, Readiness, Leaving, Live, Joined, Fresh
  <2>4. Greetings'
    BY <1>0, <1>2, <2>1 DEF BringupInv, Greetings
  <2>5. Numbers'
    BY <1>0, <1>2, <2>1 DEF BringupInv, Numbers, Waits, Frames
  <2>6. Late'
    <3> SUFFICES ASSUME NEW i \in DOMAIN h2d', h2d'[i].t # "torn", h2d'[i].c # connection,
                        \/ gate.c = connection
                        \/ \E k \in DOMAIN h2d' :
                             k < i /\ h2d'[k].t = "hello" /\ h2d'[k].c = connection
                 PROVE  Stuck'
      BY <1>0 DEF Late
    <3>1. h2d'[i] = call
      BY <1>0, <2>1 DEF BringupInv, Late, Stuck
    <3> QED
      BY <1>0, <1>2, <2>2, <3>1 DEF BringupInv, Stuck, Waits
  <2>7. Waits'
    BY <1>0, <1>2 DEF BringupInv, Waits, Live, Joined, Step
  <2>8. Answers'
    BY <1>0, <1>2 DEF BringupInv, Answers, Fresh, Stuck
  <2> QED
    BY <2>3, <2>4, <2>5, <2>6, <2>7, <2>8 DEF BringupInv
<1> QED
  BY <1>1, <1>2 DEF Raise

LEMMA WaitCallStep ==
  ASSUME BringupInv, NEW t \in {"echo", "ping"}, WaitCall(t)
  PROVE  BringupInv'
<1> USE DEF WaitCall, script, session, serial, firmware, Waiting
<1>0. /\ pc = "wait" /\ call.t = t
      /\ UNCHANGED <<call, done, seq, helloSent, events, port, connection, h2d, d2h, linked,
                     gate, answered>>
  BY DEF BringupInv, Waits
<1>1. CASE UNCHANGED <<at, pc, waiters>>
  BY <1>0, <1>1 DEF BringupInv, Types, Greetings, Numbers, Late, Stuck, Readiness, Live, Joined,
                    Leaving, Fresh, Waits, Step, Answers
<1>2. CASE done /\ pc' = "enter" /\ waiters' = waiters \ {<<t, call.n>>}
  <2>1. waiters' = {} /\ ~Stuck
    BY <1>0, <1>2 DEF BringupInv, Waits, Stuck
  <2>2. Types' /\ Greetings' /\ Numbers' /\ Readiness' /\ Leaving'
    BY <1>0, <1>2 DEF BringupInv, Types, Greetings, Numbers, Readiness, Leaving, Live,
                      Joined, Fresh
  <2>3. Late'
    BY <1>0, <2>1 DEF BringupInv, Late
  <2>4. Waits'
    BY <1>0, <1>2, <2>1 DEF BringupInv, Waits
  <2>5. Answers'
    BY <1>0, <1>2, <2>1 DEF BringupInv, Answers, Fresh
  <2> QED
    BY <2>2, <2>3, <2>4, <2>5 DEF BringupInv
<1> QED
  BY <1>1, <1>2 DEF Pass, Raise

-----------------------------------------------------------------------------
(* One lemma per action: the serial thread.                                *)

(* A frame of this connection written by the serial thread.                *)
LEMMA Numbered ==
  ASSUME BringupInv, NEW m \in Frames, h2d' = Append(h2d, m), m.t # "torn",
         m.c = connection, m.n = seq + 1, seq' = seq + 1,
         m.t = "hello" => helloSent' /\ ~helloSent /\ port = "reading",
         helloSent' \in BOOLEAN, helloSent => helloSent',
         UNCHANGED <<pc, call, waiters, done, port, connection, gate>>
  PROVE  h2d' \in Seq(Frames) /\ Greetings' /\ Numbers' /\ Late'
<1>1. /\ h2d' \in Seq(Frames)
      /\ DOMAIN h2d \subseteq Nat /\ DOMAIN h2d' \subseteq Nat
      /\ \A i \in DOMAIN h2d' : h2d'[i] = m \/ (i \in DOMAIN h2d /\ h2d'[i] = h2d[i])
      /\ \A i, k \in DOMAIN h2d' : k < i => k \in DOMAIN h2d /\ h2d'[k] = h2d[k]
  BY Written
<1>2. /\ seq \in Nat /\ connection \in Nat /\ call.n \in Nat /\ gate.c \in Nat
      /\ call.c = connection => call.n <= seq
  BY DEF BringupInv, Types, Frames, Numbers
<1>3. \A i \in DOMAIN h2d : h2d[i].c \in Nat /\ h2d[i].n \in Nat
  <2>1. \A i \in DOMAIN h2d : h2d[i] \in Frames
    BY DEF BringupInv, Types
  <2> QED
    BY <2>1 DEF Frames
<1>4. Greetings'
  <2>1. m.t = "hello" =>
          /\ gate.c < m.c
          /\ \A i \in DOMAIN h2d : h2d[i].t = "hello" => h2d[i].c < m.c
    <3> SUFFICES ASSUME m.t = "hello"
                 PROVE  /\ gate.c < m.c
                        /\ \A i \in DOMAIN h2d : h2d[i].t = "hello" => h2d[i].c < m.c
      OBVIOUS
    <3>1. gate.c < m.c
      BY <1>2 DEF BringupInv, Greetings
    <3>2. ASSUME NEW i \in DOMAIN h2d, h2d[i].t = "hello" PROVE h2d[i].c < m.c
      BY <1>2, <1>3, <3>2 DEF BringupInv, Greetings, Numbers
    <3> QED
      BY <3>1, <3>2
  <2>2. \A i \in DOMAIN h2d' : h2d'[i].t = "hello" =>
          gate'.c < h2d'[i].c /\ (h2d'[i].c = connection' => helloSent')
    BY <1>1, <2>1 DEF BringupInv, Greetings
  <2>3. ASSUME NEW i \in DOMAIN h2d', NEW j \in DOMAIN h2d', i < j,
               h2d'[i].t = "hello", h2d'[j].t = "hello"
        PROVE  h2d'[i].c < h2d'[j].c
    BY <1>1, <2>1, <2>3 DEF BringupInv, Greetings
  <2> QED
    BY <2>2, <2>3 DEF BringupInv, Greetings
<1>5. Numbers'
  <2>1. ASSUME NEW i \in DOMAIN h2d', h2d'[i].t # "torn"
        PROVE  /\ h2d'[i].c <= connection /\ h2d'[i].n > 0
               /\ h2d'[i].c = connection => h2d'[i].n <= seq + 1
               /\ call.c = connection /\ h2d'[i].c = connection /\ h2d'[i].n = call.n =>
                    h2d'[i] = call
               /\ pc = "send" => h2d'[i] # call
    <3>1. CASE h2d'[i] = m
      BY <1>2, <3>1
    <3>2. CASE i \in DOMAIN h2d /\ h2d'[i] = h2d[i]
      BY <1>2, <1>3, <2>1, <3>2 DEF BringupInv, Numbers
    <3> QED
      BY <1>1, <3>1, <3>2
  <2> QED
    BY <1>2, <2>1 DEF BringupInv, Numbers
<1>6. Late'
  <2> SUFFICES ASSUME NEW i \in DOMAIN h2d', h2d'[i].t # "torn", h2d'[i].c # connection,
                      \/ gate.c = connection
                      \/ \E k \in DOMAIN h2d' :
                           k < i /\ h2d'[k].t = "hello" /\ h2d'[k].c = connection
               PROVE  Stuck
    BY DEF Late, Stuck
  <2>1. i \in DOMAIN h2d /\ h2d'[i] = h2d[i]
    BY <1>1
  <2> QED
    BY <1>1, <2>1 DEF BringupInv, Late
<1> QED
  BY <1>1, <1>4, <1>5, <1>6

LEMMA PeriodicPingStep == ASSUME BringupInv, PeriodicPing PROVE BringupInv'
<1>1. PICK m \in Frames :
        /\ m.t = "ping" /\ m.c = connection /\ m.n = seq + 1
        /\ h2d' = Append(h2d, m)
  <2>1. Frame("ping", connection, seq + 1) \in Frames
    BY DEF BringupInv, Types, Frame, Frames, Kinds
  <2> QED
    BY <2>1 DEF PeriodicPing, Frame
<1>2. /\ seq' = seq + 1
      /\ UNCHANGED <<at, pc, call, done, helloSent, events, waiters, port, connection, d2h,
                     linked, gate, answered>>
  BY DEF PeriodicPing, script, serial, firmware
<1>3. helloSent' \in BOOLEAN /\ seq \in Nat
  BY <1>2 DEF BringupInv, Types
<1>4. h2d' \in Seq(Frames) /\ Greetings' /\ Numbers' /\ Late'
  BY <1>1, <1>2, <1>3, Numbered
<1>5. Types'
  BY <1>2, <1>3, <1>4 DEF BringupInv, Types
<1>6. Readiness' /\ Leaving'
  BY <1>2 DEF BringupInv, Readiness, Leaving, Live, Joined, Fresh
<1>7. Waits'
  BY <1>2 DEF BringupInv, Waits, Live, Joined, Step
<1>8. Answers'
  <2>1. \A j \in DOMAIN d2h : d2h[j].n \in Nat
    <3>1. \A j \in DOMAIN d2h : d2h[j] \in Frames
      BY DEF BringupInv, Types
    <3> QED
      BY <3>1 DEF Frames
  <2> QED
    BY <1>2, <1>3, <2>1 DEF BringupInv, Answers, Stuck, Fresh
<1> QED
  BY <1>4, <1>5, <1>6, <1>7, <1>8 DEF BringupInv

(* Dropping the link loses frames; d2h may lose the line that was refused. *)
LEMMA DisconnectStep ==
  ASSUME BringupInv, Disconnect, d2h' = d2h \/ (d2h # <<>> /\ d2h' = Tail(d2h))
  PROVE  BringupInv'
<1>1. /\ port = "reading" /\ port' = "dropped"
      /\ UNCHANGED <<at, pc, call, done, seq, helloSent, events, waiters, connection,
                     linked, gate, answered>>
  BY DEF Disconnect, script, session, firmware
<1>2. PICK n \in 0..Len(h2d) :
        h2d' = SubSeq(h2d, 1, n) \/ h2d' = Append(SubSeq(h2d, 1, n), Torn)
  BY DEF Disconnect
<1>3. Torn \in Frames /\ Torn.t = "torn"
  BY DEF Torn, Frame, Frames, Kinds
<1>4. /\ h2d' \in Seq(Frames)
      /\ \A i \in DOMAIN h2d' : h2d'[i] = Torn \/ (i \in DOMAIN h2d /\ h2d'[i] = h2d[i])
  BY <1>2, <1>3, CutIs DEF BringupInv, Types
<1>5. \A i \in DOMAIN h2d' :
        h2d'[i].t = "torn" \/ (i + 0 \in DOMAIN h2d /\ h2d'[i] = h2d[i + 0])
  BY <1>3, <1>4
<1>6. Greetings' /\ Numbers' /\ Late'
  BY <1>1, <1>4, <1>5, Lost
<1>7. PICK d \in Nat :
        /\ d2h' \in Seq(Frames)
        /\ \A i \in DOMAIN d2h' : i + d \in DOMAIN d2h /\ d2h'[i] = d2h[i + d]
        /\ \A k \in DOMAIN d2h : k > d => k - d \in DOMAIN d2h'
  <2>1. d2h \in Seq(Frames) /\ DOMAIN d2h \subseteq Nat
    BY DEF BringupInv, Types
  <2>2. CASE d2h' = d2h
    <3>1. /\ \A i \in DOMAIN d2h' : i + 0 \in DOMAIN d2h /\ d2h'[i] = d2h[i + 0]
          /\ \A k \in DOMAIN d2h : k > 0 => k - 0 \in DOMAIN d2h'
      BY <2>1, <2>2
    <3> QED
      BY <2>1, <2>2, <3>1
  <2>3. CASE d2h # <<>> /\ d2h' = Tail(d2h)
    BY <2>1, <2>3, TailIs
  <2> QED
    BY <2>2, <2>3
<1>8. /\ \A j \in DOMAIN d2h' : Fresh(j)' => Fresh(j + d)
      /\ Joined => Joined'
      /\ \A j \in DOMAIN d2h' : d2h'[j].t = "ready" => d2h'[j].c <= gate.c /\ d2h'[j].n = 0
      /\ \A i, j \in DOMAIN d2h' :
           i < j /\ d2h'[i].t = "ready" /\ d2h'[j].t = "ready" => d2h'[i].c < d2h'[j].c
  BY <1>1, <1>7, Heard
<1>9. Types'
  BY <1>1, <1>4, <1>7 DEF BringupInv, Types
<1>10. Readiness'
  BY <1>1, <1>8 DEF BringupInv, Readiness, Live
<1>11. Leaving'
  BY <1>1, <1>7, <1>8 DEF BringupInv, Leaving, Live
<1>12. Waits'
  BY <1>1, <1>8 DEF BringupInv, Waits, Live, Step
<1>13. Answers'
  BY <1>1, <1>7, <1>8 DEF BringupInv, Answers, Stuck
<1> QED
  BY <1>6, <1>9, <1>10, <1>11, <1>12, <1>13 DEF BringupInv

(* What reading a frame may change: a ready of this session makes it ready,*)
(* a stale report needs readiness, a waiter is released by its answer.     *)
LEMMA ReadEffect ==
  ASSUME BringupInv, NEW m \in Frames, d2h # <<>>, m = Head(d2h), d2h' = Tail(d2h),
         port = "reading",
         UNCHANGED <<at, pc, call, waiters, port, connection, linked, gate, answered>>,
         "ready" \in events' => "ready" \in events \/ (m.t = "ready" /\ m.c = connection),
         "stale" \in events' =>
           "stale" \in events \/ (m.t \in {"stale", "late"} /\ "ready" \in events),
         done' \in BOOLEAN,
         done' => done \/ (/\ waiters # {} /\ m.n = call.n
                           /\ \/ call.t = "echo" /\ m.t = "echo"
                              \/ call.t = "ping" /\ m.t = "pong"),
         seq' \in Nat, seq <= seq'
  PROVE  /\ d2h' \in Seq(Frames) /\ (Stuck => Stuck')
         /\ Readiness' /\ Leaving' /\ Waits' /\ Answers'
<1>1. /\ d2h' \in Seq(Frames)
      /\ 1 \in DOMAIN d2h /\ d2h[1] = m
      /\ \A i \in DOMAIN d2h' : i + 1 \in DOMAIN d2h /\ d2h'[i] = d2h[i + 1]
      /\ \A k \in DOMAIN d2h : k > 1 => k - 1 \in DOMAIN d2h'
  BY TailIs DEF BringupInv, Types
<1>2. /\ \A j \in DOMAIN d2h' : Fresh(j)' => Fresh(j + 1)
      /\ Joined => Joined'
      /\ \A j \in DOMAIN d2h' : d2h'[j].t = "ready" => d2h'[j].c <= gate.c /\ d2h'[j].n = 0
      /\ \A i, j \in DOMAIN d2h' :
           i < j /\ d2h'[i].t = "ready" /\ d2h'[j].t = "ready" => d2h'[i].c < d2h'[j].c
  BY <1>1, Heard
<1>3. Joined => Fresh(1)
  BY DEF Joined, Fresh
<1>4. Stuck => Stuck'
  BY DEF Stuck
<1>5. Readiness'
  <2>1. m.t = "ready" /\ m.c = connection => Joined'
    <3> SUFFICES ASSUME m.t = "ready", m.c = connection PROVE Joined'
      OBVIOUS
    <3>0. /\ gate.c \in Nat /\ connection \in Nat /\ DOMAIN d2h \subseteq Nat
          /\ DOMAIN d2h' \subseteq Nat
      BY <1>1 DEF BringupInv, Types
    <3>1. gate.c = connection
      BY <1>1, <3>0 DEF BringupInv, Readiness, Greetings
    <3>2. ASSUME NEW k \in DOMAIN d2h' PROVE d2h'[k] # Ready(connection)
      <4>1. k + 1 \in DOMAIN d2h /\ d2h'[k] = d2h[k + 1] /\ 1 < k + 1
        BY <1>1, <3>0
      <4>2. d2h[k + 1].t = "ready" => connection < d2h[k + 1].c
        BY <1>1, <4>1 DEF BringupInv, Readiness
      <4> QED
        BY <3>0, <4>1, <4>2 DEF Ready, Frame
    <3> QED
      BY <3>1, <3>2 DEF Joined, Ready
  <2> QED
    BY <1>2, <2>1 DEF BringupInv, Readiness, Live
<1>6. Leaving'
  <2>1. "ready" \in events /\ m.t \in {"stale", "late"} => gate.c = connection /\ ~linked
    BY <1>1, <1>3 DEF BringupInv, Leaving, Readiness, Joined
  <2> QED
    BY <1>1, <1>2, <2>1 DEF BringupInv, Leaving, Live
<1>7. Waits'
  BY <1>2 DEF BringupInv, Waits, Live, Step
<1>8. Answers'
  <2>1. done' => answered
    <3>1. waiters # {} => Fresh(1) /\ call.c = connection
      BY <1>3 DEF BringupInv, Waits, Live
    <3> QED
      BY <1>1, <3>1 DEF BringupInv, Answers
  <2>2. \A j \in DOMAIN d2h : d2h[j].n \in Nat
    <3>1. \A j \in DOMAIN d2h : d2h[j] \in Frames
      BY DEF BringupInv, Types
    <3> QED
      BY <3>1 DEF Frames
  <2>3. \A j \in DOMAIN d2h' : d2h'[j].t \in {"echo", "damaged", "pong"} /\ Fresh(j)' =>
          d2h'[j].n <= seq' \/ Stuck'
    <3>1. seq \in Nat
      BY DEF BringupInv, Types
    <3> QED
      BY <1>1, <1>2, <1>4, <2>2, <3>1 DEF BringupInv, Answers
  <2>4. \A j \in DOMAIN d2h' :
          /\ Fresh(j)' /\ call.c = connection /\ d2h'[j].n = call.n
          /\ \/ call.t = "echo" /\ d2h'[j].t = "echo"
             \/ call.t = "ping" /\ d2h'[j].t = "pong"
          => answered
    BY <1>1, <1>2 DEF BringupInv, Answers
  <2> QED
    BY <2>1, <2>3, <2>4 DEF BringupInv, Answers
<1> QED
  BY <1>1, <1>4, <1>5, <1>6, <1>7, <1>8

LEMMA ReadHelloStep ==
  ASSUME BringupInv, NEW m \in Frames, d2h # <<>>, m = Head(d2h), d2h' = Tail(d2h),
         port = "reading", m.t = "hello", ReplyToHello,
         UNCHANGED <<at, pc, call, result, serial, firmware, answered>>
  PROVE  BringupInv'
<1>0. UNCHANGED <<at, pc, call, done, events, waiters, port, connection, linked, gate,
                  answered>>
  BY DEF ReplyToHello, session, serial, firmware
<1>1. CASE ~helloSent
  <2>1. PICK x \in Frames : x.t = "hello" /\ x.c = connection /\ x.n = seq + 1
                            /\ h2d' = Append(h2d, x)
    <3>1. Frame("hello", connection, seq + 1) \in Frames
      BY DEF BringupInv, Types, Frame, Frames, Kinds
    <3> QED
      BY <1>1, <3>1 DEF ReplyToHello, AnswersHello, Frame
  <2>2. seq' = seq + 1 /\ helloSent' = TRUE /\ seq \in Nat /\ seq' \in Nat /\ seq <= seq'
    BY <1>1 DEF ReplyToHello, AnswersHello, BringupInv, Types
  <2>3. h2d' \in Seq(Frames) /\ Greetings' /\ Numbers' /\ Late'
    BY <1>0, <1>1, <2>1, <2>2, Numbered
  <2>4. done' \in BOOLEAN
    BY <1>0 DEF BringupInv, Types
  <2>5. d2h' \in Seq(Frames) /\ Readiness' /\ Leaving' /\ Waits' /\ Answers'
    BY <1>0, <2>2, <2>4, ReadEffect
  <2>6. Types'
    BY <1>0, <2>2, <2>3, <2>5 DEF BringupInv, Types
  <2> QED
    BY <2>3, <2>5, <2>6 DEF BringupInv
<1>2. CASE UNCHANGED <<seq, helloSent, h2d>>
  <2>1. done' \in BOOLEAN /\ seq' \in Nat /\ seq <= seq'
    BY <1>0, <1>2 DEF BringupInv, Types
  <2>2. d2h' \in Seq(Frames) /\ Readiness' /\ Leaving' /\ Waits' /\ Answers'
    BY <1>0, <2>1, ReadEffect
  <2>3. Types' /\ Greetings' /\ Numbers' /\ Late'
    BY <1>0, <1>2, <2>2 DEF BringupInv, Types, Greetings, Numbers, Late, Stuck
  <2> QED
    BY <2>2, <2>3 DEF BringupInv
<1> QED
  BY <1>1, <1>2 DEF ReplyToHello, AnswersHello, session

(* Every other message leaves numbers, hello and h2d alone.                *)
LEMMA ReadOtherStep ==
  ASSUME BringupInv, NEW m \in Frames, d2h # <<>>, m = Head(d2h), d2h' = Tail(d2h),
         port = "reading", m.t # "hello", OnMessage(m),
         UNCHANGED <<at, pc, call, result, serial, firmware, answered>>
  PROVE  BringupInv'
<1>1. UNCHANGED <<at, pc, call, seq, helloSent, waiters, port, connection, h2d, linked, gate,
                  answered>>
  BY DEF OnMessage, ReceiveReady, ReceiveAnswer, Sets, ReceiveStale, serial, firmware
<1>2. "ready" \in events' => "ready" \in events \/ (m.t = "ready" /\ m.c = connection)
  BY DEF OnMessage, ReceiveReady, OwnReady, ReceiveAnswer, Sets, ReceiveStale
<1>3. "stale" \in events' =>
        "stale" \in events \/ (m.t \in {"stale", "late"} /\ "ready" \in events)
  BY DEF OnMessage, ReceiveReady, OwnReady, ReceiveAnswer, Sets, ReceiveStale
<1>4. /\ done' \in BOOLEAN
      /\ done' => done \/ (/\ waiters # {} /\ m.n = call.n
                           /\ \/ call.t = "echo" /\ m.t = "echo"
                              \/ call.t = "ping" /\ m.t = "pong")
  <2>0. done \in BOOLEAN
    BY DEF BringupInv, Types
  <2>1. CASE done' = done
    BY <2>0, <2>1
  <2>2. CASE m.t \in {"echo", "damaged"} /\ ReceiveAnswer(m, "echo")
    BY <2>0, <2>2 DEF ReceiveAnswer
  <2>3. CASE m.t = "pong" /\ ReceiveAnswer(m, "ping")
    BY <2>0, <2>3 DEF ReceiveAnswer
  <2> QED
    BY <2>1, <2>2, <2>3 DEF OnMessage, ReceiveReady, Sets, ReceiveStale
<1>5. seq' \in Nat /\ seq <= seq'
  BY <1>1 DEF BringupInv, Types
<1>6. /\ d2h' \in Seq(Frames) /\ (Stuck => Stuck')
      /\ Readiness' /\ Leaving' /\ Waits' /\ Answers'
  BY <1>1, <1>2, <1>3, <1>4, <1>5, ReadEffect
<1>7. Types'
  BY <1>1, <1>4, <1>6 DEF BringupInv, Types
<1>8. Greetings' /\ Numbers'
  BY <1>1 DEF BringupInv, Greetings, Numbers
<1>9. Late'
  BY <1>1, <1>6 DEF BringupInv, Late
<1> QED
  BY <1>6, <1>7, <1>8, <1>9 DEF BringupInv

LEMMA ReadStep == ASSUME BringupInv, Read PROVE BringupInv'
<1>1. PICK m \in Frames : m = Head(d2h)
  BY DEF Read, BringupInv, Types
<1>2. /\ port = "reading" /\ d2h # <<>> /\ d2h' = Tail(d2h)
      /\ UNCHANGED <<at, pc, call, result, serial, firmware, answered>>
  BY DEF Read
<1>3. OnMessage(m)
  BY <1>1 DEF Read, OnMessage, ReplyToHello, ReceiveReady, OwnReady, ReceiveAnswer, Sets,
              ReceiveStale
<1>4. CASE m.t = "hello"
  <2>1. ReplyToHello
    BY <1>3, <1>4 DEF OnMessage
  <2> QED
    BY <1>1, <1>2, <1>4, <2>1, ReadHelloStep
<1>5. CASE m.t # "hello"
  BY <1>1, <1>2, <1>3, <1>5, ReadOtherStep
<1> QED
  BY <1>4, <1>5

-----------------------------------------------------------------------------
(* One lemma per action: the firmware.                                     *)

(* A frame that is neither an answer nor a ready.                          *)
LEMMA Speaks ==
  ASSUME BringupInv, NEW m \in Frames, d2h' = Append(d2h, m),
         m.t \notin {"ready", "echo", "damaged", "pong"},
         linked' \in BOOLEAN, linked' => linked, m.t \in {"stale", "late"} => ~linked',
         UNCHANGED <<script, session, serial, gate, answered>>
  PROVE  d2h' \in Seq(Frames) /\ Readiness' /\ Leaving' /\ Waits' /\ Answers'
<1>1. UNCHANGED <<at, pc, call, done, seq, events, waiters, port, connection, gate, answered>>
  BY DEF script, session, serial
<1>2. /\ d2h' \in Seq(Frames)
      /\ \A j \in DOMAIN d2h' :
           \/ j \in DOMAIN d2h /\ d2h'[j] = d2h[j] /\ (Fresh(j)' => Fresh(j))
           \/ d2h'[j] = m
      /\ Joined => Joined'
      /\ \A j \in DOMAIN d2h' : d2h'[j].t = "ready" => d2h'[j].c <= gate.c /\ d2h'[j].n = 0
      /\ \A i, j \in DOMAIN d2h' :
           i < j /\ d2h'[i].t = "ready" /\ d2h'[j].t = "ready" => d2h'[i].c < d2h'[j].c
  BY <1>1, Said
<1>3. Readiness'
  BY <1>1, <1>2 DEF BringupInv, Readiness, Live
<1>4. Leaving'
  BY <1>1, <1>2 DEF BringupInv, Leaving, Live
<1>5. Waits'
  BY <1>1, <1>2 DEF BringupInv, Waits, Live, Step
<1>6. Answers'
  BY <1>1, <1>2 DEF BringupInv, Answers, Stuck
<1> QED
  BY <1>2, <1>3, <1>4, <1>5, <1>6

LEMMA SpeaksStep ==
  ASSUME BringupInv, SendHello \/ SendHeartbeat \/ SendStale \/ HandleKeyboard \/ HandleG0
  PROVE  BringupInv'
<1>1. PICK m \in Frames :
        /\ d2h' = Append(d2h, m)
        /\ m.t \notin {"ready", "echo", "damaged", "pong"}
        /\ m.t \in {"stale", "late"} => ~linked'
  <2>1. \A t \in Kinds : Plain(t) \in Frames /\ Plain(t).t = t
    BY DEF Plain, Frame, Frames
  <2>2. CASE SendHello \/ SendHeartbeat
    BY <2>1, <2>2 DEF SendHello, SendHeartbeat, Say, Kinds
  <2>3. CASE SendStale
    BY <2>1, <2>3 DEF SendStale, Say, Kinds
  <2>4. CASE HandleKeyboard
    BY <2>1, <2>4 DEF HandleKeyboard, Say, Kinds
  <2>5. CASE HandleG0
    BY <2>1, <2>5 DEF HandleG0, Say, Kinds
  <2> QED
    BY <2>2, <2>3, <2>4, <2>5
<1>2. linked' \in BOOLEAN /\ (linked' => linked)
  <2>1. linked \in BOOLEAN /\ (linked' = linked \/ linked' = FALSE)
    BY DEF BringupInv, Types, SendHello, SendHeartbeat, SendStale, HandleKeyboard, HandleG0,
           firmware
  <2>2. CASE linked' = linked
    BY <2>1, <2>2
  <2>3. CASE linked' = FALSE
    BY <2>3
  <2> QED
    BY <2>1, <2>2, <2>3
<1>3. UNCHANGED <<script, session, serial, gate, answered, h2d>>
  BY DEF SendHello, SendHeartbeat, SendStale, HandleKeyboard, HandleG0, firmware
<1>4. d2h' \in Seq(Frames) /\ Readiness' /\ Leaving' /\ Waits' /\ Answers'
  BY <1>1, <1>2, <1>3, Speaks
<1>5. Types' /\ Greetings' /\ Numbers' /\ Late'
  BY <1>2, <1>3, <1>4 DEF BringupInv, Types, Greetings, Numbers, Late, Stuck,
                            script, session, serial
<1> QED
  BY <1>4, <1>5 DEF BringupInv

LEMMA RestartStep == ASSUME BringupInv, Restart PROVE BringupInv'
<1>1. /\ gate' = [c |-> 0, n |-> 0] /\ linked' = FALSE /\ h2d' = <<>>
      /\ d2h' = <<Plain("hello")>> /\ port = "closed"
      /\ UNCHANGED <<at, pc, call, done, seq, helloSent, events, waiters, port, connection,
                     answered>>
  BY DEF Restart, script, session, serial
<1>2. gate'.c = 0 /\ gate' \in [c : Nat, n : Nat] /\ linked' \in BOOLEAN /\ connection \in Nat
  BY <1>1 DEF BringupInv, Types
<1>3. /\ Plain("hello") \in Frames /\ Plain("hello").t = "hello"
      /\ DOMAIN d2h' = {1} /\ d2h'[1] = Plain("hello") /\ DOMAIN h2d' = {}
  BY <1>1 DEF Plain, Frame, Frames, Kinds
<1>4. h2d' \in Seq(Frames) /\ d2h' \in Seq(Frames)
  BY <1>1, <1>3
<1>5. Types'
  BY <1>1, <1>2, <1>4 DEF BringupInv, Types
<1>6. Greetings'
  BY <1>1, <1>2, <1>3 DEF BringupInv, Greetings
<1>7. Numbers' /\ Late'
  BY <1>1, <1>3 DEF BringupInv, Numbers, Late
<1>8. Readiness' /\ Leaving'
  BY <1>1, <1>3 DEF BringupInv, Readiness, Leaving, Live
<1>9. Waits'
  BY <1>1 DEF BringupInv, Waits, Live, Step
<1>10. Answers'
  BY <1>1, <1>3 DEF BringupInv, Answers
<1> QED
  BY <1>5, <1>6, <1>7, <1>8, <1>9, <1>10 DEF BringupInv

LEMMA GarbledStep == ASSUME BringupInv, ProcessGarbled PROVE BringupInv'
<1>1. UNCHANGED <<script, session, serial, linked, gate, answered>>
  BY DEF ProcessGarbled, firmware
<1>2. PICK m \in Frames : m.t = "error" /\ d2h' = Append(d2h, m)
  BY DEF ProcessGarbled, Say, Error, Plain, Frame, Frames, Kinds
<1>3. PICK d \in {1, 2} : h2d' = SubSeq(h2d, d + 1, Len(h2d))
  BY DEF ProcessGarbled
<1>4. /\ h2d' \in Seq(Frames)
      /\ \A i \in DOMAIN h2d' : i + d \in DOMAIN h2d /\ h2d'[i] = h2d[i + d]
  BY <1>3, FromIs DEF ProcessGarbled, BringupInv, Types
<1>5. Greetings' /\ Numbers' /\ Late'
  BY <1>1, <1>4, Lost DEF script, session, serial
<1>6. linked' \in BOOLEAN /\ (linked' => linked)
  BY <1>1 DEF BringupInv, Types
<1>7. d2h' \in Seq(Frames) /\ Readiness' /\ Leaving' /\ Waits' /\ Answers'
  BY <1>1, <1>2, <1>6, Speaks
<1>8. Types'
  BY <1>1, <1>4, <1>6, <1>7 DEF BringupInv, Types, script, session, serial
<1> QED
  BY <1>5, <1>7, <1>8 DEF BringupInv

(* The answer to a frame of this session names a number of this session;   *)
(* when it is the number of the call, it is the answer to the call.        *)
LEMMA AnswerStep ==
  ASSUME BringupInv, h2d # <<>>, h2d' = Tail(h2d), NEW m \in Frames, m = Head(h2d),
         m.t \in {"echo", "ping"},
         NEW a \in Frames, d2h' = Append(d2h, a), a.n = m.n,
         \/ m.t = "echo" /\ a.t \in {"echo", "damaged"}
         \/ m.t = "ping" /\ a.t = "pong",
         answered' = (answered \/ (a.t # "damaged" /\ m = call)),
         gate' = [c |-> gate.c, n |-> m.n],
         UNCHANGED <<script, session, serial, linked>>
  PROVE  BringupInv'
<1>1. UNCHANGED <<at, pc, call, done, seq, helloSent, events, waiters, port, connection,
                  linked>>
  BY DEF script, session, serial
<1>2. gate'.c = gate.c /\ gate' \in [c : Nat, n : Nat] /\ answered' \in BOOLEAN
  BY DEF BringupInv, Types, Frames
<1>3. /\ h2d' \in Seq(Frames) /\ 1 \in DOMAIN h2d /\ h2d[1] = m
      /\ \A i \in DOMAIN h2d' : i + 1 \in DOMAIN h2d /\ h2d'[i] = h2d[i + 1]
  BY TailIs DEF BringupInv, Types
<1>4. Greetings' /\ Numbers' /\ Late'
  BY <1>1, <1>2, <1>3, Lost
<1>5. /\ d2h' \in Seq(Frames)
      /\ \A j \in DOMAIN d2h' :
           \/ j \in DOMAIN d2h /\ d2h'[j] = d2h[j] /\ (Fresh(j)' => Fresh(j))
           \/ d2h'[j] = a
      /\ Joined => Joined'
      /\ \A j \in DOMAIN d2h' : d2h'[j].t = "ready" => d2h'[j].c <= gate.c /\ d2h'[j].n = 0
      /\ \A i, j \in DOMAIN d2h' :
           i < j /\ d2h'[i].t = "ready" /\ d2h'[j].t = "ready" => d2h'[i].c < d2h'[j].c
  BY <1>1, <1>2, Said
<1>6. Types'
  BY <1>1, <1>2, <1>3, <1>5 DEF BringupInv, Types
<1>7. Readiness' /\ Leaving'
  <2>1. Readiness'
    BY <1>1, <1>2, <1>5 DEF BringupInv, Readiness, Live
  <2>2. Leaving'
    BY <1>1, <1>2, <1>5 DEF BringupInv, Leaving, Live
  <2> QED
    BY <2>1, <2>2
<1>8. Waits'
  BY <1>1, <1>5 DEF BringupInv, Waits, Live, Step
<1>9. Answers'
  <2>0. answered \in BOOLEAN
    BY DEF BringupInv, Types
  <2>1. pc = "send" => m # call
    BY <1>3 DEF BringupInv, Numbers
  <2>2. gate.c = connection => m.n <= seq \/ Stuck
    BY <1>3 DEF BringupInv, Numbers, Late
  <2>3. gate.c = connection /\ call.c = connection /\ m.n = call.n => m = call \/ Stuck
    BY <1>3 DEF BringupInv, Numbers, Late
  <2>4. ASSUME gate.c = connection, call.c = connection, a.n = call.n,
               \/ call.t = "echo" /\ a.t = "echo"
               \/ call.t = "ping" /\ a.t = "pong"
        PROVE  answered'
    BY <1>3, <2>3, <2>4 DEF Stuck
  <2>5. \A j \in DOMAIN d2h' : d2h'[j].t \in {"echo", "damaged", "pong"} /\ Fresh(j)' =>
          d2h'[j].n <= seq \/ Stuck
    BY <1>1, <1>2, <1>5, <2>2 DEF BringupInv, Answers, Fresh
  <2> QED
    BY <1>1, <1>5, <2>0, <2>1, <2>4, <2>5 DEF BringupInv, Answers, Stuck, Fresh
<1> QED
  BY <1>4, <1>6, <1>7, <1>8, <1>9 DEF BringupInv

LEMMA HelloStep ==
  ASSUME BringupInv, h2d # <<>>, h2d' = Tail(h2d), NEW m \in Frames, m = Head(h2d),
         m.t = "hello", HandleHello(m),
         UNCHANGED <<script, session, serial>>
  PROVE  BringupInv'
<1>1. /\ UNCHANGED <<at, pc, call, done, seq, helloSent, events, waiters, port, connection,
                     answered>>
      /\ linked' = TRUE /\ gate'.c = m.c /\ gate' \in [c : Nat, n : Nat]
      /\ d2h' = Append(d2h, Ready(m.c))
  BY DEF script, session, serial, HandleHello, Passed, Say, Frames
<1>2. PICK r \in Frames : r = Ready(m.c) /\ r.t = "ready" /\ r.c = m.c /\ r.n = 0
  <2>1. m.c \in Nat /\ 0 \in Nat /\ "ready" \in Kinds
    BY FramesAre DEF Kinds
  <2>2. Frame("ready", m.c, 0) \in Frames /\ Frame("ready", m.c, 0).t = "ready"
        /\ Frame("ready", m.c, 0).c = m.c /\ Frame("ready", m.c, 0).n = 0
    BY <2>1, FramesAre
  <2> QED
    BY <2>2 DEF Ready
<1>3. /\ h2d' \in Seq(Frames) /\ 1 \in DOMAIN h2d /\ h2d[1] = m
      /\ \A i \in DOMAIN h2d' : i + 1 \in DOMAIN h2d /\ h2d'[i] = h2d[i + 1]
      /\ DOMAIN h2d' \subseteq 1..Len(h2d') /\ Len(h2d') \in Nat
  <2>1. h2d \in Seq(Frames)
    BY DEF BringupInv, Types
  <2> QED
    BY <2>1, TailIs
<1>4. /\ d2h' \in Seq(Frames)
      /\ DOMAIN d2h = 1..Len(d2h) /\ Len(d2h) \in Nat
      /\ DOMAIN d2h' = 1..(Len(d2h) + 1)
      /\ \A i \in DOMAIN d2h : i \in DOMAIN d2h' /\ d2h'[i] = d2h[i]
      /\ d2h'[Len(d2h) + 1] = r
  <2>1. d2h \in Seq(Frames) /\ d2h' = Append(d2h, r)
    BY <1>1, <1>2 DEF BringupInv, Types
  <2> QED
    BY <2>1, AppendIs
<1>5. /\ m.c \in Nat /\ connection \in Nat /\ gate.c \in Nat
      /\ gate.c < m.c /\ m.c <= connection /\ (m.c = connection => helloSent)
  BY <1>3 DEF BringupInv, Types, Frames, Greetings, Numbers
<1>6. gate.c # connection
  BY <1>5
<1>7. Types'
  BY <1>1, <1>3, <1>4 DEF BringupInv, Types
<1>8. Greetings'
  <2>1. \A i \in DOMAIN h2d' : h2d'[i].t = "hello" =>
          m.c < h2d'[i].c /\ (h2d'[i].c = connection => helloSent)
    <3> SUFFICES ASSUME NEW i \in DOMAIN h2d', h2d'[i].t = "hello"
                 PROVE  m.c < h2d'[i].c /\ (h2d'[i].c = connection => helloSent)
      OBVIOUS
    <3>1. 1 < i + 1 /\ i + 1 \in DOMAIN h2d /\ h2d'[i] = h2d[i + 1]
      BY <1>3
    <3> QED
      BY <1>3, <3>1 DEF BringupInv, Greetings
  <2>2. ASSUME NEW i \in DOMAIN h2d', NEW j \in DOMAIN h2d', i < j,
               h2d'[i].t = "hello", h2d'[j].t = "hello"
        PROVE  h2d'[i].c < h2d'[j].c
    <3>1. i + 1 < j + 1
      BY <1>3, <2>2
    <3> QED
      BY <1>3, <2>2, <3>1 DEF BringupInv, Greetings
  <2> QED
    BY <1>1, <1>5, <2>1, <2>2 DEF BringupInv, Greetings
<1>9. Numbers'
  BY <1>1, <1>3 DEF BringupInv, Numbers
<1>10. Late'
  <2> SUFFICES ASSUME NEW i \in DOMAIN h2d', h2d'[i].t # "torn", h2d'[i].c # connection,
                      \/ m.c = connection
                      \/ \E k \in DOMAIN h2d' :
                           k < i /\ h2d'[k].t = "hello" /\ h2d'[k].c = connection
               PROVE  Stuck
    BY <1>1 DEF Late, Stuck
  <2>1. i + 1 \in DOMAIN h2d /\ h2d'[i] = h2d[i + 1] /\ 1 < i + 1
    BY <1>3
  <2>2. \A k \in DOMAIN h2d' : k < i =>
          k + 1 \in DOMAIN h2d /\ h2d'[k] = h2d[k + 1] /\ k + 1 < i + 1
    BY <1>3
  <2> QED
    BY <1>3, <2>1, <2>2 DEF BringupInv, Late
<1>11. ASSUME NEW j \in DOMAIN d2h', Fresh(j)' PROVE d2h'[j] = r
  <2> SUFFICES ASSUME j \in DOMAIN d2h PROVE FALSE
    BY <1>4
  <2>1. m.c = connection /\ Len(d2h) + 1 > j /\ Len(d2h) + 1 \in DOMAIN d2h'
    BY <1>1, <1>4, <1>11 DEF Fresh
  <2> QED
    BY <1>1, <1>2, <1>4, <1>11, <2>1 DEF Fresh, Ready
<1>12. "ready" \notin events /\ ~(Live /\ "stale" \in events) /\ ~(waiters # {} /\ Live)
  BY <1>6 DEF BringupInv, Readiness, Leaving, Waits, Joined
<1>13. Readiness'
  <2>0. \A j \in DOMAIN d2h : d2h[j] \in Frames
    BY DEF BringupInv, Types
  <2>1. \A j \in DOMAIN d2h : d2h[j].t = "ready" =>
          d2h[j].c \in Nat /\ d2h[j].c < m.c /\ d2h[j].n = 0
    BY <1>5, <2>0 DEF BringupInv, Readiness, Frames
  <2>2. \A j \in DOMAIN d2h' : d2h'[j].t = "ready" => d2h'[j].c <= m.c /\ d2h'[j].n = 0
    BY <1>2, <1>4, <1>5, <2>1
  <2>3. ASSUME NEW i \in DOMAIN d2h', NEW j \in DOMAIN d2h', i < j,
               d2h'[i].t = "ready", d2h'[j].t = "ready"
        PROVE  d2h'[i].c < d2h'[j].c
    BY <1>2, <1>4, <2>1, <2>3 DEF BringupInv, Readiness
  <2> QED
    BY <1>1, <1>12, <2>2, <2>3 DEF Readiness
<1>14. Leaving'
  BY <1>1, <1>2, <1>11, <1>12 DEF Leaving, Live
<1>15. Waits'
  BY <1>1, <1>12 DEF BringupInv, Waits, Live, Step
<1>16. Answers'
  BY <1>1, <1>2, <1>11 DEF BringupInv, Answers
<1> QED
  BY <1>7, <1>8, <1>9, <1>10, <1>13, <1>14, <1>15, <1>16 DEF BringupInv

LEMMA IgnoredStep ==
  ASSUME BringupInv, h2d # <<>>, h2d' = Tail(h2d), NEW m \in Frames, m = Head(h2d),
         Ignored(m), UNCHANGED <<script, session, serial>>
  PROVE  BringupInv'
<1>1. UNCHANGED <<at, pc, call, done, seq, helloSent, events, waiters, port, connection,
                  gate, linked, d2h, answered>>
  BY DEF script, session, serial, Ignored
<1>2. /\ h2d' \in Seq(Frames) /\ 1 \in DOMAIN h2d
      /\ \A i \in DOMAIN h2d' : i + 1 \in DOMAIN h2d /\ h2d'[i] = h2d[i + 1]
  BY TailIs DEF BringupInv, Types
<1>3. Greetings' /\ Numbers' /\ Late'
  BY <1>1, <1>2, Lost
<1>4. Types'
  BY <1>1, <1>2 DEF BringupInv, Types
<1>5. Readiness' /\ Leaving' /\ Waits' /\ Answers'
  BY <1>1 DEF BringupInv, Readiness, Leaving, Waits, Answers, Live, Joined, Fresh, Stuck, Step
<1> QED
  BY <1>3, <1>4, <1>5 DEF BringupInv

LEMMA ProcessLineStep == ASSUME BringupInv, ProcessLine PROVE BringupInv'
<1>1. PICK m \in Frames : m = Head(h2d)
  BY DEF ProcessLine, BringupInv, Types
<1>2. h2d # <<>> /\ h2d' = Tail(h2d) /\ UNCHANGED <<script, session, serial>>
  BY DEF ProcessLine
<1>3. CASE HandleHello(m)
  BY <1>1, <1>2, <1>3, HelloStep DEF HandleHello
<1>4. CASE HandleEcho(m)
  <2>1. PICK t \in {"echo", "damaged"} :
          /\ d2h' = Append(d2h, Frame(t, 0, m.n))
          /\ answered' = (answered \/ (t = "echo" /\ m = call))
    BY <1>4 DEF HandleEcho, Say
  <2>2. PICK a \in Frames : a = Frame(t, 0, m.n) /\ a.t = t /\ a.n = m.n
    <3>1. m.n \in Nat /\ 0 \in Nat /\ {"echo", "damaged", "pong"} \subseteq Kinds
      BY FramesAre DEF Kinds
    <3> QED
      BY <3>1, FramesAre
  <2>3. (t = "echo" /\ m = call) <=> (a.t # "damaged" /\ m = call)
    BY <2>2
  <2>4. m.t = "echo" /\ linked' = linked /\ gate' = [c |-> gate.c, n |-> m.n]
    BY <1>4 DEF HandleEcho, Passed
  <2> QED
    BY <1>1, <1>2, <2>1, <2>2, <2>3, <2>4, AnswerStep
<1>5. CASE HandlePing(m)
  <2>1. PICK a \in Frames : a = Frame("pong", 0, m.n) /\ a.t = "pong" /\ a.n = m.n
    <3>1. m.n \in Nat /\ 0 \in Nat /\ {"echo", "damaged", "pong"} \subseteq Kinds
      BY FramesAre DEF Kinds
    <3> QED
      BY <3>1, FramesAre
  <2>2. /\ m.t = "ping" /\ linked' = linked /\ gate' = [c |-> gate.c, n |-> m.n]
        /\ d2h' = Append(d2h, a) /\ answered' = (answered \/ m = call)
    BY <1>5, <2>1 DEF HandlePing, Passed, Say
  <2>3. answered' = (answered \/ (a.t # "damaged" /\ m = call))
    BY <2>1, <2>2
  <2> QED
    BY <1>1, <1>2, <2>1, <2>2, <2>3, AnswerStep
<1>6. CASE Ignored(m)
  BY <1>1, <1>2, <1>6, IgnoredStep
<1> QED
  BY <1>1, <1>3, <1>4, <1>5, <1>6
     DEF ProcessLine, HandleHello, HandleEcho, HandlePing, Ignored, Accepts, GateLast, Passed,
         Say

-----------------------------------------------------------------------------

LEMMA InitStep == Init => BringupInv
<1> SUFFICES ASSUME Init PROVE BringupInv
  OBVIOUS
<1>1. /\ Plain("hello") \in Frames /\ Plain("hello").t = "hello" /\ NoCall \in Frames
      /\ NoCall.c = 0 /\ NoCall.n = 0
  BY FramesAre DEF Plain, NoCall, Kinds
<1>2. /\ DOMAIN h2d = {} /\ DOMAIN d2h = {1} /\ d2h[1] = Plain("hello")
      /\ h2d \in Seq(Frames) /\ d2h \in Seq(Frames)
  BY <1>1 DEF Init
<1>3. Types
  BY <1>1, <1>2 DEF Init, Types
<1>4. Greetings /\ Numbers /\ Late
  BY <1>1, <1>2 DEF Init, Greetings, Numbers, Late
<1>5. Readiness /\ Leaving /\ Waits /\ Answers
  BY <1>1, <1>2 DEF Init, Readiness, Leaving, Waits, Answers, Live
<1> QED
  BY <1>3, <1>4, <1>5 DEF BringupInv

LEMMA NextStep == BringupInv /\ [Next]_vars => BringupInv'
<1> SUFFICES ASSUME BringupInv, [Next]_vars PROVE BringupInv'
  OBVIOUS
<1>1. CASE UNCHANGED vars
  BY <1>1 DEF vars, script, session, serial, firmware, BringupInv, Types, Greetings, Numbers,
              Late, Readiness, Leaving, Waits, Answers, Live, Joined, Fresh, Stuck, Step
<1>2. CASE Main
  BY <1>2, WaitsStep, BeginCallStep, SendCallStep, WaitCallStep DEF Main, Echo, Ping, Call
<1>3. CASE Device
  BY <1>3, ProcessLineStep, GarbledStep, SpeaksStep, RestartStep DEF Device
<1>4. CASE Drop \/ RefuseLine
  BY <1>4, DisconnectStep DEF Drop, RefuseLine
<1>5. CASE Open \/ OnConnected \/ Read \/ PeriodicPing \/ OnStale \/ Exit
  BY <1>5, OpenStep, OnConnectedStep, ReadStep, PeriodicPingStep, ClosingStep
<1> QED
  BY <1>1, <1>2, <1>3, <1>4, <1>5 DEF Next, DeviceRuns, Ended

(* The inductive invariant: along the wire sessions go up and numbers are  *)
(* taken once, behind a connection's hello only its own frames and a stuck *)
(* call follow, and what the device wrote after its ready belongs to the   *)
(* session the host is in.                                                 *)
THEOREM BringupInvariant == Spec => []BringupInv
<1>1. Init => BringupInv
  BY InitStep
<1>2. BringupInv /\ [Next]_vars => BringupInv'
  BY NextStep
<1> QED
  BY <1>1, <1>2, PTL DEF Spec

(* _wait_event: a waiter is released only by the device's undamaged answer *)
(* to this very call, though numbers start over with every connection.     *)
THEOREM OwnAnswerAlways == Spec => []OwnAnswer
<1>1. BringupInv => OwnAnswer
  BY DEF BringupInv, Answers, OwnAnswer
<1> QED
  BY <1>1, BringupInvariant, PTL

(* _on_message: a session is ready only when the device is in it.          *)
THEOREM ReadyIsMutualAlways == Spec => []ReadyIsMutual
<1>1. BringupInv => ReadyIsMutual
  BY DEF BringupInv, Readiness, Joined, ReadyIsMutual
<1> QED
  BY <1>1, BringupInvariant, PTL

(* The stale measurement: its evidence is the device having left this      *)
(* connection's session, never a report of an earlier one.                 *)
THEOREM StaleIsEvidenceAlways == Spec => []StaleIsEvidence
<1>1. BringupInv => StaleIsEvidence
  BY DEF BringupInv, Leaving, Live, StaleIsEvidence
<1> QED
  BY <1>1, BringupInvariant, PTL
=============================================================================
