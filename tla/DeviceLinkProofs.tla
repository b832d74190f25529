-------------------------- MODULE DeviceLinkProofs --------------------------
(***************************************************************************)
(* Proofs about DeviceLink, for any number of sending threads, sessions,   *)
(* frames on the wire and faults: whatever of its session is on its way to *)
(* the device will be accepted in order, the device's state never goes back*)
(* within a session, and once everything is read it has the host's state.  *)
(***************************************************************************)
EXTENDS DeviceLink, SequenceTheorems, TLAPS

-----------------------------------------------------------------------------
(* The inductive invariant.                                                *)

SessionIds == Sessions \cup {NoSession}

Frames == [t : {"hello", "state", "ping"}, seq : Nat, session : SessionIds,
           version : Nat, live : BOOLEAN]

Devices == [session : SessionIds, seen : BOOLEAN, last : Nat, up : BOOLEAN, version : Nat]

Types ==
  /\ phase \in {"closed", "opened", "fresh", "reading", "replying", "snapshotted", "dropped"}
  /\ active \in BOOLEAN /\ handshake \in BOOLEAN /\ greeted \in BOOLEAN
  /\ session \in SessionIds /\ seq \in Nat /\ version \in Nat
  /\ pc \in [Senders -> {"idle", "check", "send"}]
  /\ h2d \in Seq(Frames)
  /\ torn \in BOOLEAN
  /\ dev \in Devices

(* Connected: _on_connected has given this connection its session.         *)
Connected == phase \in {"fresh", "reading", "replying", "snapshotted"}

Phases ==
  /\ active = (phase \notin {"closed", "dropped"})
  /\ Connected \/ greeted => session # NoSession
  /\ phase = "fresh" => ~greeted
  /\ phase \in {"replying", "snapshotted"} => greeted
  /\ handshake => greeted

(* Along device, wire and host every session is one contiguous stretch.    *)
Grouped ==
  /\ \A i, j, k \in DOMAIN h2d :
       i < j /\ j < k /\ h2d[i].session = h2d[k].session => h2d[j].session = h2d[i].session
  /\ \A i, j \in DOMAIN h2d : i < j /\ h2d[j].session = dev.session => h2d[i].session = dev.session
  /\ \A i, j \in DOMAIN h2d : i < j /\ h2d[i].session = session => h2d[j].session = session
  /\ dev.session = session => \A i \in DOMAIN h2d : h2d[i].session = session

(* A session is alive from its hello on; the device is in none that is not.*)
Alive ==
  /\ \A i \in DOMAIN h2d : h2d[i].t = "hello" => h2d[i].live
  /\ \A i \in DOMAIN h2d : h2d[i].live => h2d[i].session # NoSession
  /\ \A i, j \in DOMAIN h2d :
       i < j /\ h2d[i].session = h2d[j].session /\ h2d[i].live => h2d[j].live
  /\ \A i \in DOMAIN h2d : h2d[i].session = session /\ h2d[i].live => greeted
  /\ \A i \in DOMAIN h2d : h2d[i].session = dev.session /\ dev.session # NoSession => h2d[i].live
  /\ dev.session = session /\ session # NoSession => greeted

(* The numbers of a session: seen by the device, on the wire, last given.  *)
Numbered ==
  /\ LiveFramesInOrder
  /\ \A i \in DOMAIN h2d : h2d[i].session = session /\ h2d[i].live => h2d[i].seq <= seq
  /\ dev.session = session /\ session # NoSession => dev.last <= seq
  /\ dev.session = NoSession => ~dev.seen

(* Snapshots are told in the order of the versions, across sessions.       *)
Versions ==
  /\ dev.version <= version
  /\ dev.session = NoSession => dev.version = 0
  /\ \A i \in DOMAIN h2d : h2d[i].t = "state" =>
       dev.version <= h2d[i].version /\ h2d[i].version <= version
  /\ \A i, j \in DOMAIN h2d :
       i < j /\ h2d[i].t = "state" /\ h2d[j].t = "state" => h2d[i].version <= h2d[j].version

(* From the handshake's snapshot on the latest version is on its way, is   *)
(* there, or a thread is going to send it.                                 *)
Snapshotted == phase = "snapshotted" \/ (phase = "reading" /\ handshake)

SendPending == \E s \in Senders : pc[s] # "idle"

OnTheWay(n) == \E j \in DOMAIN h2d : j > n /\ h2d[j].t = "state" /\ h2d[j].version = version

Told ==
  /\ Connected /\ dev.session = session => ~torn
  /\ Snapshotted /\ ~SendPending =>
       /\ dev.session = session => dev.version = version \/ OnTheWay(0)
       /\ \A i \in DOMAIN h2d : h2d[i].t = "hello" /\ h2d[i].session = session => OnTheWay(i)

LinkInv == Types /\ Phases /\ Grouped /\ Alive /\ Numbered /\ Versions /\ Told

-----------------------------------------------------------------------------
(* The wire: writing, reading and losing the end of it.                    *)

(* send_generated appends one frame of the current session.                *)
LEMMA Written ==
  ASSUME Types, NEW t \in {"hello", "state", "ping"}, NEW v \in Nat, Write(t, v)
  PROVE  /\ seq' = seq + 1 /\ seq' \in Nat /\ active
         /\ h2d' \in Seq(Frames)
         /\ Len(h2d) \in Nat
         /\ DOMAIN h2d = 1..Len(h2d)
         /\ DOMAIN h2d' = 1..(Len(h2d) + 1)
         /\ \A i \in DOMAIN h2d : h2d'[i] = h2d[i]
         /\ h2d'[Len(h2d) + 1].t = t
         /\ h2d'[Len(h2d) + 1].seq = seq + 1
         /\ h2d'[Len(h2d) + 1].session = session
         /\ h2d'[Len(h2d) + 1].version = v
         /\ h2d'[Len(h2d) + 1].live = (greeted \/ t = "hello")
<1>0. PICK b \in BOOLEAN : b = (greeted \/ t = "hello")
  BY Zenon DEF Types
<1> DEFINE f == [t |-> t, seq |-> seq + 1, session |-> session, version |-> v, live |-> b]
<1>1. h2d' = Append(h2d, f) /\ seq' = seq + 1 /\ active
  BY <1>0 DEF Write, Frame
<1>2. seq \in Nat /\ session \in SessionIds /\ h2d \in Seq(Frames)
  BY DEF Types
<1>3. f \in Frames
  BY <1>0, <1>2 DEF Frames
<1>4. f.t = t /\ f.seq = seq + 1 /\ f.session = session /\ f.version = v /\ f.live = (greeted \/ t = "hello")
  BY <1>0
<1> HIDE DEF f
<1>5. /\ h2d' \in Seq(Frames) /\ Len(h2d) \in Nat /\ Len(h2d') = Len(h2d) + 1
      /\ \A i \in 1..Len(h2d) : h2d'[i] = h2d[i]
      /\ h2d'[Len(h2d) + 1] = f
  BY <1>1, <1>2, <1>3, AppendProperties
<1>6. DOMAIN h2d = 1..Len(h2d) /\ DOMAIN h2d' = 1..(Len(h2d) + 1)
  BY <1>2, <1>5, LenProperties
<1> QED
  BY <1>1, <1>2, <1>4, <1>5, <1>6

(* A device that reads takes the first frame.                              *)
LEMMA Read ==
  ASSUME Types, h2d # <<>>, h2d' = Tail(h2d)
  PROVE  /\ h2d' \in Seq(Frames)
         /\ Len(h2d) \in Nat \ {0}
         /\ DOMAIN h2d = 1..Len(h2d)
         /\ DOMAIN h2d' = 1..(Len(h2d) - 1)
         /\ \A i \in DOMAIN h2d' : i + 1 \in DOMAIN h2d /\ h2d'[i] = h2d[i + 1]
         /\ 1 \in DOMAIN h2d /\ Head(h2d) = h2d[1] /\ Head(h2d) \in Frames
<1>1. h2d \in Seq(Frames)
  BY DEF Types
<1>2. /\ Len(h2d) \in Nat \ {0} /\ DOMAIN h2d = 1..Len(h2d)
      /\ Head(h2d) = h2d[1] /\ Head(h2d) \in Frames
  BY <1>1, HeadTailProperties, EmptySeq, LenProperties
<1>3. /\ h2d' \in Seq(Frames) /\ Len(h2d') = Len(h2d) - 1
      /\ \A i \in 1..Len(h2d') : h2d'[i] = h2d[i + 1]
  BY <1>1, HeadTailProperties
<1>4. DOMAIN h2d' = 1..(Len(h2d) - 1)
  BY <1>3, LenProperties
<1> QED
  BY <1>2, <1>3, <1>4

(* A drop keeps a prefix of what was written.                              *)
LEMMA Kept ==
  ASSUME Types, NEW n \in 0..Len(h2d), h2d' = SubSeq(h2d, 1, n)
  PROVE  /\ h2d' \in Seq(Frames)
         /\ DOMAIN h2d' \subseteq DOMAIN h2d
         /\ DOMAIN h2d = 1..Len(h2d) /\ Len(h2d) \in Nat
         /\ \A i \in DOMAIN h2d' : h2d'[i] = h2d[i]
<1>1. h2d \in Seq(Frames) /\ Len(h2d) \in Nat /\ DOMAIN h2d = 1..Len(h2d)
  BY LenProperties DEF Types
<1>2. h2d' = [i \in 1..n |-> h2d[i]]
  BY <1>1, SMT
<1>3. \A i \in 1..n : h2d[i] \in Frames
  BY <1>1, ElementOfSeq
<1>4. h2d' \in Seq(Frames)
  BY <1>2, <1>3, IsASeq
<1> QED
  BY <1>1, <1>2, <1>4

(* What the invariant says of device, wire and host's counters.            *)
WireInv == Grouped /\ Alive /\ Numbered /\ Versions

(* A frame whoever writes it, numbered and generated in one critical       *)
(* section, fits behind what is on the wire.                               *)
LEMMA WriteKeepsWire ==
  ASSUME Types, Phases, WireInv,
         NEW t \in {"hello", "state", "ping"}, NEW v \in Nat, Write(t, v),
         session' = session, dev' = dev, greeted' = (greeted \/ t = "hello"),
         version' \in Nat, version' >= version,
         t = "state" => v = version',
         t = "hello" => session # NoSession
  PROVE  WireInv'
<1> DEFINE n == Len(h2d)
<1>1. /\ seq' = seq + 1 /\ n \in Nat /\ seq \in Nat
      /\ DOMAIN h2d = 1..n /\ DOMAIN h2d' = 1..(n + 1)
      /\ \A i \in DOMAIN h2d : h2d'[i] = h2d[i]
      /\ h2d'[n + 1].t = t /\ h2d'[n + 1].seq = seq + 1 /\ h2d'[n + 1].session = session
      /\ h2d'[n + 1].version = v
      /\ h2d'[n + 1].live => greeted \/ t = "hello"
      /\ greeted \/ t = "hello" => h2d'[n + 1].live
  BY Written DEF Types
<1>2. /\ \A i \in 1..n : h2d[i] \in Frames
      /\ \A i \in 1..n : h2d[i].seq \in Nat /\ h2d[i].version \in Nat
  <2>1. \A i \in 1..n : h2d[i] \in Frames
    BY ElementOfSeq DEF Types
  <2> QED
    BY <2>1 DEF Frames
<1>3. dev.last \in Nat /\ dev.version \in Nat /\ version \in Nat
  BY DEF Types, Devices
<1>4. greeted => session # NoSession
  BY DEF Phases
<1> HIDE DEF n
<1>5. Grouped'
  <2>1. \A i, j, k \in DOMAIN h2d' :
          i < j /\ j < k /\ h2d'[i].session = h2d'[k].session => h2d'[j].session = h2d'[i].session
    BY <1>1 DEF WireInv, Grouped
  <2>2. \A i, j \in DOMAIN h2d' : i < j /\ h2d'[j].session = dev.session => h2d'[i].session = dev.session
    BY <1>1 DEF WireInv, Grouped
  <2>3. \A i, j \in DOMAIN h2d' : i < j /\ h2d'[i].session = session => h2d'[j].session = session
    BY <1>1 DEF WireInv, Grouped
  <2>4. dev.session = session => \A i \in DOMAIN h2d' : h2d'[i].session = session
    BY <1>1 DEF WireInv, Grouped
  <2> QED
    BY <2>1, <2>2, <2>3, <2>4 DEF Grouped
<1>6. Alive'
  <2>1. \A i \in DOMAIN h2d' : h2d'[i].t = "hello" => h2d'[i].live
    BY <1>1 DEF WireInv, Alive
  <2>2. \A i \in DOMAIN h2d' : h2d'[i].live => h2d'[i].session # NoSession
    BY <1>1, <1>4 DEF WireInv, Alive
  <2>3. \A i, j \in DOMAIN h2d' :
          i < j /\ h2d'[i].session = h2d'[j].session /\ h2d'[i].live => h2d'[j].live
    BY <1>1 DEF WireInv, Alive
  <2>4. \A i \in DOMAIN h2d' : h2d'[i].session = session /\ h2d'[i].live => greeted \/ t = "hello"
    BY <1>1 DEF WireInv, Alive
  <2>5. \A i \in DOMAIN h2d' : h2d'[i].session = dev.session /\ dev.session # NoSession => h2d'[i].live
    BY <1>1 DEF WireInv, Alive
  <2>6. dev.session = session /\ session # NoSession => greeted
    BY DEF WireInv, Alive
  <2> QED
    BY <2>1, <2>2, <2>3, <2>4, <2>5, <2>6 DEF Alive
<1>7. Numbered'
  <2>1. \A j \in DOMAIN h2d' : h2d'[j].live /\ h2d'[j].session = dev.session /\ dev.seen => h2d'[j].seq > dev.last
    BY <1>1, <1>2, <1>3, <1>4 DEF WireInv, Numbered, LiveFramesInOrder
  <2>2. \A j \in DOMAIN h2d' : h2d'[j].live => \A i \in 1..(j - 1) :
          h2d'[i].live /\ h2d'[i].session = h2d'[j].session => h2d'[i].seq < h2d'[j].seq
    <3> SUFFICES ASSUME NEW j \in DOMAIN h2d', h2d'[j].live, NEW i \in 1..(j - 1),
                        h2d'[i].live, h2d'[i].session = h2d'[j].session
                 PROVE  h2d'[i].seq < h2d'[j].seq
      OBVIOUS
    <3>1. i \in DOMAIN h2d /\ h2d'[i] = h2d[i] /\ i < j
      BY <1>1
    <3>2. CASE j \in DOMAIN h2d
      BY <1>1, <3>1, <3>2 DEF WireInv, Numbered, LiveFramesInOrder
    <3>3. CASE j = n + 1
      <4>1. h2d[i].session = session /\ h2d[i].live
        BY <1>1, <3>1, <3>3
      <4>2. h2d[i].seq <= seq
        BY <3>1, <4>1 DEF WireInv, Numbered
      <4> QED
        BY <1>1, <1>2, <3>1, <3>3, <4>2
    <3> QED
      BY <1>1, <3>2, <3>3
  <2>3. \A i \in DOMAIN h2d' : h2d'[i].session = session /\ h2d'[i].live => h2d'[i].seq <= seq'
    BY <1>1, <1>2 DEF WireInv, Numbered
  <2>4. dev.session = session /\ session # NoSession => dev.last <= seq'
    BY <1>1, <1>3 DEF WireInv, Numbered
  <2> QED
    BY <2>1, <2>2, <2>3, <2>4 DEF Numbered, WireInv, LiveFramesInOrder
<1>8. Versions'
  <2>1. dev.version <= version'
    BY <1>3 DEF WireInv, Versions
  <2>2. \A i \in DOMAIN h2d' : h2d'[i].t = "state" =>
          dev.version <= h2d'[i].version /\ h2d'[i].version <= version'
    BY <1>1, <1>2, <1>3, <2>1 DEF WireInv, Versions
  <2>3. \A i, j \in DOMAIN h2d' :
          i < j /\ h2d'[i].t = "state" /\ h2d'[j].t = "state" => h2d'[i].version <= h2d'[j].version
    <3> SUFFICES ASSUME NEW i \in DOMAIN h2d', NEW j \in DOMAIN h2d', i < j,
                        h2d'[i].t = "state", h2d'[j].t = "state"
                 PROVE  h2d'[i].version <= h2d'[j].version
      OBVIOUS
    <3>1. i \in DOMAIN h2d /\ h2d'[i] = h2d[i]
      BY <1>1
    <3>2. CASE j \in DOMAIN h2d
      BY <1>1, <3>1, <3>2 DEF WireInv, Versions
    <3>3. CASE j = n + 1
      BY <1>1, <2>2, <3>1, <3>3
    <3> QED
      BY <1>1, <3>2, <3>3
  <2> QED
    BY <2>1, <2>2, <2>3 DEF Versions, WireInv
<1> QED
  BY <1>5, <1>6, <1>7, <1>8 DEF WireInv

(* Losing what was written last ...                                        *)
LEMMA DropKeepsWire ==
  ASSUME Types, WireInv, NEW n \in 0..Len(h2d), h2d' = SubSeq(h2d, 1, n),
         UNCHANGED <<session, dev, greeted, seq, version>>
  PROVE  WireInv'
<1>1. /\ DOMAIN h2d' \subseteq DOMAIN h2d /\ DOMAIN h2d' \subseteq Nat
      /\ \A i \in DOMAIN h2d' : h2d'[i] = h2d[i]
      /\ \A j \in DOMAIN h2d : 1..(j - 1) \subseteq DOMAIN h2d
      /\ \A j \in DOMAIN h2d' : 1..(j - 1) \subseteq DOMAIN h2d'
  <2>1. DOMAIN h2d' = 1..Len(h2d') /\ Len(h2d') \in Nat
    BY Kept, LenProperties
  <2> QED
    BY Kept, <2>1
<1>2. Grouped'
  <2>1. \A i, j, k \in DOMAIN h2d' :
          i < j /\ j < k /\ h2d'[i].session = h2d'[k].session => h2d'[j].session = h2d'[i].session
    <3>1. \A i, j, k \in DOMAIN h2d :
            i < j /\ j < k /\ h2d[i].session = h2d[k].session => h2d[j].session = h2d[i].session
      BY DEF WireInv, Grouped
    <3> SUFFICES ASSUME NEW i \in DOMAIN h2d', NEW j \in DOMAIN h2d', NEW k \in DOMAIN h2d',
                        i < j, j < k, h2d'[i].session = h2d'[k].session
                 PROVE  h2d'[j].session = h2d'[i].session
      OBVIOUS
    <3>2. i \in DOMAIN h2d /\ j \in DOMAIN h2d /\ k \in DOMAIN h2d
      BY <1>1
    <3>3. h2d[i].session = h2d[k].session
      BY <1>1
    <3> QED
      BY <1>1, <3>1, <3>2, <3>3
  <2>2. \A i, j \in DOMAIN h2d' : i < j /\ h2d'[j].session = dev.session => h2d'[i].session = dev.session
    <3>1. \A i, j \in DOMAIN h2d : i < j /\ h2d[j].session = dev.session => h2d[i].session = dev.session
      BY DEF WireInv, Grouped
    <3> QED
      BY <1>1, <3>1
  <2>3. \A i, j \in DOMAIN h2d' : i < j /\ h2d'[i].session = session => h2d'[j].session = session
    <3>1. \A i, j \in DOMAIN h2d : i < j /\ h2d[i].session = session => h2d[j].session = session
      BY DEF WireInv, Grouped
    <3> QED
      BY <1>1, <3>1
  <2>4. dev.session = session => \A i \in DOMAIN h2d' : h2d'[i].session = session
    BY <1>1 DEF WireInv, Grouped
  <2> QED
    BY <2>1, <2>2, <2>3, <2>4 DEF Grouped
<1>3. Alive'
  BY <1>1 DEF WireInv, Alive
<1>4. Numbered'
  BY <1>1 DEF WireInv, Numbered, LiveFramesInOrder
<1>5. Versions'
  BY <1>1 DEF WireInv, Versions
<1> QED
  BY <1>2, <1>3, <1>4, <1>5 DEF WireInv

(* Dispatch of anything but a hello: the session stays, the frame is       *)
(* ignored or becomes the last one seen.                                   *)
LEMMA DispatchedOther ==
  ASSUME Types, NEW f \in Frames, f.t # "hello", NEW d, d = Dispatch(f)
  PROVE  /\ d \in Devices /\ d.session = dev.session
         /\ d = dev \/ (/\ dev.session # NoSession /\ d.seen /\ d.last = f.seq
                        /\ f.t = "state" => d.version = f.version
                        /\ f.t # "state" => d.version = dev.version)
         /\ dev.session # NoSession /\ (dev.seen => f.seq > dev.last) =>
              /\ d.seen /\ d.last = f.seq
              /\ f.t = "state" => d.version = f.version
<1>1. dev \in Devices /\ f.seq \in Nat /\ f.version \in Nat /\ dev.version \in Nat
  BY DEF Types, Frames, Devices
<1>2. CASE dev.session = NoSession \/ ~Accepted(dev, f)
  <2>1. d = dev
    BY <1>2 DEF Dispatch
  <2> QED
    BY <1>1, <1>2, <2>1 DEF Accepted
<1>3. CASE dev.session # NoSession /\ Accepted(dev, f)
  <2>1. PICK w \in Nat : w = IF f.t = "state" THEN f.version ELSE dev.version
    BY <1>1
  <2>2. d = [dev EXCEPT !.seen = TRUE, !.last = f.seq, !.up = TRUE, !.version = w]
    BY <1>3, <2>1 DEF Dispatch
  <2>3. d \in Devices /\ d.session = dev.session /\ d.seen /\ d.last = f.seq /\ d.version = w
    BY <1>1, <2>1, <2>2 DEF Devices
  <2> QED
    BY <1>3, <2>1, <2>3
<1> QED
  BY <1>2, <1>3

(* Dispatch of a hello: the device is in its session.                      *)
LEMMA DispatchedHello ==
  ASSUME Types, NEW f \in Frames, f.t = "hello", f.session # NoSession, NEW d, d = Dispatch(f)
  PROVE  /\ d \in Devices /\ d.session = f.session /\ d.version = dev.version
         /\ (dev.session = f.session /\ dev.seen => f.seq > dev.last) => d.seen /\ d.last = f.seq
<1> DEFINE b == BeginSession(f.session)
<1>1. dev \in Devices /\ f.seq \in Nat /\ f.session \in SessionIds
  BY DEF Types, Frames
<1>2. /\ b \in Devices /\ b.session = f.session /\ b.version = dev.version
      /\ dev.session = f.session => b = dev
      /\ dev.session # f.session => ~b.seen
  <2>1. CASE dev.session = f.session
    BY <1>1, <2>1 DEF BeginSession
  <2>2. CASE dev.session # f.session
    <3>1. b = [dev EXCEPT !.session = f.session, !.seen = FALSE, !.last = 0, !.up = FALSE]
      BY <2>2 DEF BeginSession
    <3> HIDE DEF b
    <3> QED
      BY <1>1, <2>2, <3>1 DEF Devices
  <2> QED
    BY <2>1, <2>2
<1>3. d = IF Accepted(b, f) THEN [b EXCEPT !.seen = TRUE, !.last = f.seq, !.up = TRUE, !.version = @] ELSE b
  BY <1>2 DEF Dispatch
<1> HIDE DEF b
<1>4. CASE ~Accepted(b, f)
  BY <1>2, <1>3, <1>4 DEF Accepted
<1>5. CASE Accepted(b, f)
  <2>1. d = [b EXCEPT !.seen = TRUE, !.last = f.seq, !.up = TRUE, !.version = @]
    BY <1>3, <1>5
  <2> QED
    BY <1>1, <1>2, <2>1 DEF Devices
<1> QED
  BY <1>4, <1>5

(* A device that reads: frames of its own session are accepted and come in *)
(* order; a stray frame of the next session, sent before that session's    *)
(* hello, may be accepted too, but none of the device's session follows it.*)
LEMMA ReadKeepsWire ==
  ASSUME Types, WireInv, DeviceReceive
  PROVE  /\ WireInv' /\ dev' \in Devices
         /\ dev.version <= dev'.version
         /\ \/ dev'.session = dev.session
            \/ Head(h2d).t = "hello" /\ dev'.session = Head(h2d).session
<1> DEFINE n == Len(h2d) - 1
           f == Head(h2d)
<1>1. /\ n \in Nat /\ DOMAIN h2d = 1..(n + 1) /\ DOMAIN h2d' = 1..n
      /\ \A i \in 1..n : i + 1 \in DOMAIN h2d /\ h2d'[i] = h2d[i + 1]
      /\ f = h2d[1] /\ f \in Frames /\ 1 \in DOMAIN h2d
  BY Read DEF DeviceReceive
<1>2. UNCHANGED <<session, greeted, seq, version>>
  BY DEF DeviceReceive, host, serial
<1>3. dev' = dev \/ dev' = Dispatch(f)
  BY DEF DeviceReceive
<1>4. /\ \A i \in 1..(n + 1) : h2d[i] \in Frames
      /\ \A i \in 1..(n + 1) : h2d[i].seq \in Nat /\ h2d[i].version \in Nat
      /\ f.seq \in Nat /\ f.version \in Nat
  <2>1. \A i \in 1..(n + 1) : h2d[i] \in Frames
    BY <1>1, ElementOfSeq DEF Types
  <2> QED
    BY <1>1, <2>1 DEF Frames
<1>5. /\ dev \in Devices /\ dev.last \in Nat /\ dev.version \in Nat
      /\ version \in Nat /\ seq \in Nat
  BY DEF Types, Devices
<1> HIDE DEF n, f
<1>6. /\ \A i, j, k \in 1..(n + 1) :
           i < j /\ j < k /\ h2d[i].session = h2d[k].session => h2d[j].session = h2d[i].session
      /\ \A i, j \in 1..(n + 1) : i < j /\ h2d[j].session = dev.session => h2d[i].session = dev.session
      /\ \A i, j \in 1..(n + 1) : i < j /\ h2d[i].session = session => h2d[j].session = session
      /\ dev.session = session => \A i \in 1..(n + 1) : h2d[i].session = session
  BY <1>1 DEF WireInv, Grouped
<1>7. /\ \A i \in 1..(n + 1) : h2d[i].t = "hello" => h2d[i].live
      /\ \A i \in 1..(n + 1) : h2d[i].live => h2d[i].session # NoSession
      /\ \A i, j \in 1..(n + 1) :
           i < j /\ h2d[i].session = h2d[j].session /\ h2d[i].live => h2d[j].live
      /\ \A i \in 1..(n + 1) : h2d[i].session = session /\ h2d[i].live => greeted
      /\ \A i \in 1..(n + 1) : h2d[i].session = dev.session /\ dev.session # NoSession => h2d[i].live
      /\ dev.session = session /\ session # NoSession => greeted
  BY <1>1 DEF WireInv, Alive
<1>8. /\ \A j \in 1..(n + 1) : h2d[j].live /\ h2d[j].session = dev.session /\ dev.seen => h2d[j].seq > dev.last
      /\ \A i, j \in 1..(n + 1) :
           i < j /\ h2d[i].live /\ h2d[j].live /\ h2d[i].session = h2d[j].session => h2d[i].seq < h2d[j].seq
      /\ \A i \in 1..(n + 1) : h2d[i].session = session /\ h2d[i].live => h2d[i].seq <= seq
      /\ dev.session = session /\ session # NoSession => dev.last <= seq
      /\ dev.session = NoSession => ~dev.seen
  <2>1. \A i, j \in 1..(n + 1) : i < j => i \in 1..(j - 1)
    BY <1>1
  <2>2. \A i, j \in 1..(n + 1) :
          i < j /\ h2d[i].live /\ h2d[j].live /\ h2d[i].session = h2d[j].session => h2d[i].seq < h2d[j].seq
    BY <1>1, <2>1 DEF WireInv, Numbered, LiveFramesInOrder
  <2> QED
    BY <1>1, <2>2 DEF WireInv, Numbered, LiveFramesInOrder
<1>9. /\ dev.version <= version
      /\ dev.session = NoSession => dev.version = 0
      /\ \A i \in 1..(n + 1) : h2d[i].t = "state" => dev.version <= h2d[i].version /\ h2d[i].version <= version
      /\ \A i, j \in 1..(n + 1) :
           i < j /\ h2d[i].t = "state" /\ h2d[j].t = "state" => h2d[i].version <= h2d[j].version
  BY <1>1 DEF WireInv, Versions
<1>10. f.t = "hello" => f.live /\ f.session # NoSession
  BY <1>1, <1>7
<1>11. /\ dev' \in Devices
       /\ dev'.session = dev.session \/ (f.t = "hello" /\ dev'.session = f.session)
       /\ dev'.version = dev.version \/ (f.t = "state" /\ dev'.version = f.version)
       /\ dev'.session = NoSession => dev' = dev
       /\ \/ dev' = dev
          \/ f.t # "hello" /\ dev'.session = dev.session /\ dev'.seen /\ dev'.last = f.seq
          \/ f.t = "hello" /\ dev'.session = f.session /\ dev'.seen /\ dev'.last = f.seq
  <2>1. CASE dev' = dev
    BY <1>5, <2>1
  <2>2. CASE dev' = Dispatch(f) /\ f.t # "hello"
    BY <1>1, <2>2, DispatchedOther
  <2>3. CASE dev' = Dispatch(f) /\ f.t = "hello"
    <3>1. dev.session = f.session /\ dev.seen => f.seq > dev.last
      BY <1>1, <1>8, <1>10, <2>3
    <3> QED
      BY <1>1, <1>10, <2>3, <3>1, DispatchedHello
  <2> QED
    BY <1>3, <2>1, <2>2, <2>3
<1>12. /\ dev'.last \in Nat /\ dev'.version \in Nat
  BY <1>11 DEF Devices
<1>13. Grouped'
  <2>1. \A i, j, k \in 1..n :
          i < j /\ j < k /\ h2d'[i].session = h2d'[k].session => h2d'[j].session = h2d'[i].session
    <3> SUFFICES ASSUME NEW i \in 1..n, NEW j \in 1..n, NEW k \in 1..n,
                        i < j, j < k, h2d'[i].session = h2d'[k].session
                 PROVE  h2d'[j].session = h2d'[i].session
      OBVIOUS
    <3>1. /\ i + 1 \in 1..(n + 1) /\ j + 1 \in 1..(n + 1) /\ k + 1 \in 1..(n + 1)
          /\ i + 1 < j + 1 /\ j + 1 < k + 1 /\ h2d[i + 1].session = h2d[k + 1].session
      BY <1>1
    <3>2. h2d[j + 1].session = h2d[i + 1].session
      BY <1>6, <3>1
    <3> QED
      BY <1>1, <3>2
  <2>2. \A i, j \in 1..n : i < j /\ h2d'[j].session = dev'.session => h2d'[i].session = dev'.session
    <3> SUFFICES ASSUME NEW i \in 1..n, NEW j \in 1..n, i < j, h2d'[j].session = dev'.session
                 PROVE  h2d'[i].session = dev'.session
      OBVIOUS
    <3>1. /\ i + 1 \in 1..(n + 1) /\ j + 1 \in 1..(n + 1) /\ 1 \in 1..(n + 1)
          /\ i + 1 < j + 1 /\ 1 < i + 1 /\ h2d[j + 1].session = dev'.session
      BY <1>1
    <3>2. h2d[i + 1].session = dev'.session
      BY <1>1, <1>6, <1>11, <3>1
    <3> QED
      BY <1>1, <3>2
  <2>3. \A i, j \in 1..n : i < j /\ h2d'[i].session = session => h2d'[j].session = session
    BY <1>1, <1>6
  <2>4. dev'.session = session => \A i \in 1..n : h2d'[i].session = session
    BY <1>1, <1>6, <1>11
  <2> QED
    BY <1>1, <1>2, <2>1, <2>2, <2>3, <2>4 DEF Grouped
<1>14. Alive'
  <2>1. \A i \in 1..n : h2d'[i].session = dev'.session /\ dev'.session # NoSession => h2d'[i].live
    <3> SUFFICES ASSUME NEW i \in 1..n, h2d'[i].session = dev'.session, dev'.session # NoSession
                 PROVE  h2d'[i].live
      OBVIOUS
    <3>1. i + 1 \in 1..(n + 1) /\ 1 \in 1..(n + 1) /\ 1 < i + 1 /\ h2d'[i] = h2d[i + 1]
      BY <1>1
    <3> QED
      BY <1>1, <1>7, <1>10, <1>11, <3>1
  <2>2. dev'.session = session /\ session # NoSession => greeted
    BY <1>1, <1>7, <1>10, <1>11
  <2>3. \A i, j \in 1..n :
          i < j /\ h2d'[i].session = h2d'[j].session /\ h2d'[i].live => h2d'[j].live
    BY <1>1, <1>7
  <2>4. /\ \A i \in 1..n : h2d'[i].t = "hello" => h2d'[i].live
        /\ \A i \in 1..n : h2d'[i].live => h2d'[i].session # NoSession
        /\ \A i \in 1..n : h2d'[i].session = session /\ h2d'[i].live => greeted
    BY <1>1, <1>7
  <2> QED
    BY <1>1, <1>2, <2>1, <2>2, <2>3, <2>4 DEF Alive
<1>15. Numbered'
  <2>1. \A j \in 1..n : h2d'[j].live /\ h2d'[j].session = dev'.session /\ dev'.seen => h2d'[j].seq > dev'.last
    <3> SUFFICES ASSUME NEW j \in 1..n, h2d'[j].live, h2d'[j].session = dev'.session, dev'.seen
                 PROVE  h2d'[j].seq > dev'.last
      OBVIOUS
    <3>1. /\ j + 1 \in 1..(n + 1) /\ 1 \in 1..(n + 1) /\ 1 < j + 1 /\ h2d'[j] = h2d[j + 1]
          /\ h2d[j + 1].seq \in Nat /\ h2d[j + 1].live /\ h2d[j + 1].session = dev'.session
      BY <1>1, <1>4
    <3>2. CASE dev' = dev
      BY <1>8, <3>1, <3>2
    <3>3. CASE f.t # "hello" /\ dev'.session = dev.session /\ dev'.last = f.seq
      <4>1. h2d[1].session = dev.session
        BY <1>6, <3>1, <3>3
      <4>2. h2d[1].live
        BY <1>7, <3>1, <3>3, <4>1
      <4>3. h2d[1].seq < h2d[j + 1].seq
        BY <1>8, <3>1, <3>3, <4>1, <4>2
      <4> QED
        BY <1>1, <1>4, <3>1, <3>3, <4>3
    <3>4. CASE f.t = "hello" /\ dev'.session = f.session /\ dev'.last = f.seq
      <4>1. h2d[1].seq < h2d[j + 1].seq
        BY <1>1, <1>8, <1>10, <3>1, <3>4
      <4> QED
        BY <1>1, <1>4, <3>1, <3>4, <4>1
    <3> QED
      BY <1>11, <3>2, <3>3, <3>4
  <2>2. \A j \in 1..n : h2d'[j].live => \A i \in 1..(j - 1) :
          h2d'[i].live /\ h2d'[i].session = h2d'[j].session => h2d'[i].seq < h2d'[j].seq
    <3> SUFFICES ASSUME NEW j \in 1..n, h2d'[j].live, NEW i \in 1..(j - 1),
                        h2d'[i].live, h2d'[i].session = h2d'[j].session
                 PROVE  h2d'[i].seq < h2d'[j].seq
      OBVIOUS
    <3>1. /\ i + 1 \in 1..(n + 1) /\ j + 1 \in 1..(n + 1) /\ i + 1 < j + 1
          /\ h2d'[i] = h2d[i + 1] /\ h2d'[j] = h2d[j + 1]
      BY <1>1
    <3> QED
      BY <1>8, <3>1
  <2>3. \A i \in 1..n : h2d'[i].session = session /\ h2d'[i].live => h2d'[i].seq <= seq
    BY <1>1, <1>8
  <2>4. dev'.session = session /\ session # NoSession => dev'.last <= seq
    <3> SUFFICES ASSUME dev'.session = session, session # NoSession
                 PROVE  dev'.last <= seq
      OBVIOUS
    <3>1. CASE dev' = dev
      BY <1>8, <3>1
    <3>2. CASE f.t # "hello" /\ dev'.session = dev.session /\ dev'.last = f.seq
      <4>1. f.session = session /\ f.live
        BY <1>1, <1>6, <1>7, <3>2
      <4> QED
        BY <1>1, <1>8, <3>2, <4>1
    <3>3. CASE f.t = "hello" /\ dev'.session = f.session /\ dev'.last = f.seq
      BY <1>1, <1>8, <1>10, <3>3
    <3> QED
      BY <1>11, <3>1, <3>2, <3>3
  <2>5. dev'.session = NoSession => ~dev'.seen
    BY <1>8, <1>11
  <2> QED
    BY <1>1, <1>2, <2>1, <2>2, <2>3, <2>4, <2>5 DEF Numbered, LiveFramesInOrder
<1>16. Versions'
  <2>1. dev'.version <= version
    BY <1>1, <1>9, <1>11
  <2>2. dev'.session = NoSession => dev'.version = 0
    BY <1>9, <1>11
  <2>3. \A i \in 1..n : h2d'[i].t = "state" => dev'.version <= h2d'[i].version /\ h2d'[i].version <= version
    <3> SUFFICES ASSUME NEW i \in 1..n, h2d'[i].t = "state"
                 PROVE  dev'.version <= h2d'[i].version /\ h2d'[i].version <= version
      OBVIOUS
    <3>1. i + 1 \in 1..(n + 1) /\ 1 \in 1..(n + 1) /\ 1 < i + 1 /\ h2d'[i] = h2d[i + 1]
      BY <1>1
    <3> QED
      BY <1>1, <1>9, <1>11, <3>1
  <2>4. \A i, j \in 1..n :
          i < j /\ h2d'[i].t = "state" /\ h2d'[j].t = "state" => h2d'[i].version <= h2d'[j].version
    BY <1>1, <1>9
  <2> QED
    BY <1>1, <1>2, <2>1, <2>2, <2>3, <2>4 DEF Versions
<1>17. dev.version <= dev'.version
  BY <1>1, <1>5, <1>9, <1>11
<1> QED
  BY <1>11, <1>13, <1>14, <1>15, <1>16, <1>17 DEF WireInv, f

(* The session _on_connected takes is none of those in use.                *)
LEMMA FreshIsNew ==
  ASSUME ~(Sessions \subseteq SessionsInUse)
  PROVE  FreshSession \in Sessions /\ FreshSession \notin SessionsInUse
BY DEF FreshSession

LEMMA ConnectKeepsWire ==
  ASSUME Types, WireInv, OnConnected
  PROVE  WireInv' /\ session' \in SessionIds /\ session' # NoSession
<1>1. /\ session' \in Sessions /\ session' # dev.session
      /\ \A i \in DOMAIN h2d : h2d[i].session # session'
  BY FreshIsNew DEF OnConnected, SessionsInUse
<1>2. UNCHANGED <<h2d, dev, seq, version>> /\ ~greeted'
  BY DEF OnConnected, wire
<1>3. session' # NoSession
  BY <1>1, DeviceLinkAssumption
<1>4. Grouped'
  <2>1. Grouped
    BY DEF WireInv
  <2> QED
    BY <1>1, <1>2, <2>1 DEF Grouped
<1>5. Alive'
  BY <1>1, <1>2 DEF Alive, WireInv
<1>6. Numbered'
  BY <1>1, <1>2 DEF Numbered, LiveFramesInOrder, WireInv
<1>7. Versions'
  BY <1>2 DEF Versions, WireInv
<1> QED
  BY <1>1, <1>3, <1>4, <1>5, <1>6, <1>7 DEF WireInv, SessionIds

(* Only the numbers of a greeted session are compared with _sequence.      *)
LEMMA ResetKeepsWire ==
  ASSUME Types, Phases, WireInv, ResetSequence
  PROVE  WireInv'
<1>1. UNCHANGED <<h2d, dev, session, greeted, version>> /\ ~greeted /\ session # NoSession
  BY DEF ResetSequence, wire, Phases, Connected
<1>2. Grouped' /\ Alive' /\ Versions'
  BY <1>1 DEF WireInv, Grouped, Alive, Versions
<1>3. Numbered'
  BY <1>1 DEF Numbered, LiveFramesInOrder, WireInv, Alive
<1> QED
  BY <1>2, <1>3 DEF WireInv

(* A restarted device has no session, and nothing is on the wire.          *)
LEMMA RestartKeepsWire ==
  ASSUME Types, WireInv, h2d' = <<>>, dev' = Blank, UNCHANGED <<session, greeted, seq, version>>
  PROVE  WireInv' /\ h2d' \in Seq(Frames) /\ dev' \in Devices
<1>1. h2d' \in Seq(Frames) /\ DOMAIN h2d' = {}
  BY EmptySeq
<1>2. /\ dev' \in Devices /\ dev'.session = NoSession /\ ~dev'.seen /\ dev'.last = 0 /\ dev'.version = 0
  BY DEF Blank, Devices, SessionIds
<1>3. Grouped'
  BY <1>1 DEF Grouped
<1>4. Alive'
  BY <1>1, <1>2 DEF Alive
<1>5. Numbered'
  BY <1>1, <1>2 DEF Numbered, LiveFramesInOrder, Types
<1>6. Versions'
  BY <1>1, <1>2 DEF Versions, Types
<1> QED
  BY <1>1, <1>2, <1>3, <1>4, <1>5, <1>6 DEF WireInv

(* The host's state moves ahead of what has been told; the link timer of   *)
(* the device touches neither session nor numbers.                         *)
LEMMA AheadKeepsWire ==
  ASSUME Types, WireInv, UNCHANGED <<h2d, session, greeted, seq>>,
         version' \in Nat, version' >= version,
         dev'.session = dev.session, dev'.seen = dev.seen, dev'.last = dev.last, dev'.version = dev.version
  PROVE  WireInv'
<1>1. /\ \A i \in DOMAIN h2d : h2d[i].version \in Nat
      /\ dev.version \in Nat /\ version \in Nat
  <2>1. \A i \in DOMAIN h2d : h2d[i] \in Frames
    BY ElementOfSeq, LenProperties DEF Types
  <2> QED
    BY <2>1 DEF Types, Frames, Devices
<1>2. Grouped' /\ Alive' /\ Numbered'
  BY DEF WireInv, Grouped, Alive, Numbered, LiveFramesInOrder
<1>3. Versions'
  BY <1>1 DEF WireInv, Versions
<1> QED
  BY <1>2, <1>3 DEF WireInv

-----------------------------------------------------------------------------
(* The latest version is told.                                             *)

(* Steps that touch neither wire, device nor state.                        *)
LEMMA StableTold ==
  ASSUME Told, UNCHANGED <<h2d, torn, dev, session, version>>,
         Connected' => Connected \/ dev.session # session,
         Snapshotted' => Snapshotted,
         Snapshotted' /\ SendPending => SendPending'
  PROVE  Told'
<1>1. \A n \in DOMAIN h2d \cup {0} : OnTheWay(n) => \E j \in DOMAIN h2d' : j > n /\ h2d'[j].t = "state" /\ h2d'[j].version = version'
  BY DEF OnTheWay
<1>2. Connected' /\ dev'.session = session' => ~torn'
  BY DEF Told
<1>3. ASSUME Snapshotted', ~SendPending'
      PROVE  /\ dev'.session = session' => dev'.version = version' \/ OnTheWay(0)'
             /\ \A i \in DOMAIN h2d' : h2d'[i].t = "hello" /\ h2d'[i].session = session' => OnTheWay(i)'
  BY <1>1, <1>3 DEF Told, OnTheWay
<1> QED
  BY <1>2, <1>3 DEF Told

(* A written snapshot holds the state of the moment it is written.         *)
LEMMA SnapshotTold ==
  ASSUME Types, Told, Write("state", version'), version' \in Nat,
         UNCHANGED <<torn, dev, session>>,
         Connected' => Connected
  PROVE  Told'
<1>1. /\ Len(h2d) \in Nat
      /\ DOMAIN h2d' = 1..(Len(h2d) + 1)
      /\ h2d'[Len(h2d) + 1].t = "state" /\ h2d'[Len(h2d) + 1].version = version'
  BY Written
<1>2. OnTheWay(0)' /\ \A i \in DOMAIN h2d' : i # Len(h2d) + 1 => OnTheWay(i)'
  BY <1>1 DEF OnTheWay
<1> QED
  BY <1>1, <1>2 DEF Told

(* A ping leaves what is on its way in its place.                          *)
LEMMA PingTold ==
  ASSUME Types, Told, Write("ping", 0),
         UNCHANGED <<torn, dev, session, version, phase, handshake, pc>>
  PROVE  Told'
<1>1. /\ Len(h2d) \in Nat /\ DOMAIN h2d = 1..Len(h2d)
      /\ DOMAIN h2d' = 1..(Len(h2d) + 1)
      /\ \A i \in DOMAIN h2d : h2d'[i] = h2d[i]
      /\ h2d'[Len(h2d) + 1].t = "ping"
  BY Written
<1>2. \A i \in DOMAIN h2d \cup {0} : OnTheWay(i) => OnTheWay(i)'
  BY <1>1 DEF OnTheWay
<1>3. Connected' = Connected /\ Snapshotted' = Snapshotted /\ SendPending' = SendPending
  BY DEF Connected, Snapshotted, SendPending
<1> QED
  BY <1>1, <1>2, <1>3 DEF Told

(* The device reads: the snapshot is applied, or comes nearer.             *)
LEMMA ReadTold ==
  ASSUME LinkInv, DeviceReceive
  PROVE  Told'
<1> DEFINE f == Head(h2d)
<1>1. /\ Len(h2d) \in Nat \ {0} /\ DOMAIN h2d = 1..Len(h2d) /\ DOMAIN h2d' = 1..(Len(h2d) - 1)
      /\ \A i \in DOMAIN h2d' : i + 1 \in DOMAIN h2d /\ h2d'[i] = h2d[i + 1]
      /\ f = h2d[1] /\ f \in Frames /\ 1 \in DOMAIN h2d
  BY Read DEF LinkInv, DeviceReceive
<1>2. UNCHANGED <<session, version, phase, handshake, pc>> /\ ~torn'
  BY DEF DeviceReceive, host, serial
<1>3. /\ dev' \in Devices /\ dev.version <= dev'.version /\ dev'.version <= version
      /\ dev'.session = dev.session \/ (f.t = "hello" /\ dev'.session = f.session)
  <2>1. WireInv
    BY DEF LinkInv, WireInv
  <2> QED
    BY <1>2, <2>1, ReadKeepsWire DEF LinkInv, WireInv, Versions
<1>4. dev.version \in Nat /\ dev'.version \in Nat /\ version \in Nat
  BY <1>3 DEF LinkInv, Types, Devices
<1> HIDE DEF f
<1>5. \A i \in DOMAIN h2d', j \in DOMAIN h2d : j > i + 1 => j - 1 \in DOMAIN h2d' /\ j - 1 > i /\ h2d'[j - 1] = h2d[j]
  BY <1>1
<1>6. \A j \in DOMAIN h2d : j > 1 => j - 1 \in DOMAIN h2d' /\ j - 1 > 0 /\ h2d'[j - 1] = h2d[j]
  BY <1>1
<1>7. ASSUME Snapshotted, ~SendPending
      PROVE  /\ dev'.session = session => dev'.version = version \/ OnTheWay(0)'
             /\ \A i \in DOMAIN h2d' : h2d'[i].t = "hello" /\ h2d'[i].session = session => OnTheWay(i)'
  <2>0. /\ dev.session = session => dev.version = version \/ OnTheWay(0)
        /\ \A i \in DOMAIN h2d : h2d[i].t = "hello" /\ h2d[i].session = session => OnTheWay(i)
        /\ dev.session = session => ~torn
        /\ session # NoSession
    BY <1>7 DEF LinkInv, Told, Snapshotted, Connected, Phases
  <2>1. OnTheWay(1) => OnTheWay(0)'
    BY <1>2, <1>6 DEF OnTheWay
  <2>2. dev'.session = session => dev'.version = version \/ OnTheWay(0)'
    <3>2. CASE dev.session # session
      BY <1>1, <1>3, <2>0, <2>1, <3>2
    <3>3. CASE dev.session = session
      <4>1. CASE dev.version = version
        BY <1>3, <1>4, <4>1
      <4>2. CASE OnTheWay(1)
        BY <2>1, <4>2
      <4>3. CASE OnTheWay(0) /\ ~OnTheWay(1)
        <5>1. f.t = "state" /\ f.version = version
          BY <1>1, <4>3 DEF OnTheWay
        <5>2. f.session = dev.session /\ f.live /\ dev.session # NoSession
          BY <1>1, <2>0, <3>3 DEF LinkInv, Grouped, Alive
        <5>3. dev.seen => f.seq > dev.last
          BY <1>1, <5>2 DEF LinkInv, Numbered, LiveFramesInOrder
        <5>4. dev' = Dispatch(f)
          BY <2>0, <3>3 DEF DeviceReceive, f
        <5>5. dev'.version = f.version
          BY <1>1, <5>1, <5>2, <5>3, <5>4, DispatchedOther DEF LinkInv
        <5> QED
          BY <5>1, <5>5
      <4> QED
        BY <2>0, <3>3, <4>1, <4>2, <4>3
    <3> QED
      BY <3>2, <3>3
  <2>4. ASSUME NEW i \in DOMAIN h2d', h2d'[i].t = "hello", h2d'[i].session = session
        PROVE  OnTheWay(i)'
    <3>1. OnTheWay(i + 1)
      BY <1>1, <2>0, <2>4
    <3> QED
      BY <1>2, <1>5, <3>1 DEF OnTheWay
  <2> QED
    BY <2>2, <2>4
<1>8. Snapshotted' = Snapshotted /\ SendPending' = SendPending
  BY <1>2 DEF Snapshotted, SendPending
<1> QED
  BY <1>2, <1>7, <1>8 DEF Told

-----------------------------------------------------------------------------
(* The induction.                                                          *)

LEMMA LinkInit == Init => LinkInv
<1> SUFFICES ASSUME Init PROVE LinkInv
  OBVIOUS
<1>1. h2d \in Seq(Frames) /\ DOMAIN h2d = {}
  BY EmptySeq DEF Init
<1>2. dev \in Devices /\ dev.session = NoSession /\ ~dev.seen /\ dev.last = 0 /\ dev.version = 0
  BY DEF Init, Blank, Devices, SessionIds
<1>3. Types
  BY <1>1, <1>2 DEF Init, Types, SessionIds
<1>4. Phases
  BY DEF Init, Phases, Connected
<1>5. Grouped /\ Alive
  BY <1>1 DEF Init, Grouped, Alive
<1>6. Numbered /\ Versions
  BY <1>1, <1>2 DEF Init, Numbered, LiveFramesInOrder, Versions
<1>7. Told
  BY DEF Init, Told, Snapshotted, Connected
<1> QED
  BY <1>3, <1>4, <1>5, <1>6, <1>7 DEF LinkInv

(* Threads other than the serial thread.                                   *)
LEMMA SenderKeeps ==
  ASSUME LinkInv, NEW s \in Senders, ChangeState(s) \/ CheckHandshake(s) \/ SendSnapshot(s)
  PROVE  LinkInv'
<1>0. Types /\ Phases /\ WireInv /\ Told
  BY DEF LinkInv, WireInv
<1>1. CASE ChangeState(s)
  <2>1. UNCHANGED <<phase, active, session, greeted, handshake, seq, h2d, torn, dev>> /\ version' = version + 1
    BY <1>1 DEF ChangeState, serial, wire
  <2>2. pc' = [pc EXCEPT ![s] = "check"]
    BY <1>1 DEF ChangeState
  <2>3. version \in Nat /\ version' \in Nat /\ version' >= version
    BY <1>0, <2>1 DEF Types
  <2>4. Types'
    BY <1>0, <2>1, <2>2, <2>3 DEF Types
  <2>5. Phases'
    BY <1>0, <2>1 DEF Phases, Connected
  <2>6. WireInv'
    BY <1>0, <2>1, <2>3, AheadKeepsWire
  <2>7. SendPending' /\ Connected' = Connected
    BY <1>0, <2>1, <2>2 DEF SendPending, Types, Connected
  <2>8. Told'
    BY <1>0, <2>1, <2>7 DEF Told
  <2> QED
    BY <2>4, <2>5, <2>6, <2>8 DEF LinkInv, WireInv
<1>2. CASE CheckHandshake(s)
  <2>1. UNCHANGED <<phase, active, session, greeted, handshake, seq, version, h2d, torn, dev>>
    BY <1>2 DEF CheckHandshake, serial, wire
  <2>2. pc' = [pc EXCEPT ![s] = IF handshake THEN "send" ELSE "idle"]
    BY <1>2 DEF CheckHandshake
  <2>3. version \in Nat
    BY <1>0 DEF Types
  <2>4. Types'
    BY <1>0, <2>1, <2>2 DEF Types
  <2>5. Phases'
    BY <1>0, <2>1 DEF Phases, Connected
  <2>6. WireInv'
    BY <1>0, <2>1, <2>3, AheadKeepsWire
  <2>7. Snapshotted => SendPending'
    <3>1. Snapshotted => handshake
      BY <1>2 DEF CheckHandshake, HandshakeReadable, HandshakeLocked, Snapshotted
    <3> QED
      BY <1>0, <2>2, <3>1 DEF SendPending, Types
  <2>8. Connected' = Connected /\ Snapshotted' = Snapshotted
    BY <2>1 DEF Connected, Snapshotted
  <2>9. Told'
    BY <1>0, <2>1, <2>7, <2>8, StableTold
  <2> QED
    BY <2>4, <2>5, <2>6, <2>9 DEF LinkInv, WireInv
<1>3. CASE SendSnapshot(s)
  <2>1. UNCHANGED <<phase, active, session, greeted, handshake, version, torn, dev>>
    BY <1>3 DEF SendSnapshot, serial
  <2>2. pc' = [pc EXCEPT ![s] = "idle"]
    BY <1>3 DEF SendSnapshot
  <2>3. version \in Nat /\ version' >= version
    BY <1>0, <2>1 DEF Types
  <2>4. Phases'
    BY <1>0, <2>1 DEF Phases, Connected
  <2>5. Connected' = Connected
    BY <2>1 DEF Connected
  <2>6. CASE Write("state", version)
    <3>1. seq' \in Nat /\ h2d' \in Seq(Frames)
      BY <1>0, <2>3, <2>6, Written
    <3>2. Types'
      BY <1>0, <2>1, <2>2, <3>1 DEF Types
    <3>3. greeted' = (greeted \/ "state" = "hello")
      BY <1>0, <2>1, Zenon DEF Types
    <3>4. WireInv'
      BY <1>0, <2>1, <2>3, <2>6, <3>3, WriteKeepsWire
    <3>5. Told'
      BY <1>0, <2>1, <2>3, <2>5, <2>6, SnapshotTold
    <3> QED
      BY <2>4, <3>2, <3>4, <3>5 DEF LinkInv, WireInv
  <2>7. CASE ~active /\ UNCHANGED <<seq, h2d>>
    <3>1. Types'
      BY <1>0, <2>1, <2>2, <2>7 DEF Types
    <3>2. WireInv'
      BY <1>0, <2>1, <2>3, <2>7, AheadKeepsWire
    <3>3. ~Connected /\ ~Snapshotted'
      BY <1>0, <2>1, <2>7 DEF Phases, Connected, Snapshotted
    <3>4. Told'
      BY <2>5, <3>3 DEF Told
    <3> QED
      BY <2>4, <3>1, <3>2, <3>4 DEF LinkInv, WireInv
  <2> QED
    BY <1>3, <2>6, <2>7 DEF SendSnapshot, Snapshot
<1> QED
  BY <1>1, <1>2, <1>3

(* Steps of the serial thread that do not write.                           *)
LEMMA SerialKeeps ==
  ASSUME LinkInv,
         Open \/ OnConnected \/ ResetSequence \/ OnStale \/ SkipOldNumber \/ HelloIgnored \/ CompleteHandshake
  PROVE  LinkInv'
<1>0. Types /\ Phases /\ WireInv /\ Told
  BY DEF LinkInv, WireInv
<1>1. version \in Nat /\ version >= version
  BY <1>0 DEF Types
<1>2. CASE Open
  <2>1. UNCHANGED <<session, greeted, handshake, seq, version, pc, h2d, torn, dev>> /\ phase' = "opened" /\ active' = TRUE
    BY <1>2 DEF Open
  <2>2. Types'
    BY <1>0, <2>1 DEF Types
  <2>3. Phases'
    BY <1>0, <2>1 DEF Phases, Connected
  <2>4. WireInv'
    BY <1>0, <1>1, <2>1, AheadKeepsWire
  <2>5. Told'
    BY <2>1 DEF Told, Connected, Snapshotted
  <2> QED
    BY <2>2, <2>3, <2>4, <2>5 DEF LinkInv, WireInv
<1>3. CASE OnConnected
  <2>1. /\ UNCHANGED <<active, seq, version, pc, h2d, torn, dev>> /\ phase = "opened" /\ phase' = "fresh"
        /\ handshake' = FALSE /\ greeted' = FALSE
    BY <1>3 DEF OnConnected, wire
  <2>2. WireInv' /\ session' \in SessionIds /\ session' # NoSession
    BY <1>0, <1>3, ConnectKeepsWire
  <2>3. Types'
    BY <1>0, <2>1, <2>2 DEF Types
  <2>4. Phases'
    BY <1>0, <2>1, <2>2 DEF Phases, Connected
  <2>5. dev.session # session'
    BY <2>1, <2>2 DEF WireInv, Alive
  <2>6. Told'
    BY <2>1, <2>5 DEF Told, Snapshotted
  <2> QED
    BY <2>2, <2>3, <2>4, <2>6 DEF LinkInv, WireInv
<1>4. CASE ResetSequence
  <2>1. /\ UNCHANGED <<active, session, greeted, handshake, version, pc, h2d, torn, dev>>
        /\ phase = "fresh" /\ phase' = "reading" /\ seq' = 0
    BY <1>4 DEF ResetSequence, wire
  <2>2. WireInv'
    BY <1>0, <1>4, ResetKeepsWire
  <2>3. Types'
    BY <1>0, <2>1 DEF Types
  <2>4. Phases'
    BY <1>0, <2>1 DEF Phases, Connected
  <2>5. ~Snapshotted' /\ Connected
    BY <1>0, <2>1 DEF Snapshotted, Phases, Connected
  <2>6. Told'
    BY <1>0, <2>1, <2>5 DEF Told
  <2> QED
    BY <2>2, <2>3, <2>4, <2>6 DEF LinkInv, WireInv
<1>5. CASE OnStale
  <2>1. /\ UNCHANGED <<active, session, greeted, seq, version, pc, h2d, torn, dev>>
        /\ phase = "dropped" /\ phase' = "closed" /\ handshake' = FALSE
    BY <1>5 DEF OnStale, wire
  <2>2. Types'
    BY <1>0, <2>1 DEF Types
  <2>3. Phases'
    BY <1>0, <2>1 DEF Phases, Connected
  <2>4. WireInv'
    BY <1>0, <1>1, <2>1, AheadKeepsWire
  <2>5. Told'
    BY <2>1 DEF Told, Connected, Snapshotted
  <2> QED
    BY <2>2, <2>3, <2>4, <2>5 DEF LinkInv, WireInv
<1>6. CASE SkipOldNumber \/ HelloIgnored
  <2>1. UNCHANGED <<phase, active, session, greeted, handshake, seq, version, pc, h2d, torn, dev>>
    BY <1>6 DEF SkipOldNumber, HelloIgnored, host, serial
  <2>2. Types'
    BY <1>0, <2>1 DEF Types
  <2>3. Phases'
    BY <1>0, <2>1 DEF Phases, Connected
  <2>4. WireInv'
    BY <1>0, <1>1, <2>1, AheadKeepsWire
  <2>5. Connected' = Connected /\ Snapshotted' = Snapshotted /\ SendPending' = SendPending
    BY <2>1 DEF Connected, Snapshotted, SendPending
  <2>6. Told'
    BY <1>0, <2>1, <2>5, StableTold
  <2> QED
    BY <2>2, <2>3, <2>4, <2>6 DEF LinkInv, WireInv
<1>7. CASE CompleteHandshake
  <2>1. /\ UNCHANGED <<active, session, greeted, seq, version, pc, h2d, torn, dev>>
        /\ phase = "snapshotted" /\ phase' = "reading" /\ handshake' = TRUE
    BY <1>7 DEF CompleteHandshake, wire
  <2>2. Types'
    BY <1>0, <2>1 DEF Types
  <2>3. Phases'
    BY <1>0, <2>1 DEF Phases, Connected
  <2>4. WireInv'
    BY <1>0, <1>1, <2>1, AheadKeepsWire
  <2>5. Connected /\ Snapshotted /\ SendPending' = SendPending
    BY <2>1 DEF Connected, Snapshotted, SendPending
  <2>6. Told'
    BY <1>0, <2>1, <2>5, StableTold
  <2> QED
    BY <2>2, <2>3, <2>4, <2>6 DEF LinkInv, WireInv
<1> QED
  BY <1>2, <1>3, <1>4, <1>5, <1>6, <1>7

(* Steps of the serial thread that write.                                  *)
LEMMA ReplyKeeps ==
  ASSUME LinkInv, ReplyHello \/ ReplySnapshot \/ HandleSelect \/ Ping
  PROVE  LinkInv'
<1>0. Types /\ Phases /\ WireInv /\ Told
  BY DEF LinkInv, WireInv
<1>1. version \in Nat /\ version >= version /\ 0 \in Nat
  BY <1>0 DEF Types
<1>2. CASE ReplyHello
  <2>1. /\ UNCHANGED <<active, session, handshake, version, pc, torn, dev>>
        /\ phase = "reading" /\ phase' = "replying" /\ greeted' = TRUE /\ Write("hello", 0)
    BY <1>2 DEF ReplyHello, Receive
  <2>2. session # NoSession /\ Connected
    BY <1>0, <2>1 DEF Phases, Connected
  <2>3. seq' \in Nat /\ h2d' \in Seq(Frames)
    BY <1>0, <1>1, <2>1, Written
  <2>4. Types'
    BY <1>0, <2>1, <2>3 DEF Types
  <2>5. Phases'
    BY <1>0, <2>1 DEF Phases, Connected
  <2>6. greeted' = (greeted \/ "hello" = "hello")
    BY <2>1
  <2>7. WireInv'
    BY <1>0, <1>1, <2>1, <2>2, <2>6, WriteKeepsWire
  <2>8. Told'
    BY <1>0, <2>1, <2>2 DEF Told, Snapshotted
  <2> QED
    BY <2>4, <2>5, <2>7, <2>8 DEF LinkInv, WireInv
<1>3. CASE ReplySnapshot
  <2>1. /\ UNCHANGED <<active, session, greeted, handshake, version, pc, torn, dev>>
        /\ phase = "replying" /\ phase' = "snapshotted" /\ Write("state", version)
    BY <1>3 DEF ReplySnapshot
  <2>2. seq' \in Nat /\ h2d' \in Seq(Frames)
    BY <1>0, <1>1, <2>1, Written
  <2>3. Types'
    BY <1>0, <2>1, <2>2 DEF Types
  <2>4. Phases'
    BY <1>0, <2>1 DEF Phases, Connected
  <2>5. greeted' = (greeted \/ "state" = "hello")
    BY <1>0, <2>1, Zenon DEF Types
  <2>6. WireInv'
    BY <1>0, <1>1, <2>1, <2>5, WriteKeepsWire
  <2>7. Connected
    BY <2>1 DEF Connected
  <2>8. Told'
    BY <1>0, <1>1, <2>1, <2>7, SnapshotTold
  <2> QED
    BY <2>3, <2>4, <2>6, <2>8 DEF LinkInv, WireInv
<1>4. CASE HandleSelect
  <2>1. UNCHANGED <<phase, active, session, greeted, handshake, pc, torn, dev>>
    BY <1>4 DEF HandleSelect, serial
  <2>2. Phases' /\ Connected' = Connected /\ Snapshotted' = Snapshotted /\ SendPending' = SendPending
    BY <1>0, <2>1 DEF Phases, Connected, Snapshotted, SendPending
  <2>3. CASE version' \in {version, version + 1} /\ Write("state", version')
    <3>1. version' \in Nat /\ version' >= version
      BY <1>1, <2>3
    <3>2. seq' \in Nat /\ h2d' \in Seq(Frames)
      BY <1>0, <2>3, <3>1, Written
    <3>3. Types'
      BY <1>0, <2>1, <3>1, <3>2 DEF Types
    <3>4. greeted' = (greeted \/ "state" = "hello")
      BY <1>0, <2>1, Zenon DEF Types
    <3>5. WireInv'
      BY <1>0, <2>1, <2>3, <3>1, <3>4, WriteKeepsWire
    <3>6. Told'
      BY <1>0, <2>1, <2>2, <2>3, <3>1, SnapshotTold
    <3> QED
      BY <2>2, <3>3, <3>5, <3>6 DEF LinkInv, WireInv
  <2>4. CASE UNCHANGED <<version, seq, h2d>>
    <3>1. Types'
      BY <1>0, <2>1, <2>4 DEF Types
    <3>2. WireInv'
      BY <1>0, <1>1, <2>1, <2>4, AheadKeepsWire
    <3>3. Told'
      BY <1>0, <2>1, <2>2, <2>4, StableTold
    <3> QED
      BY <2>2, <3>1, <3>2, <3>3 DEF LinkInv, WireInv
  <2> QED
    BY <1>4, <2>3, <2>4 DEF HandleSelect
<1>5. CASE Ping
  <2>1. UNCHANGED <<phase, active, session, greeted, handshake, version, pc, torn, dev>> /\ Write("ping", 0)
    BY <1>5 DEF Ping, serial
  <2>2. seq' \in Nat /\ h2d' \in Seq(Frames)
    BY <1>0, <1>1, <2>1, Written
  <2>3. Types'
    BY <1>0, <2>1, <2>2 DEF Types
  <2>4. Phases'
    BY <1>0, <2>1 DEF Phases, Connected
  <2>5. greeted' = (greeted \/ "ping" = "hello")
    BY <1>0, <2>1, Zenon DEF Types
  <2>6. WireInv'
    BY <1>0, <1>1, <2>1, <2>5, WriteKeepsWire
  <2>7. Told'
    BY <1>0, <2>1, PingTold
  <2> QED
    BY <2>3, <2>4, <2>6, <2>7 DEF LinkInv, WireInv
<1> QED
  BY <1>2, <1>3, <1>4, <1>5

(* Losing the connection, for whatever reason.                             *)
LEMMA DisconnectKeeps ==
  ASSUME LinkInv, Disconnect
  PROVE  LinkInv'
<1>0. Types /\ Phases /\ WireInv /\ Told
  BY DEF LinkInv, WireInv
<1>1. /\ UNCHANGED <<session, greeted, handshake, seq, version, pc, dev>>
      /\ phase' = "dropped" /\ active' = FALSE
  BY DEF Disconnect
<1>2. PICK n \in 0..Len(h2d) :
        /\ h2d' = SubSeq(h2d, 1, n)
        /\ torn' \in IF TornLines /\ n < Len(h2d) THEN {torn, TRUE} ELSE {torn}
  BY DEF Disconnect
<1>3. torn' \in BOOLEAN
  BY <1>0, <1>2 DEF Types
<1>4. h2d' \in Seq(Frames)
  BY <1>0, <1>2, Kept
<1>5. Types'
  BY <1>0, <1>1, <1>3, <1>4 DEF Types
<1>6. Phases'
  BY <1>0, <1>1 DEF Phases, Connected
<1>7. WireInv'
  BY <1>0, <1>1, <1>2, DropKeepsWire
<1>8. Told'
  BY <1>1 DEF Told, Connected, Snapshotted
<1> QED
  BY <1>5, <1>6, <1>7, <1>8 DEF LinkInv, WireInv

LEMMA DeviceKeeps ==
  ASSUME LinkInv, DeviceReceive \/ DeviceStale \/ DeviceHello \/ DeviceSelect \/ DeviceRestart
  PROVE  LinkInv'
<1>0. Types /\ Phases /\ WireInv /\ Told
  BY DEF LinkInv, WireInv
<1>1. UNCHANGED <<phase, active, session, greeted, handshake, seq, version, pc>>
  BY DEF DeviceReceive, DeviceStale, DeviceHello, DeviceSelect, DeviceRestart, host, serial
<1>2. Phases' /\ Connected' = Connected /\ Snapshotted' = Snapshotted /\ SendPending' = SendPending
  BY <1>0, <1>1 DEF Phases, Connected, Snapshotted, SendPending
<1>3. version \in Nat /\ version >= version
  BY <1>0 DEF Types
<1>4. CASE DeviceReceive
  <2>1. WireInv' /\ dev' \in Devices
    BY <1>0, <1>4, ReadKeepsWire
  <2>2. h2d' \in Seq(Frames) /\ torn' \in BOOLEAN
    BY <1>0, <1>4, Read DEF DeviceReceive
  <2>3. Types'
    BY <1>0, <1>1, <2>1, <2>2 DEF Types
  <2>4. Told'
    BY <1>4, ReadTold
  <2> QED
    BY <1>2, <2>1, <2>3, <2>4 DEF LinkInv, WireInv
<1>5. CASE DeviceStale
  <2>1. UNCHANGED <<h2d, torn>> /\ dev' = [dev EXCEPT !.up = FALSE]
    BY <1>5 DEF DeviceStale, wire
  <2>2. /\ dev' \in Devices /\ dev'.session = dev.session /\ dev'.seen = dev.seen
        /\ dev'.last = dev.last /\ dev'.version = dev.version
    BY <1>0, <2>1 DEF Types, Devices
  <2>3. Types'
    BY <1>0, <1>1, <2>1, <2>2 DEF Types
  <2>4. WireInv'
    BY <1>0, <1>1, <1>3, <2>1, <2>2, AheadKeepsWire
  <2>5. \A n : OnTheWay(n)' = OnTheWay(n)
    BY <1>1, <2>1 DEF OnTheWay
  <2>6. Told'
    BY <1>0, <1>1, <1>2, <2>1, <2>2, <2>5 DEF Told
  <2> QED
    BY <1>2, <2>3, <2>4, <2>6 DEF LinkInv, WireInv
<1>6. CASE DeviceHello \/ DeviceSelect
  <2>1. UNCHANGED <<h2d, torn, dev>>
    BY <1>6 DEF DeviceHello, DeviceSelect
  <2>2. Types'
    BY <1>0, <1>1, <2>1 DEF Types
  <2>3. WireInv'
    BY <1>0, <1>1, <1>3, <2>1, AheadKeepsWire
  <2>4. Told'
    BY <1>0, <1>1, <1>2, <2>1, StableTold
  <2> QED
    BY <1>2, <2>2, <2>3, <2>4 DEF LinkInv, WireInv
<1>7. CASE DeviceRestart
  <2>1. h2d' = <<>> /\ dev' = Blank /\ torn' = FALSE
    BY <1>7 DEF DeviceRestart
  <2>2. WireInv' /\ h2d' \in Seq(Frames) /\ dev' \in Devices
    BY <1>0, <1>1, <2>1, RestartKeepsWire
  <2>3. Types'
    BY <1>0, <1>1, <2>1, <2>2 DEF Types
  <2>4. dev'.session = NoSession /\ DOMAIN h2d' = {}
    BY <2>1 DEF Blank
  <2>5. Snapshotted => session # NoSession
    BY <1>0 DEF Phases, Snapshotted, Connected
  <2>6. Told'
    BY <1>1, <1>2, <2>1, <2>4, <2>5 DEF Told
  <2> QED
    BY <1>2, <2>2, <2>3, <2>6 DEF LinkInv, WireInv
<1> QED
  BY <1>4, <1>5, <1>6, <1>7

LEMMA LinkStutter == LinkInv /\ UNCHANGED vars => LinkInv'
<1> SUFFICES ASSUME LinkInv, UNCHANGED vars PROVE LinkInv'
  OBVIOUS
<1>1. UNCHANGED <<phase, active, session, greeted, handshake, seq, version, pc, h2d, torn, dev>>
  BY DEF vars, host, serial, wire
<1>2. Types' /\ Phases'
  BY <1>1 DEF LinkInv, Types, Phases, Connected
<1>3. Grouped' /\ Alive' /\ Numbered' /\ Versions'
  BY <1>1 DEF LinkInv, Grouped, Alive, Numbered, LiveFramesInOrder, Versions
<1>4. Connected' = Connected /\ Snapshotted' = Snapshotted /\ SendPending' = SendPending
  BY <1>1 DEF Connected, Snapshotted, SendPending
<1>5. Told'
  BY <1>1, <1>4, StableTold DEF LinkInv
<1> QED
  BY <1>2, <1>3, <1>5 DEF LinkInv

LEMMA LinkNext == LinkInv /\ [Next]_vars => LinkInv'
<1> SUFFICES ASSUME LinkInv, [Next]_vars PROVE LinkInv'
  OBVIOUS
<1>1. CASE SerialStep \/ Ping
  BY <1>1, SerialKeeps, ReplyKeeps DEF SerialStep
<1>2. CASE PortFails \/ RefuseLine \/ HeartbeatLost
  BY <1>2, DisconnectKeeps DEF PortFails, RefuseLine, HeartbeatLost, Drop
<1>3. CASE \E s \in Senders : ChangeState(s) \/ SenderStep(s)
  BY <1>3, SenderKeeps DEF SenderStep
<1>4. CASE DeviceReceive \/ DeviceStale \/ DeviceHello \/ DeviceSelect \/ DeviceRestart
  BY <1>4, DeviceKeeps
<1>5. CASE UNCHANGED vars
  BY <1>5, LinkStutter
<1> QED
  BY <1>1, <1>2, <1>3, <1>4, <1>5 DEF Next

(* Host, wire and device stay in step through every interleaving of the    *)
(* serial thread, the senders, drops, torn lines and device restarts.      *)
THEOREM LinkInvariant == Spec => []LinkInv
BY LinkInit, LinkNext, PTL DEF Spec

(* Nothing that was sent in the device's session is discarded as old,      *)
(* although several threads write and every session numbers anew.          *)
THEOREM LiveFramesInOrderAlways == Spec => []LiveFramesInOrder
<1>1. LinkInv => LiveFramesInOrder
  BY DEF LinkInv, Numbered
<1> QED
  BY <1>1, LinkInvariant, PTL

(* No change of the host's state falls between the handshake's snapshot    *)
(* and the flag that lets the other threads send.                          *)
THEOREM ConvergedAlways == Spec => []Converged
<1>1. LinkInv => Converged
  <2> SUFFICES ASSUME LinkInv, Live, phase = "reading", h2d = <<>>, \A s \in Senders : pc[s] = "idle"
               PROVE  dev.version = version
    BY DEF Converged
  <2>1. Snapshotted /\ ~SendPending /\ dev.session = session
    BY DEF Snapshotted, SendPending, Live
  <2>2. ~OnTheWay(0)
    BY DEF OnTheWay
  <2> QED
    BY <2>1, <2>2 DEF LinkInv, Told
<1> QED
  BY <1>1, LinkInvariant, PTL

(* Within a session the device is never taken back to an older snapshot,   *)
(* not even by frames of the next session that overtake its hello.         *)
THEOREM SnapshotsNeverRegressAlways == Spec => SnapshotsNeverRegress
<1>1. LinkInv /\ [Next]_vars => [dev'.session = dev.session => dev'.version >= dev.version]_vars
  <2> SUFFICES ASSUME LinkInv, Next, dev'.session = dev.session
               PROVE  dev'.version >= dev.version
    OBVIOUS
  <2>0. dev \in Devices /\ dev.version \in Nat
    BY DEF LinkInv, Types, Devices
  <2>1. CASE DeviceReceive
    <3>1. Types /\ WireInv
      BY DEF LinkInv, WireInv
    <3>2. dev' \in Devices /\ dev.version <= dev'.version
      BY <2>1, <3>1, ReadKeepsWire
    <3> QED
      BY <2>0, <3>2 DEF Devices
  <2>2. CASE DeviceStale
    BY <2>0, <2>2 DEF DeviceStale, Devices
  <2>3. CASE DeviceRestart
    <3>1. dev' = Blank
      BY <2>3 DEF DeviceRestart
    <3>2. dev.session = NoSession /\ dev'.version = 0
      BY <3>1 DEF Blank
    <3>3. dev.version = 0
      BY <3>2 DEF LinkInv, Versions
    <3> QED
      BY <3>2, <3>3
  <2>4. CASE DeviceHello \/ DeviceSelect \/ SerialStep \/ Ping
    <3>1. UNCHANGED dev
      BY <2>4 DEF DeviceHello, DeviceSelect, SerialStep, Ping, Open, OnConnected, ResetSequence, OnStale,
           SkipOldNumber, HelloIgnored, ReplyHello, ReplySnapshot, CompleteHandshake, HandleSelect
    <3> QED
      BY <2>0, <3>1
  <2>5. CASE PortFails \/ RefuseLine \/ HeartbeatLost
    <3>1. UNCHANGED dev
      BY <2>5 DEF PortFails, RefuseLine, HeartbeatLost, Drop, Disconnect
    <3> QED
      BY <2>0, <3>1
  <2>6. CASE \E s \in Senders : ChangeState(s) \/ SenderStep(s)
    <3>1. UNCHANGED dev
      BY <2>6 DEF ChangeState, SenderStep, CheckHandshake, SendSnapshot
    <3> QED
      BY <2>0, <3>1
  <2> QED
    BY <2>1, <2>2, <2>3, <2>4, <2>5, <2>6 DEF Next
<1> QED
  BY <1>1, LinkInvariant, PTL DEF Spec, SnapshotsNeverRegress
=============================================================================
