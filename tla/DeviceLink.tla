----------------------------- MODULE DeviceLink -----------------------------
(***************************************************************************)
(* The USB link: SerialLink (device_link/serial_link.py) and               *)
(* DeviceControllerSession (controller/device_session.py) on the host, the *)
(* dispatcher's session and sequence handling (firmware/src/device_link.cpp*)
(* and controller_state.cpp) on the device, and the wire between them.     *)
(*                                                                         *)
(* The serial thread opens the port, starts a session, answers the device's*)
(* hello under _handshake_lock and reads.  Other threads (Senders) change  *)
(* the host's state, look at _handshake_complete under that lock, and only *)
(* then write, under the write lock: the link may have been dropped and    *)
(* reopened in between.  What a snapshot tells is reduced to a version of  *)
(* the host's state; approvals are the subject of Approval.tla.            *)
(***************************************************************************)
EXTENDS Naturals, Sequences

CONSTANTS
  Senders,      \* threads that send snapshots: the pump and the console
  Sessions,     \* session ids (uuid4); a new one differs from those in use
  NoSession,    \* the firmware's empty host_session_
  TornLines,    \* may a drop leave a partial line in the device's receiver?
  SilentReset,  \* may the device restart without the port going away?
  MaxVersion,   \* bound: changes of the host's state
  MaxSeq,       \* bound: sequence number up to which pings and selects are sent
  MaxChannel,   \* bound: frames on the wire in one direction
  MaxFaults     \* bound: port failures and device restarts

ASSUME DeviceLinkAssumption ==
  /\ NoSession \notin Sessions
  /\ TornLines \in BOOLEAN /\ SilentReset \in BOOLEAN
  /\ MaxVersion \in Nat /\ MaxSeq \in Nat /\ MaxChannel \in Nat /\ MaxFaults \in Nat

VARIABLES
  phase,      \* what the serial thread is doing
  active,     \* SerialLink._active: _connection is open
  handshake,  \* _handshake_complete
  session,    \* _host_session
  greeted,    \* history: the hello of this session has been written
  seq,        \* _sequence
  version,    \* version of ControllerState
  pc, held,   \* per sender: step, and the version it looked at
  h2d, d2h,   \* frames on the wire
  torn,       \* NdjsonReceiver holds a partial line
  renumbered, \* the device began to number anew on the decoder's connection
  dev,        \* the device: session, seen, last (sequence), up, version
  faults      \* port failures and restarts so far

serial == <<phase, active, session, greeted>>
host == <<serial, handshake, seq, version, pc, held>>
wire == <<h2d, d2h, torn, renumbered>>
vars == <<host, wire, dev, faults>>

(* A frame, with what it would tell the device; `live' records that its    *)
(* session's hello came first.                                             *)
Frame(t, n, v, live) ==
  [t |-> t, seq |-> n, session |-> session, version |-> v, live |-> live]

Blank == [session |-> NoSession, seen |-> FALSE, last |-> 0, up |-> FALSE, version |-> 0]

-----------------------------------------------------------------------------
(* Host.                                                                   *)

(* send_generated: numbering, generation and write are one critical        *)
(* section.                                                                *)
Write(t, v) ==
  /\ active /\ Len(h2d) < MaxChannel
  /\ seq' = seq + 1
  /\ h2d' = Append(h2d, Frame(t, seq + 1, v, greeted \/ t = "hello"))

(* Mutant: the snapshot is taken before the write lock.                    *)
SnapshotOfCheck(s) == held[s]

Snapshot(s) == version

(* The serial thread holds _handshake_lock from its hello to the end of    *)
(* the handshake.                                                          *)
HandshakeLocked == phase \in {"replying", "snapshotted"}

(* Mutant: the flag is read without the lock.                              *)
HandshakeReadableAlways == TRUE

HandshakeReadable == ~HandshakeLocked

(* A thread changes the state it is about to send ...                      *)
ChangeState(s) ==
  /\ pc[s] = "idle" /\ version < MaxVersion
  /\ version' = version + 1
  /\ pc' = [pc EXCEPT ![s] = "check"]
  /\ UNCHANGED <<serial, handshake, seq, held, wire, dev, faults>>

(* ... returns False before the handshake ...                              *)
CheckHandshake(s) ==
  /\ pc[s] = "check" /\ HandshakeReadable
  /\ pc' = [pc EXCEPT ![s] = IF handshake THEN "send" ELSE "idle"]
  /\ held' = [held EXCEPT ![s] = version]
  /\ UNCHANGED <<serial, handshake, seq, version, wire, dev, faults>>

(* ... and otherwise writes, if there is a connection by then.             *)
SendSnapshot(s) ==
  /\ pc[s] = "send"
  /\ pc' = [pc EXCEPT ![s] = "idle"]
  /\ \/ Write("state", Snapshot(s))
     \/ ~active /\ UNCHANGED <<seq, h2d>>
  /\ UNCHANGED <<serial, handshake, version, held, d2h, torn, renumbered, dev, faults>>

(* The serial thread: open; then _on_connected, in two critical sections.  *)
Open ==
  /\ phase = "closed"
  /\ phase' = "opened" /\ active' = TRUE
  /\ renumbered' = FALSE
  /\ UNCHANGED <<handshake, session, greeted, seq, version, pc, held, h2d, d2h, torn, dev, faults>>

SessionsInUse == {session, dev.session} \cup {h2d[i].session : i \in DOMAIN h2d}

FreshSession == CHOOSE s \in Sessions : s \notin SessionsInUse

OnConnected ==
  /\ phase = "opened"
  /\ ~(Sessions \subseteq SessionsInUse)   \* bound: the ids do not run out
  /\ phase' = "fresh"
  /\ handshake' = FALSE /\ session' = FreshSession /\ greeted' = FALSE
  /\ UNCHANGED <<active, seq, version, pc, held, wire, dev, faults>>

ResetSequence ==
  /\ phase = "fresh"
  /\ phase' = "reading"
  /\ seq' = 0
  /\ UNCHANGED <<active, session, greeted, handshake, version, pc, held, wire, dev, faults>>

(* The decoder's next line, handed to _on_message.                         *)
Receive(t) ==
  /\ phase = "reading" /\ d2h # <<>> /\ Head(d2h) = t
  /\ d2h' = Tail(d2h)

(* Of a device that numbers anew, what is not above the last number read   *)
(* is skipped.                                                             *)
SkipOldNumber ==
  /\ renumbered
  /\ Receive("hello") \/ Receive("select")
  /\ UNCHANGED <<host, h2d, torn, renumbered, dev, faults>>

(* A hello is ignored once the handshake is complete; otherwise hello and  *)
(* snapshot go out before the flag is set.                                 *)
HelloIgnored ==
  /\ Receive("hello")
  /\ handshake
  /\ UNCHANGED <<host, h2d, torn, renumbered, dev, faults>>

ReplyHello ==
  /\ Receive("hello")
  /\ ~handshake
  /\ phase' = "replying" /\ greeted' = TRUE
  /\ Write("hello", 0)
  /\ UNCHANGED <<active, session, handshake, version, pc, held, torn, renumbered, dev, faults>>

ReplySnapshot ==
  /\ phase = "replying"
  /\ phase' = "snapshotted"
  /\ Write("state", version)
  /\ UNCHANGED <<active, session, greeted, handshake, version, pc, held, d2h, torn, renumbered, dev, faults>>

CompleteHandshake ==
  /\ phase = "snapshotted"
  /\ phase' = "reading"
  /\ handshake' = TRUE
  /\ UNCHANGED <<active, session, greeted, seq, version, pc, held, wire, dev, faults>>

(* "select" changes the host's state, unless it names the selected slot;   *)
(* the snapshot confirms it.                                               *)
HandleSelect ==
  /\ Receive("select")
  /\ \/ /\ handshake
        /\ version' \in {version, version + 1} /\ version' <= MaxVersion
        /\ Write("state", version')
     \/ /\ ~handshake
        /\ UNCHANGED <<version, seq, h2d>>
  /\ UNCHANGED <<serial, handshake, pc, held, torn, renumbered, dev, faults>>

Ping ==
  /\ phase = "reading" /\ handshake /\ seq < MaxSeq
  /\ Write("ping", 0)
  /\ UNCHANGED <<serial, handshake, version, pc, held, d2h, torn, renumbered, dev, faults>>

(* An exception of read, write or a handler, or a heartbeat timeout: the   *)
(* device may still read a prefix of what was written and a partial line,  *)
(* and what it queued last is sent on the next connection.                 *)
Disconnect ==
  /\ phase \notin {"closed", "dropped"}
  /\ phase' = "dropped" /\ active' = FALSE
  /\ \E n \in 0..Len(h2d) :
       /\ h2d' = SubSeq(h2d, 1, n)
       /\ torn' \in IF TornLines /\ n < Len(h2d) THEN {torn, TRUE} ELSE {torn}
  /\ UNCHANGED <<session, greeted, handshake, seq, version, pc, held, renumbered, dev>>

Drop == Disconnect /\ \E n \in 1..(Len(d2h) + 1) : d2h' = SubSeq(d2h, n, Len(d2h))

PortFails == faults < MaxFaults /\ faults' = faults + 1 /\ Drop

(* A line damaged on its way raises in the decoder; what followed it in    *)
(* the same chunk is lost with it.                                         *)
RefuseLine ==
  /\ faults < MaxFaults /\ faults' = faults + 1
  /\ phase = "reading" /\ d2h # <<>>
  /\ Disconnect
  /\ \E n \in 2..(Len(d2h) + 1) : d2h' = SubSeq(d2h, n, Len(d2h))

(* Nothing read for 6 s: the device is up, so sends no hello, and is not   *)
(* pinged, so sends no pong.                                               *)
HeartbeatLost ==
  /\ phase = "reading" /\ ~handshake /\ d2h = <<>> /\ dev.up
  /\ Drop
  /\ UNCHANGED faults

OnStale ==
  /\ phase = "dropped"
  /\ phase' = "closed"
  /\ handshake' = FALSE
  /\ UNCHANGED <<active, session, greeted, seq, version, pc, held, wire, dev, faults>>

-----------------------------------------------------------------------------
(* Device.                                                                 *)

(* Mutant: a new session keeps the last sequence number.                   *)
BeginSessionKeepingSequence(s) ==
  IF dev.session = s THEN dev ELSE [dev EXCEPT !.session = s, !.up = FALSE]

(* begin_host_session                                                      *)
BeginSession(s) ==
  IF dev.session = s THEN dev
  ELSE [dev EXCEPT !.session = s, !.seen = FALSE, !.last = 0, !.up = FALSE]

Accepted(d, f) == ~d.seen \/ f.seq > d.last

Dispatch(f) ==
  LET d == IF f.t = "hello" THEN BeginSession(f.session) ELSE dev IN
  IF d.session = NoSession THEN dev
  ELSE IF ~Accepted(d, f) THEN d
  ELSE [d EXCEPT !.seen = TRUE, !.last = f.seq, !.up = TRUE,
                 !.version = IF f.t = "state" THEN f.version ELSE @]

(* A line that follows a partial one is not JSON.                          *)
DeviceReceive ==
  /\ h2d # <<>>
  /\ h2d' = Tail(h2d)
  /\ torn' = FALSE
  /\ dev' = IF torn THEN dev ELSE Dispatch(Head(h2d))
  /\ UNCHANGED <<host, d2h, renumbered, faults>>

(* update_link after 6 s without a valid line.                             *)
DeviceStale ==
  /\ dev.up
  /\ dev' = [dev EXCEPT !.up = FALSE]
  /\ UNCHANGED <<host, wire, faults>>

(* While stale, a hello every 2 s; frames are lost while no host reads.    *)
DeviceHello ==
  /\ ~dev.up /\ active /\ Len(d2h) < MaxChannel
  /\ d2h' = Append(d2h, "hello")
  /\ UNCHANGED <<host, h2d, torn, renumbered, dev, faults>>

DeviceSelect ==
  /\ dev.up /\ active /\ Len(d2h) < MaxChannel /\ dev.last < MaxSeq
  /\ d2h' = Append(d2h, "select")
  /\ UNCHANGED <<host, h2d, torn, renumbered, dev, faults>>

DeviceRestart ==
  /\ SilentReset \/ ~active
  /\ faults < MaxFaults /\ faults' = faults + 1
  /\ dev' = Blank
  /\ h2d' = <<>> /\ torn' = FALSE
  /\ d2h' = IF active THEN d2h ELSE <<>>
  /\ renumbered' = active
  /\ UNCHANGED host

-----------------------------------------------------------------------------
Init ==
  /\ phase = "closed" /\ active = FALSE /\ handshake = FALSE
  /\ session = NoSession /\ greeted = FALSE /\ seq = 0 /\ version = 1
  /\ pc = [s \in Senders |-> "idle"] /\ held = [s \in Senders |-> 0]
  /\ h2d = <<>> /\ d2h = <<>> /\ torn = FALSE /\ renumbered = FALSE
  /\ dev = Blank /\ faults = 0

SerialStep ==
  \/ Open \/ OnConnected \/ ResetSequence \/ OnStale
  \/ SkipOldNumber \/ HelloIgnored \/ ReplyHello \/ ReplySnapshot \/ CompleteHandshake \/ HandleSelect

SenderStep(s) == CheckHandshake(s) \/ SendSnapshot(s)

Next ==
  \/ SerialStep \/ Ping \/ PortFails \/ RefuseLine \/ HeartbeatLost
  \/ \E s \in Senders : ChangeState(s) \/ SenderStep(s)
  \/ DeviceReceive \/ DeviceStale \/ DeviceHello \/ DeviceSelect \/ DeviceRestart

Spec == Init /\ [][Next]_vars

(* Frames of the host's session reach the device.                          *)
Live == handshake /\ active /\ dev.session = session

(* Threads run, the device reads its port and repeats its hello; without   *)
(* valid lines its timer runs out.  Ports fail finitely often.             *)
Fairness ==
  /\ WF_vars(SerialStep) /\ \A s \in Senders : WF_vars(SenderStep(s))
  /\ WF_vars(DeviceReceive) /\ WF_vars(DeviceHello)
  /\ WF_vars(~Live /\ DeviceStale)

FairSpec == Spec /\ Fairness

-----------------------------------------------------------------------------
(* Properties.                                                             *)

(* Sequence filter: whatever is still on the wire of the session the       *)
(* device is in -- sent at or after that session's hello -- is newer than  *)
(* what the device has seen, and in order: none of it will be discarded as *)
(* old, although three threads write and the numbering is reset.           *)
LiveFramesInOrder ==
  \A j \in DOMAIN h2d : h2d[j].live =>
    /\ h2d[j].session = dev.session /\ dev.seen => h2d[j].seq > dev.last
    /\ \A i \in 1..(j - 1) :
         h2d[i].live /\ h2d[i].session = h2d[j].session => h2d[i].seq < h2d[j].seq

(* Once the wire is empty and no thread is sending, a device in the host's *)
(* session has the host's latest state: no change falls between the        *)
(* handshake's snapshot and the flag.                                      *)
Converged ==
  (/\ Live /\ phase = "reading" /\ h2d = <<>>
   /\ \A s \in Senders : pc[s] = "idle")
  => dev.version = version

(* Within a session the device never goes back to an older snapshot.       *)
SnapshotsNeverRegress ==
  [][dev'.session = dev.session => dev'.version >= dev.version]_vars

(* README: the link recovers from disconnects and restarts: again and again*)
(* the device is in the host's session and has the host's state.           *)
Resynchronised ==
  []<>(Live /\ dev.version = version)
=============================================================================
