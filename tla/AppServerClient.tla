-------------------------- MODULE AppServerClient --------------------------
(***************************************************************************)
(* AppServerClient (app_server/client.py): life cycle of the app-server    *)
(* process, correlation of requests and responses, delivery of             *)
(* notifications, the fatal error and shutdown, for any threads that call  *)
(* it, with its two reader threads.                                        *)
(*                                                                         *)
(* A section under _state_lock or _pending_lock is one step.  The lifecycle*)
(* lock, the write lock and the process shutdown lock are held across      *)
(* waits and are explicit.  Calls that raise at once change nothing and    *)
(* are left out.                                                           *)
(***************************************************************************)
EXTENDS Naturals, Sequences, FiniteSets

CONSTANTS
  Callers,       \* threads that use the client
  MaxRequests,   \* bound: requests, that of initialize included
  MaxEvents,     \* bound: notifications, bad lines and survived kills
  MaxLines       \* bound: unread lines on stdout

ASSUME ClientAssumption ==
  /\ {"out", "err", "nobody"} \cap Callers = {}
  /\ MaxRequests \in Nat /\ MaxEvents \in Nat /\ MaxLines \in Nat

VARIABLES
  state,     \* _state
  fatal,     \* is _fatal_error set?
  nextId,    \* _next_request_id - 1
  pending,   \* ids in _pending
  answer,    \* response queue of each request: what was put into it
  inbound,   \* _inbound
  lifecycle, writer, reaper,  \* holders of the three explicit locks
  reaped,    \* _process_shutdown_result is set
  proc,      \* the process: none, running, exited
  stdin,     \* is its stdin open?
  asked,     \* requests the server has read and not answered
  stdout,    \* lines not yet read
  events,    \* notifications, bad lines and survived kills so far
  pc, job    \* per thread: step; call, request id, and step after an error

tables == <<nextId, pending, answer>>
locks == <<lifecycle, writer, reaper>>
server == <<proc, stdin, asked, stdout, events>>
vars == <<state, fatal, tables, inbound, locks, reaped, server, pc, job>>

Nobody == "nobody"
Threads == Callers \cup {"out", "err"}
States == {"new", "running", "initializing", "ready", "failed", "closing", "closed"}
Closing == state \in {"closing", "closed"}
Ids == 1..MaxRequests
PC == {"idle", "require", "init_parse", "init_ready", "init_failed", "send", "write",
       "unregister", "wait", "read", "put", "ended", "fatal", "fail_pending", "wake",
       "shutdown", "reap", "join", "get", "put_back"}
Job == [call : {"none", "initialize", "request", "notify", "close", "next"},
        id : 0..MaxRequests, then : PC]
NoJob == [call |-> "none", id |-> 0, then |-> "idle"]

Goto(t, label) == pc' = [pc EXCEPT ![t] = label] /\ UNCHANGED job
Do(t, label, j) == pc' = [pc EXCEPT ![t] = label] /\ job' = [job EXCEPT ![t] = j]
Return(t) == Do(t, "idle", NoJob)

(* Go on at `label'; a thread that has ended its call forgets its locals.  *)
GoOn(t, label) ==
  Do(t, label, IF label \in {"idle", "ended"} THEN NoJob ELSE [job[t] EXCEPT !.then = "idle"])

(* Where a failing call goes: initialize still has its except clause.      *)
Failed(t) == IF job[t].call = "initialize" THEN "init_failed" ELSE "idle"

-----------------------------------------------------------------------------
(* The app-server (external).                                              *)

OddEvent == events < MaxEvents /\ events' = events + 1

(* Lines written once the reader has ended are never read and left out.    *)
WriteLine(line) ==
  /\ proc = "running" /\ Len(stdout) < MaxLines
  /\ pc["out"] \in {"read", "put"}
  /\ stdout' = Append(stdout, line)

ServerAnswers(id) ==
  /\ id \in asked
  /\ WriteLine([t |-> "response", id |-> id])
  /\ asked' = asked \ {id}
  /\ UNCHANGED <<state, fatal, tables, inbound, locks, reaped, proc, stdin, events, pc, job>>

ServerNotifies ==
  /\ WriteLine([t |-> "note", id |-> 0])
  /\ OddEvent
  /\ UNCHANGED <<state, fatal, tables, inbound, locks, reaped, proc, stdin, asked, pc, job>>

(* Not JSON, not a message, too long, or a response nobody waits for.      *)
ServerErrs ==
  /\ WriteLine([t |-> "bad", id |-> 0])
  /\ OddEvent
  /\ UNCHANGED <<state, fatal, tables, inbound, locks, reaped, proc, stdin, asked, pc, job>>

ServerExits ==
  /\ proc = "running"
  /\ proc' = "exited" /\ asked' = {}
  /\ UNCHANGED <<state, fatal, tables, inbound, locks, reaped, stdin, stdout, events, pc, job>>

-----------------------------------------------------------------------------
(* start and initialize, under the lifecycle lock.                         *)

Start(c) ==
  /\ pc[c] = "idle" /\ lifecycle = Nobody /\ state = "new"
  /\ \/ /\ state' = "running" /\ proc' = "running" /\ stdin' = TRUE
        /\ pc' = [pc EXCEPT !["out"] = "read", !["err"] = "read"]
     \/ state' = "failed" /\ UNCHANGED <<proc, stdin, pc>>
  /\ UNCHANGED <<fatal, tables, inbound, locks, reaped, asked, stdout, events, job>>

Initialize(c) ==
  /\ pc[c] = "idle" /\ lifecycle = Nobody
  /\ ~fatal /\ state = "running"
  /\ lifecycle' = c
  /\ state' = "initializing"
  /\ Do(c, "require", [NoJob EXCEPT !.call = "initialize"])
  /\ UNCHANGED <<fatal, tables, inbound, writer, reaper, reaped, server>>

(* _send_request looks again: the reader may have failed the client.       *)
InitializeRequired(c) ==
  /\ pc[c] = "require"
  /\ Goto(c, IF ~fatal /\ state = "initializing" THEN "send" ELSE "init_failed")
  /\ UNCHANGED <<state, fatal, tables, inbound, locks, reaped, server>>

(* The result is parsed and "initialized" is written ...                   *)
InitializeParsed(c) ==
  /\ pc[c] = "init_parse" /\ writer = Nobody
  /\ \/ proc = "running" /\ stdin /\ Goto(c, "init_ready") /\ UNCHANGED writer
     \/ Goto(c, "init_failed") /\ UNCHANGED writer   \* bad result, version, process gone
     \/ (~stdin \/ proc = "exited") /\ writer' = c /\ Do(c, "fatal", [job[c] EXCEPT !.then = "init_failed"])
  /\ UNCHANGED <<state, fatal, tables, inbound, lifecycle, reaper, reaped, server>>

(* Mutant: the fatal error is not looked at again.                         *)
MayBecomeReadyAnyway == TRUE

MayBecomeReady == ~fatal

(* ... and the client is ready, if it has not failed meanwhile.            *)
InitializeReady(c) ==
  /\ pc[c] = "init_ready"
  /\ \/ /\ MayBecomeReady
        /\ state' = "ready" /\ lifecycle' = Nobody
        /\ Return(c)
     \/ /\ ~MayBecomeReady
        /\ Goto(c, "init_failed")
        /\ UNCHANGED <<state, lifecycle>>
  /\ UNCHANGED <<fatal, tables, inbound, writer, reaper, reaped, server>>

InitializeFailed(c) ==
  /\ pc[c] = "init_failed"
  /\ state' = IF Closing THEN state ELSE "failed"
  /\ lifecycle' = Nobody
  /\ Return(c)
  /\ UNCHANGED <<fatal, tables, inbound, writer, reaper, reaped, server>>

-----------------------------------------------------------------------------
(* request: _require_state, registration, write, wait.                     *)

Request(c) ==
  /\ pc[c] = "idle" /\ ~fatal /\ state = "ready"
  /\ Do(c, "send", [NoJob EXCEPT !.call = "request"])
  /\ UNCHANGED <<state, fatal, tables, inbound, locks, reaped, server>>

(* notify, respond and reject_request: a line nobody answers.              *)
Notify(c) ==
  /\ pc[c] = "idle" /\ ~fatal /\ state = "ready"
  /\ Do(c, "write", [NoJob EXCEPT !.call = "notify"])
  /\ UNCHANGED <<state, fatal, tables, inbound, locks, reaped, server>>

(* Mutant: the counter is advanced before it is read, too.                 *)
NewIdSkips == nextId + 2

NewId == nextId + 1

Register(c) ==
  /\ pc[c] = "send" /\ nextId < MaxRequests
  /\ nextId' = nextId + 1
  /\ pending' = pending \cup {NewId}
  /\ Do(c, "write", [job[c] EXCEPT !.id = NewId])
  /\ UNCHANGED <<state, fatal, answer, inbound, locks, reaped, server>>

(* A closed stdin makes the client fail, while the write lock is held; an  *)
(* exited process does so only when the pipe breaks.                       *)
Write(c) ==
  /\ pc[c] = "write" /\ writer = Nobody
  /\ \/ /\ proc = "running" /\ stdin
        /\ IF job[c].call = "notify" THEN Return(c) /\ UNCHANGED asked
           ELSE Goto(c, "wait") /\ asked' = asked \cup {job[c].id}
        /\ UNCHANGED writer
     \/ /\ proc = "exited"
        /\ Goto(c, "unregister")
        /\ UNCHANGED <<asked, writer>>
     \/ /\ ~stdin \/ proc = "exited"
        /\ writer' = c
        /\ Do(c, "fatal", [job[c] EXCEPT !.then = "unregister"])
        /\ UNCHANGED asked
  /\ UNCHANGED <<state, fatal, tables, inbound, lifecycle, reaper, reaped, proc, stdin, stdout, events>>

Unregister(c) ==
  /\ pc[c] = "unregister"
  /\ pending' = pending \ {job[c].id}
  /\ GoOn(c, Failed(c))
  /\ UNCHANGED <<state, fatal, nextId, answer, inbound, locks, reaped, server>>

(* A result, an error response or the error of a failed client.            *)
Answered(c) ==
  /\ pc[c] = "wait" /\ answer[job[c].id] # "none"
  /\ \/ /\ answer[job[c].id] = "response"
        /\ IF job[c].call = "initialize" THEN Goto(c, "init_parse") ELSE Return(c)
     \/ GoOn(c, Failed(c))
     \/ /\ answer[job[c].id] = "response"   \* a malformed error
        /\ Do(c, "fatal", [job[c] EXCEPT !.then = Failed(c)])
  /\ UNCHANGED <<state, fatal, tables, inbound, locks, reaped, server>>

(* Mutant: the wait for a response has no timeout.                         *)
TimedOutNever(c) == FALSE /\ UNCHANGED vars

TimedOut(c) ==
  /\ pc[c] = "wait" /\ answer[job[c].id] = "none"
  /\ pending' = pending \ {job[c].id}
  /\ Do(c, "fatal", [job[c] EXCEPT !.then = Failed(c)])
  /\ UNCHANGED <<state, fatal, nextId, answer, inbound, locks, reaped, server>>

-----------------------------------------------------------------------------
(* Readers.                                                                *)

(* A response leaves the table first and is put into its queue later.      *)
ReadLine ==
  /\ pc["out"] = "read" /\ stdout # <<>>
  /\ stdout' = Tail(stdout)
  /\ LET line == Head(stdout) IN
     \/ /\ line.t = "note"
        /\ inbound' = Append(inbound, "note")
        /\ UNCHANGED <<pending, pc, job>>
     \/ /\ line.t = "response" /\ line.id \in pending
        /\ pending' = pending \ {line.id}
        /\ Do("out", "put", [NoJob EXCEPT !.id = line.id])
        /\ UNCHANGED inbound
     \/ /\ line.t # "note" /\ line.id \notin pending
        /\ Do("out", "fatal", [NoJob EXCEPT !.then = "ended"])
        /\ UNCHANGED <<pending, inbound>>
  /\ UNCHANGED <<state, fatal, nextId, answer, locks, reaped, proc, stdin, asked, events>>

PutResponse ==
  /\ pc["out"] = "put" /\ answer[job["out"].id] = "none"
  /\ answer' = [answer EXCEPT ![job["out"].id] = "response"]
  /\ Do("out", "read", NoJob)
  /\ UNCHANGED <<state, fatal, nextId, pending, inbound, locks, reaped, server>>

EndOfOutput ==
  /\ pc["out"] = "read" /\ stdout = <<>> /\ proc = "exited"
  /\ IF Closing THEN GoOn("out", "ended") ELSE Do("out", "fatal", [NoJob EXCEPT !.then = "ended"])
  /\ UNCHANGED <<state, fatal, tables, inbound, locks, reaped, server>>

(* Lines on stderr are only counted, but for one that is too long.         *)
StderrLineTooLong ==
  /\ pc["err"] = "read" /\ proc = "running"
  /\ OddEvent
  /\ Do("err", "fatal", [NoJob EXCEPT !.then = "ended"])
  /\ UNCHANGED <<state, fatal, tables, inbound, locks, reaped, proc, stdin, asked, stdout>>

-----------------------------------------------------------------------------
(* _set_fatal and close share the rest: fail the pending requests, wake    *)
(* next_message, shut the process down.                                    *)

(* Mutant: a client that is closing may still fail.                        *)
FirstFailureEvenClosing == ~fatal

FirstFailure == ~fatal /\ ~Closing

(* After a failed write the write lock is held until _set_fatal returns.   *)
Continue(t) ==
  /\ writer' = IF writer = t THEN Nobody ELSE writer
  /\ GoOn(t, job[t].then)

SetFatal(t) ==
  /\ pc[t] = "fatal"
  /\ \/ /\ FirstFailure
        /\ fatal' = TRUE /\ state' = "failed"
        /\ Goto(t, "fail_pending")
        /\ UNCHANGED writer
     \/ /\ ~FirstFailure
        /\ Continue(t)
        /\ UNCHANGED <<fatal, state>>
  /\ UNCHANGED <<tables, inbound, lifecycle, reaper, reaped, server>>

Close(c) ==
  /\ pc[c] = "idle" /\ lifecycle = Nobody /\ state # "closed"
  /\ \/ /\ state = "new"
        /\ state' = "closed"
        /\ UNCHANGED <<lifecycle, pc, job>>
     \/ /\ state # "new"
        /\ state' = "closing" /\ lifecycle' = c
        /\ Do(c, "fail_pending", [call |-> "close", id |-> 0, then |-> "join"])
  /\ UNCHANGED <<fatal, tables, inbound, writer, reaper, reaped, server>>

(* Mutant: the table is not cleared.                                       *)
StillPendingAll == pending

StillPending == {}

(* queue.Queue(maxsize=1): a second put would block.                       *)
FailPending(t) ==
  /\ pc[t] = "fail_pending" /\ \A id \in pending : answer[id] = "none"
  /\ answer' = [id \in Ids |-> IF id \in pending THEN "error" ELSE answer[id]]
  /\ pending' = StillPending
  /\ Goto(t, "wake")
  /\ UNCHANGED <<state, fatal, nextId, inbound, locks, reaped, server>>

Wake(t) ==
  /\ pc[t] = "wake"
  /\ inbound' = Append(inbound, "error")
  /\ Goto(t, "shutdown")
  /\ UNCHANGED <<state, fatal, tables, locks, reaped, server>>

(* _shutdown_process: once; the next caller finds the result.              *)
ShutdownBegin(t) ==
  /\ pc[t] = "shutdown" /\ reaper = Nobody
  /\ \/ /\ reaped
        /\ Continue(t)
        /\ UNCHANGED <<reaper, reaped, stdin>>
     \/ /\ ~reaped /\ proc = "none"
        /\ reaped' = TRUE
        /\ Continue(t)
        /\ UNCHANGED <<reaper, stdin>>
     \/ /\ ~reaped /\ proc # "none"
        /\ reaper' = t /\ stdin' = FALSE
        /\ Goto(t, "reap")
        /\ UNCHANGED <<reaped, writer>>
  /\ UNCHANGED <<state, fatal, tables, inbound, lifecycle, proc, asked, stdout, events>>

(* Mutant: a kill is not waited for.                                       *)
KilledNotAwaited == proc

Killed == "exited"

(* The process ends on its own or is killed ...                            *)
Reap(t) ==
  /\ pc[t] = "reap"
  /\ proc' = IF proc = "exited" THEN "exited" ELSE Killed
  /\ asked' = {}
  /\ reaped' = TRUE /\ reaper' = Nobody
  /\ Continue(t)
  /\ UNCHANGED <<state, fatal, tables, inbound, lifecycle, stdin, stdout, events>>

(* ... or survives: close raises, and may be called again.                 *)
KillFails(t) ==
  /\ pc[t] = "reap" /\ proc = "running"
  /\ OddEvent
  /\ reaper' = Nobody
  /\ \/ /\ job[t].call = "close"
        /\ lifecycle' = Nobody
        /\ Return(t)
        /\ UNCHANGED writer
     \/ /\ job[t].call # "close"
        /\ Continue(t)
        /\ UNCHANGED lifecycle
  /\ UNCHANGED <<state, fatal, tables, inbound, reaped, proc, stdin, asked, stdout>>

Closed(c) ==
  /\ pc[c] = "join"
  /\ state' = "closed" /\ lifecycle' = Nobody
  /\ Return(c)
  /\ UNCHANGED <<fatal, tables, inbound, writer, reaper, reaped, server>>

-----------------------------------------------------------------------------
(* next_message.                                                           *)

NextMessage(c) ==
  /\ pc[c] = "idle" /\ ~fatal /\ state # "new" /\ ~Closing
  /\ Do(c, "get", [NoJob EXCEPT !.call = "next"])
  /\ UNCHANGED <<state, fatal, tables, inbound, locks, reaped, server>>

Get(c) ==
  /\ pc[c] = "get" /\ inbound # <<>>
  /\ inbound' = Tail(inbound)
  /\ IF Head(inbound) = "error" THEN Goto(c, "put_back") ELSE Return(c)
  /\ UNCHANGED <<state, fatal, tables, locks, reaped, server>>

GetTimedOut(c) ==
  /\ pc[c] = "get" /\ inbound = <<>>
  /\ Return(c)
  /\ UNCHANGED <<state, fatal, tables, inbound, locks, reaped, server>>

(* Mutant: the error wakes one waiter only.                                *)
ReturnedErrorLost == inbound

ReturnedError == Append(inbound, "error")

PutBack(c) ==
  /\ pc[c] = "put_back"
  /\ inbound' = ReturnedError
  /\ Return(c)
  /\ UNCHANGED <<state, fatal, tables, locks, reaped, server>>

-----------------------------------------------------------------------------
Init ==
  /\ state = "new" /\ fatal = FALSE
  /\ nextId = 0 /\ pending = {} /\ answer = [id \in Ids |-> "none"]
  /\ inbound = <<>>
  /\ lifecycle = Nobody /\ writer = Nobody /\ reaper = Nobody
  /\ reaped = FALSE
  /\ proc = "none" /\ stdin = FALSE /\ asked = {} /\ stdout = <<>>
  /\ events = 0
  /\ pc = [t \in Threads |-> IF t \in Callers THEN "idle" ELSE "ended"]
  /\ job = [t \in Threads |-> NoJob]

ServerStep ==
  \/ \E id \in Ids : ServerAnswers(id)
  \/ ServerNotifies \/ ServerErrs \/ ServerExits

Call(c) == Start(c) \/ Initialize(c) \/ Request(c) \/ Notify(c) \/ Close(c) \/ NextMessage(c)

CallerStep(c) ==
  \/ InitializeRequired(c) \/ InitializeParsed(c) \/ InitializeReady(c) \/ InitializeFailed(c)
  \/ Register(c) \/ Write(c) \/ Unregister(c) \/ Answered(c) \/ TimedOut(c)
  \/ Closed(c) \/ PutBack(c)

ReaderStep == ReadLine \/ PutResponse \/ EndOfOutput \/ StderrLineTooLong

FailureStep(t) ==
  SetFatal(t) \/ FailPending(t) \/ Wake(t) \/ ShutdownBegin(t) \/ Reap(t) \/ KillFails(t)

(* A closed client, or one that has used up its bounds, may rest.          *)
Rest == (\A c \in Callers : pc[c] \in {"idle", "get", "send"}) /\ UNCHANGED vars

Next ==
  \/ ServerStep \/ ReaderStep \/ Rest
  \/ \E c \in Callers : Call(c) \/ CallerStep(c) \/ Get(c) \/ GetTimedOut(c)
  \/ \E t \in Threads : FailureStep(t)

Spec == Init /\ [][Next]_vars

(* A thread that can go on again and again does: locks are granted, waits  *)
(* for a response or the end of the process have timeouts, and an entry    *)
(* wakes a waiter in next_message.  Its timeout gets no fairness, nor does *)
(* the server.                                                             *)
ThreadStep(t) ==
  \/ FailureStep(t)
  \/ t \in Callers /\ (CallerStep(t) \/ Get(t))
  \/ t = "out" /\ (ReadLine \/ PutResponse \/ EndOfOutput)

Fairness == \A t \in Threads : SF_vars(ThreadStep(t))

FairSpec == Spec /\ Fairness

-----------------------------------------------------------------------------
(* Properties.                                                             *)

(* Types of the client's fields, the process and the threads' locals.      *)
TypeOK ==
  /\ state \in States /\ fatal \in BOOLEAN
  /\ nextId \in 0..MaxRequests /\ pending \subseteq Ids
  /\ answer \in [Ids -> {"none", "response", "error"}]
  /\ inbound \in Seq({"note", "error"})
  /\ lifecycle \in Callers \cup {Nobody} /\ writer \in Callers \cup {Nobody}
  /\ reaper \in Threads \cup {Nobody}
  /\ reaped \in BOOLEAN /\ proc \in {"none", "running", "exited"} /\ stdin \in BOOLEAN
  /\ asked \subseteq Ids /\ events \in 0..MaxEvents
  /\ stdout \in Seq([t : {"response", "note", "bad"}, id : 0..MaxRequests])
  /\ pc \in [Threads -> PC] /\ job \in [Threads -> Job]

(* A response queue holds one entry (maxsize=1): of a response, a failure  *)
(* and a close that race for the same request only one is put, so neither  *)
(* the reader nor a failing or closing thread blocks.                      *)
NobodyBlocksOnPut ==
  /\ pc["out"] = "put" => answer[job["out"].id] = "none"
  /\ \A id \in pending : answer[id] = "none"

(* A client is ready only without a fatal error, although initialize and   *)
(* the reader's failure race.                                              *)
ReadyIsHealthy == state = "ready" => ~fatal

(* Failure, closing and closed are never left backwards.                   *)
NoWayBack ==
  [][/\ state = "failed" => state' \in {"failed", "closing"}
     /\ state = "closing" => state' \in {"closing", "closed"}
     /\ state = "closed" => state' = "closed"]_vars

(* app-server-transport.md: close returns with the process reaped, or      *)
(* raises: a closed client has no running process.                         *)
ClosedIsReaped == state = "closed" => proc # "running"

(* app-server-transport.md: end of output, a fatal error and close release *)
(* every waiting next_message, also several, without help of its timeout.  *)
WaitersReleased ==
  \A c \in Callers :
    (pc[c] = "get" /\ (fatal \/ Closing)) ~> pc[c] # "get"

(* app-server-transport.md: nothing waits without end: initialize, every   *)
(* request that was sent and every close returns, whatever the server does.*)
CallsReturn ==
  \A c \in Callers : (pc[c] \notin {"idle", "get", "send"}) ~> pc[c] = "idle"
=============================================================================
