---------------------------- MODULE ClientProofs ----------------------------
(***************************************************************************)
(* Theorems about AppServerClient, for any number of calling threads and   *)
(* any bounds.                                                             *)
(***************************************************************************)
EXTENDS AppServerClient, TLAPS

(* A request's id was handed out before it is used.                        *)
IdsHandedOut ==
  \A c \in Callers :
    \/ pc[c] = "write" /\ job[c].call # "notify"
    \/ pc[c] = "wait"
    => job[c].id \in 1..nextId

(* A request in the table has no answer, nor has one not yet handed out;   *)
(* the one the reader holds has left the table.                            *)
OneAnswer ==
  /\ pending \subseteq 1..nextId
  /\ \A id \in pending : answer[id] = "none"
  /\ \A id \in Ids : id > nextId => answer[id] = "none"
  /\ pc["out"] = "put" =>
       /\ job["out"].id \in 1..nextId /\ job["out"].id \notin pending
       /\ answer[job["out"].id] = "none"

(* A fatal error leaves the client failed, closing or closed.              *)
FatalIsFailed == fatal => state \in {"failed", "closing", "closed"}

(* The steps of initialize and close belong to those calls.                *)
StepsOfCalls ==
  \A t \in Threads :
    /\ pc[t] \in {"require", "init_parse", "init_ready", "init_failed"} =>
         job[t].call = "initialize"
    /\ pc[t] = "join" => job[t].call = "close"
    /\ job[t].then \in {"require", "init_parse", "init_ready", "init_failed"} =>
         job[t].call = "initialize"
    /\ job[t].then = "join" => job[t].call = "close"
    /\ job[t].then \notin {"write", "wait", "put"}

(* Inside initialize and close the lifecycle lock is held: what they       *)
(* decided about the state still holds, but for the reader's failure.      *)
Lifecycle ==
  \A t \in Threads :
    /\ job[t].call = "initialize" =>
         /\ lifecycle = t /\ state \in {"initializing", "failed"}
         /\ state = "failed" => fatal
    /\ job[t].call = "close" => lifecycle = t /\ state = "closing"

(* Together they are inductive.                                            *)
Inv == TypeOK /\ IdsHandedOut /\ OneAnswer /\ FatalIsFailed /\ StepsOfCalls /\ Lifecycle

(* How a thread moves, in types and calls.                                *)
LEMMA JobTypes ==
  /\ NoJob \in Job
  /\ \A j \in Job, label \in PC : [j EXCEPT !.then = label] \in Job
  /\ \A j \in Job, id \in 0..MaxRequests : [j EXCEPT !.id = id] \in Job
BY ClientAssumption DEF NoJob, Job, PC

LEMMA DoType ==
  ASSUME TypeOK, NEW t \in Threads, NEW label \in PC, NEW j \in Job, Do(t, label, j)
  PROVE  pc' \in [Threads -> PC] /\ job' \in [Threads -> Job]
BY DEF TypeOK, Do

LEMMA ThenType ==
  ASSUME TypeOK, NEW t \in Threads, NEW label \in PC, NEW after \in PC,
         Do(t, label, [job[t] EXCEPT !.then = after])
  PROVE  pc' \in [Threads -> PC] /\ job' \in [Threads -> Job]
<1>1. [job[t] EXCEPT !.then = after] \in Job
  BY JobTypes DEF TypeOK
<1> QED
  BY <1>1, DoType

LEMMA GoOnType ==
  ASSUME TypeOK, NEW t \in Threads, NEW label \in PC, GoOn(t, label)
  PROVE  pc' \in [Threads -> PC] /\ job' \in [Threads -> Job]
<1>1. [job[t] EXCEPT !.then = "idle"] \in Job
  BY JobTypes DEF TypeOK, PC
<1> QED
  BY <1>1, JobTypes DEF GoOn, Do, TypeOK

LEMMA ContinueType ==
  ASSUME TypeOK, NEW t \in Threads, Continue(t)
  PROVE  /\ writer' \in Callers \cup {Nobody}
         /\ pc' \in [Threads -> PC] /\ job' \in [Threads -> Job]
<1>1. job[t].then \in PC
  BY DEF TypeOK, Job
<1> QED
  BY <1>1, GoOnType DEF Continue, TypeOK

LEMMA ContinueCalls ==
  ASSUME TypeOK, StepsOfCalls, NEW t \in Threads, Continue(t)
  PROVE  StepsOfCalls'
<1>1. CASE job[t].then \in {"idle", "ended"}
  BY <1>1 DEF StepsOfCalls, Continue, GoOn, Do, NoJob, TypeOK
<1>2. CASE job[t].then \notin {"idle", "ended"}
  <2>1. /\ pc' = [pc EXCEPT ![t] = job[t].then]
        /\ job' = [job EXCEPT ![t] = [job[t] EXCEPT !.then = "idle"]]
    BY <1>2 DEF Continue, GoOn, Do
  <2>2. job'[t].call = job[t].call /\ job'[t].then = "idle" /\ pc'[t] = job[t].then
    BY <2>1 DEF TypeOK, Job
  <2>3. \A u \in Threads \ {t} : pc'[u] = pc[u] /\ job'[u] = job[u]
    BY <2>1 DEF TypeOK
  <2> QED
    BY <2>2, <2>3 DEF StepsOfCalls
<1> QED
  BY <1>1, <1>2

(* A thread that goes on after a failure disturbs nothing else.            *)
LEMMA ContinueRest ==
  ASSUME Inv, NEW t \in Threads, Continue(t), UNCHANGED <<state, fatal, tables, lifecycle>>
  PROVE  IdsHandedOut' /\ OneAnswer' /\ FatalIsFailed' /\ StepsOfCalls' /\ Lifecycle'
<1>1. StepsOfCalls'
  BY ContinueCalls DEF Inv
<1>2. /\ \A u \in Threads \ {t} : pc'[u] = pc[u] /\ job'[u] = job[u]
      /\ pc'[t] = job[t].then
      /\ job'[t].call \in {"none", job[t].call}
  BY DEF Inv, TypeOK, Job, Continue, GoOn, Do, NoJob
<1>3. pc'[t] \notin {"write", "wait", "put"}
  BY <1>2 DEF Inv, StepsOfCalls
<1>4. IdsHandedOut' /\ OneAnswer'
  BY <1>2, <1>3 DEF Inv, IdsHandedOut, OneAnswer, Threads, tables
<1>5. FatalIsFailed' /\ Lifecycle'
  BY <1>2 DEF Inv, FatalIsFailed, Lifecycle
<1> QED
  BY <1>1, <1>4, <1>5

LEMMA ReturnCalls ==
  ASSUME TypeOK, StepsOfCalls, NEW t \in Threads, Return(t)
  PROVE  StepsOfCalls'
BY DEF StepsOfCalls, Return, Do, NoJob, TypeOK

(* The holder of the lifecycle lock may leave whatever state it set.       *)
LEMMA ReturnLifecycle ==
  ASSUME TypeOK, Lifecycle, NEW t \in Threads, job[t].call \in {"initialize", "close"}, Return(t)
  PROVE  Lifecycle'
<1>1. \A u \in Threads \ {t} : job[u].call \notin {"initialize", "close"}
  BY DEF Lifecycle
<1>2. job'[t].call = "none" /\ \A u \in Threads \ {t} : job'[u] = job[u]
  BY DEF TypeOK, Return, Do, NoJob
<1> QED
  BY <1>1, <1>2 DEF Lifecycle

-----------------------------------------------------------------------------
(* Every action preserves the invariant.                                   *)
LEMMA StartStep ==
  ASSUME Inv, NEW c \in Callers, Start(c)
  PROVE  Inv'
<1>1. CASE /\ state' = "running" /\ proc' = "running" /\ stdin' = TRUE
           /\ pc' = [pc EXCEPT !["out"] = "read", !["err"] = "read"]
  BY <1>1 DEF Inv, TypeOK, IdsHandedOut, OneAnswer, FatalIsFailed, StepsOfCalls, Lifecycle,
     Start, States, Threads, PC, tables, locks
<1>2. CASE state' = "failed" /\ UNCHANGED <<proc, stdin, pc>>
  BY <1>2 DEF Inv, TypeOK, IdsHandedOut, OneAnswer, FatalIsFailed, StepsOfCalls, Lifecycle,
     Start, States, tables, locks
<1> QED BY <1>1, <1>2 DEF Start, Nobody, tables, locks

LEMMA InitializeStep ==
  ASSUME Inv, NEW c \in Callers, Initialize(c)
  PROVE  Inv'
BY ClientAssumption DEF Inv, TypeOK, IdsHandedOut, OneAnswer, FatalIsFailed, StepsOfCalls,
   Lifecycle, Initialize, States, Threads, PC, Job, Do, NoJob, tables, server

LEMMA InitializeRequiredStep ==
  ASSUME Inv, NEW c \in Callers, InitializeRequired(c)
  PROVE  Inv'
BY DEF Inv, TypeOK, IdsHandedOut, OneAnswer, FatalIsFailed, StepsOfCalls, Lifecycle,
   InitializeRequired, Threads, PC, Goto, tables, locks, server

LEMMA InitializeParsedStep ==
  ASSUME Inv, NEW c \in Callers, InitializeParsed(c)
  PROVE  Inv'
<1>1. CASE Goto(c, "init_ready") /\ UNCHANGED writer
  BY <1>1 DEF Inv, TypeOK, IdsHandedOut, OneAnswer, FatalIsFailed, StepsOfCalls, Lifecycle,
     InitializeParsed, Threads, PC, Goto, tables, server
<1>2. CASE Goto(c, "init_failed") /\ UNCHANGED writer
  BY <1>2 DEF Inv, TypeOK, IdsHandedOut, OneAnswer, FatalIsFailed, StepsOfCalls, Lifecycle,
     InitializeParsed, Threads, PC, Goto, tables, server
<1>3. CASE writer' = c /\ Do(c, "fatal", [job[c] EXCEPT !.then = "init_failed"])
  <2>1. TypeOK'
    BY <1>3, ThenType DEF Inv, TypeOK, InitializeParsed, Threads, PC, tables, server
  <2>2. IdsHandedOut' /\ OneAnswer' /\ FatalIsFailed' /\ StepsOfCalls' /\ Lifecycle'
    BY <1>3 DEF Inv, TypeOK, IdsHandedOut, OneAnswer, FatalIsFailed, StepsOfCalls, Lifecycle,
       InitializeParsed, Threads, Job, Do, tables
  <2> QED BY <2>1, <2>2 DEF Inv
<1> QED BY <1>1, <1>2, <1>3 DEF InitializeParsed, Nobody, Goto, Do

LEMMA InitializeReadyStep ==
  ASSUME Inv, NEW c \in Callers, InitializeReady(c)
  PROVE  Inv'
<1>1. CASE ~fatal
  <2>1. TypeOK'
    BY <1>1, JobTypes, DoType DEF Inv, TypeOK, InitializeReady, MayBecomeReady, Return,
       Threads, PC, States, tables, server
  <2>2. IdsHandedOut'
    BY <1>1 DEF Inv, IdsHandedOut, TypeOK, InitializeReady, Threads, MayBecomeReady, Return,
       tables, Do
  <2>3. OneAnswer'
    BY <1>1 DEF Inv, OneAnswer, TypeOK, InitializeReady, Threads, MayBecomeReady, Return,
       tables, Do
  <2>4. FatalIsFailed'
    BY <1>1 DEF Inv, FatalIsFailed, InitializeReady, MayBecomeReady, Return
  <2>5. StepsOfCalls'
    BY <1>1, ReturnCalls DEF Inv, InitializeReady, MayBecomeReady, Threads
  <2>6. Lifecycle'
    <3>1. job[c].call = "initialize" /\ c \in Threads
      BY DEF Inv, InitializeReady, StepsOfCalls, Threads
    <3> QED
      BY <1>1, <3>1, ReturnLifecycle DEF Inv, InitializeReady, MayBecomeReady
  <2> QED BY <2>1, <2>2, <2>3, <2>4, <2>5, <2>6 DEF Inv
<1>2. CASE fatal
  BY ClientAssumption, <1>2 DEF Inv, TypeOK, IdsHandedOut, OneAnswer, FatalIsFailed,
     StepsOfCalls, Lifecycle, InitializeReady, Threads, PC, MayBecomeReady, Return, Goto, tables,
     server
<1> QED BY <1>1, <1>2 DEF InitializeReady, MayBecomeReady, Return

LEMMA InitializeFailedStep ==
  ASSUME Inv, NEW c \in Callers, InitializeFailed(c)
  PROVE  Inv'
BY ClientAssumption DEF Inv, TypeOK, IdsHandedOut, OneAnswer, FatalIsFailed, StepsOfCalls,
   Lifecycle, InitializeFailed, States, Threads, PC, Job, Closing, Return, tables, server, Do,
   NoJob

LEMMA RequestStep ==
  ASSUME Inv, NEW c \in Callers, Request(c)
  PROVE  Inv'
BY ClientAssumption DEF Inv, TypeOK, IdsHandedOut, OneAnswer, FatalIsFailed, StepsOfCalls,
   Lifecycle, Request, Ids, Threads, PC, Job, Do, NoJob, tables, locks, server

LEMMA NotifyStep ==
  ASSUME Inv, NEW c \in Callers, Notify(c)
  PROVE  Inv'
BY ClientAssumption DEF Inv, TypeOK, IdsHandedOut, OneAnswer, FatalIsFailed, StepsOfCalls,
   Lifecycle, Notify, Ids, Nobody, Threads, PC, Job, Do, NoJob, tables, locks, server

LEMMA RegisterStep ==
  ASSUME Inv, NEW c \in Callers, Register(c)
  PROVE  Inv'
<1>1. TypeOK'
  <2>1. NewId \in Ids
    BY ClientAssumption DEF Inv, TypeOK, Register, NewId, Ids
  <2>2. [job[c] EXCEPT !.id = NewId] \in Job
    <3>1. job[c] \in Job
      BY DEF Inv, TypeOK, Threads
    <3>2. NewId \in 0..MaxRequests
      BY <2>1, ClientAssumption DEF Ids
    <3> QED
      BY <3>1, <3>2, JobTypes
  <2>3. nextId' \in 0..MaxRequests /\ pending' \subseteq Ids
    BY <2>1, ClientAssumption DEF Inv, TypeOK, Register, NewId, Ids
  <2> QED
    BY <2>2, <2>3 DEF Inv, TypeOK, Register, Do, Threads, PC, locks, server
<1>2. IdsHandedOut' /\ OneAnswer' /\ FatalIsFailed' /\ StepsOfCalls' /\ Lifecycle'
  BY ClientAssumption DEF Inv, IdsHandedOut, OneAnswer, FatalIsFailed, StepsOfCalls, Lifecycle,
     TypeOK, Register, Ids, NewId, Do, locks
<1> QED BY <1>1, <1>2 DEF Inv

LEMMA WriteStep ==
  ASSUME Inv, NEW c \in Callers, Write(c)
  PROVE  Inv'
<1>1. CASE Return(c) /\ UNCHANGED <<asked, writer>>
  BY ClientAssumption, <1>1 DEF Inv, TypeOK, IdsHandedOut, OneAnswer, FatalIsFailed,
     StepsOfCalls, Lifecycle, Write, Threads, PC, Job, Return, Do, tables, NoJob
<1>2. CASE /\ job[c].call # "notify" /\ Goto(c, "wait")
           /\ asked' = asked \cup {job[c].id} /\ UNCHANGED writer
  BY ClientAssumption, <1>2 DEF Inv, TypeOK, IdsHandedOut, OneAnswer, FatalIsFailed,
     StepsOfCalls, Lifecycle, Write, Ids, Threads, PC, Return, Goto, tables
<1>3. CASE Goto(c, "unregister") /\ UNCHANGED <<asked, writer>>
  BY <1>3 DEF Inv, TypeOK, IdsHandedOut, OneAnswer, FatalIsFailed, StepsOfCalls, Lifecycle,
     Write, Threads, PC, Return, Goto, tables
<1>4. CASE writer' = c /\ Do(c, "fatal", [job[c] EXCEPT !.then = "unregister"]) /\ UNCHANGED asked
  BY ClientAssumption, <1>4 DEF Inv, TypeOK, IdsHandedOut, OneAnswer, FatalIsFailed,
     StepsOfCalls, Lifecycle, Write, States, Nobody, Threads, PC, Job, Return, Goto, Do, tables
<1> QED BY <1>1, <1>2, <1>3, <1>4 DEF Write, Return

LEMMA UnregisterStep ==
  ASSUME Inv, NEW c \in Callers, Unregister(c)
  PROVE  Inv'
<1>1. TypeOK'
  BY GoOnType DEF Inv, TypeOK, Unregister, Failed, Threads, PC, locks, server
<1>2. IdsHandedOut' /\ OneAnswer' /\ FatalIsFailed' /\ StepsOfCalls' /\ Lifecycle'
  BY DEF Inv, IdsHandedOut, OneAnswer, FatalIsFailed, StepsOfCalls, Lifecycle, Unregister,
     GoOn, Failed, locks, Do, NoJob
<1> QED BY <1>1, <1>2 DEF Inv

LEMMA AnsweredStep ==
  ASSUME Inv, NEW c \in Callers, Answered(c)
  PROVE  Inv'
<1>1. CASE job[c].call = "initialize" /\ Goto(c, "init_parse")
  BY <1>1 DEF Inv, TypeOK, IdsHandedOut, OneAnswer, FatalIsFailed, StepsOfCalls, Lifecycle,
     Answered, Threads, PC, Goto, Return, Failed, tables, locks, server
<1>2. CASE Return(c)
  BY ClientAssumption, <1>2 DEF Inv, TypeOK, IdsHandedOut, OneAnswer, FatalIsFailed,
     StepsOfCalls, Lifecycle, Answered, Threads, PC, Job, Return, Failed, Do, tables, locks,
     server, NoJob
<1>3. CASE GoOn(c, Failed(c))
  <2>1. TypeOK'
    BY <1>3, GoOnType DEF Inv, TypeOK, Answered, Failed, Threads, PC, tables, locks, server
  <2>2. IdsHandedOut' /\ OneAnswer' /\ FatalIsFailed' /\ StepsOfCalls' /\ Lifecycle'
    BY <1>3 DEF Inv, IdsHandedOut, OneAnswer, FatalIsFailed, StepsOfCalls, Lifecycle, TypeOK,
       Answered, Return, GoOn, Failed, Do, tables, locks, NoJob
  <2> QED BY <2>1, <2>2 DEF Inv
<1>4. CASE Do(c, "fatal", [job[c] EXCEPT !.then = Failed(c)])
  <2>1. TypeOK'
    <3>1. c \in Threads /\ Failed(c) \in PC /\ "fatal" \in PC
      BY DEF Failed, Threads, PC
    <3>2. pc' \in [Threads -> PC] /\ job' \in [Threads -> Job]
      BY <1>4, <3>1, ThenType DEF Inv
    <3> QED
      BY <3>2 DEF Inv, TypeOK, Answered, tables, locks, server
  <2>2. IdsHandedOut' /\ OneAnswer' /\ FatalIsFailed' /\ StepsOfCalls' /\ Lifecycle'
    BY <1>4 DEF Inv, IdsHandedOut, OneAnswer, FatalIsFailed, StepsOfCalls, Lifecycle, Answered,
       Return, Failed, Do, tables, locks
  <2> QED BY <2>1, <2>2 DEF Inv
<1> QED BY <1>1, <1>2, <1>3, <1>4 DEF Answered, Return, Failed

LEMMA TimedOutStep ==
  ASSUME Inv, NEW c \in Callers, TimedOut(c)
  PROVE  Inv'
<1>1. TypeOK'
  <2>1. c \in Threads /\ Failed(c) \in PC /\ "fatal" \in PC
    BY DEF Failed, Threads, PC
  <2>2. pc' \in [Threads -> PC] /\ job' \in [Threads -> Job]
    BY <2>1, ThenType DEF Inv, TimedOut
  <2> QED
    BY <2>2 DEF Inv, TypeOK, TimedOut, locks, server
<1>2. IdsHandedOut' /\ OneAnswer' /\ FatalIsFailed' /\ StepsOfCalls' /\ Lifecycle'
  BY DEF Inv, IdsHandedOut, OneAnswer, FatalIsFailed, StepsOfCalls, Lifecycle, TimedOut, Do,
     Failed, locks
<1> QED BY <1>1, <1>2 DEF Inv

LEMMA ClosedStep ==
  ASSUME Inv, NEW c \in Callers, Closed(c)
  PROVE  Inv'
BY ClientAssumption DEF Inv, TypeOK, IdsHandedOut, OneAnswer, FatalIsFailed, StepsOfCalls,
   Lifecycle, Closed, States, Threads, PC, Job, Return, tables, server, Do, NoJob

LEMMA PutBackStep ==
  ASSUME Inv, NEW c \in Callers, PutBack(c)
  PROVE  Inv'
BY ClientAssumption DEF Inv, TypeOK, IdsHandedOut, OneAnswer, FatalIsFailed, StepsOfCalls,
   Lifecycle, PutBack, Threads, PC, Job, ReturnedError, Return, tables, locks, server, Do, NoJob

LEMMA CloseStep ==
  ASSUME Inv, NEW c \in Callers, Close(c)
  PROVE  Inv'
<1>1. CASE state = "new" /\ state' = "closed" /\ UNCHANGED <<lifecycle, pc, job>>
  BY <1>1 DEF Inv, TypeOK, IdsHandedOut, OneAnswer, FatalIsFailed, StepsOfCalls, Lifecycle,
     Close, States, tables, server
<1>2. CASE /\ state' = "closing" /\ lifecycle' = c
           /\ Do(c, "fail_pending", [call |-> "close", id |-> 0, then |-> "join"])
  <2>1. TypeOK'
    <3>1. [call |-> "close", id |-> 0, then |-> "join"] \in Job
      BY ClientAssumption DEF Job, PC
    <3> QED
      BY <1>2, <3>1, DoType DEF Inv, TypeOK, Close, Threads, States, PC, tables, server
  <2>2. IdsHandedOut' /\ OneAnswer' /\ FatalIsFailed' /\ StepsOfCalls' /\ Lifecycle'
    BY ClientAssumption, <1>2 DEF Inv, IdsHandedOut, OneAnswer, FatalIsFailed, StepsOfCalls,
       Lifecycle, Close, Threads, Nobody, Do, tables
  <2> QED BY <2>1, <2>2 DEF Inv
<1> QED BY <1>1, <1>2 DEF Close, Nobody, Do, tables, server

LEMMA NextMessageStep ==
  ASSUME Inv, NEW c \in Callers, NextMessage(c)
  PROVE  Inv'
<1>1. TypeOK'
  <2>1. [NoJob EXCEPT !.call = "next"] \in Job
    BY ClientAssumption DEF NoJob, Job, PC
  <2>2. c \in Threads /\ "get" \in PC
    BY DEF Threads, PC
  <2>3. pc' \in [Threads -> PC] /\ job' \in [Threads -> Job]
    BY <2>1, <2>2, DoType DEF Inv, NextMessage
  <2> QED
    BY <2>3 DEF Inv, TypeOK, NextMessage, tables, locks, server
<1>2. IdsHandedOut' /\ OneAnswer' /\ FatalIsFailed' /\ StepsOfCalls' /\ Lifecycle'
  BY ClientAssumption DEF Inv, TypeOK, IdsHandedOut, OneAnswer, FatalIsFailed, StepsOfCalls,
     Lifecycle, NextMessage, Do, NoJob, Threads, tables, locks
<1> QED BY <1>1, <1>2 DEF Inv

LEMMA GetStep ==
  ASSUME Inv, NEW c \in Callers, Get(c)
  PROVE  Inv'
<1>1. CASE Goto(c, "put_back")
  BY <1>1 DEF Inv, TypeOK, IdsHandedOut, OneAnswer, FatalIsFailed, StepsOfCalls, Lifecycle,
     Get, Threads, PC, Goto, Return, tables, locks, server
<1>2. CASE Return(c)
  BY ClientAssumption, <1>2 DEF Inv, TypeOK, IdsHandedOut, OneAnswer, FatalIsFailed,
     StepsOfCalls, Lifecycle, Get, Threads, PC, Job, Return, tables, locks, server, Do, NoJob
<1> QED BY <1>1, <1>2 DEF Get, Return

LEMMA GetTimedOutStep ==
  ASSUME Inv, NEW c \in Callers, GetTimedOut(c)
  PROVE  Inv'
BY ClientAssumption DEF Inv, TypeOK, IdsHandedOut, OneAnswer, FatalIsFailed, StepsOfCalls,
   Lifecycle, GetTimedOut, Threads, PC, Job, Return, tables, locks, server, Do, NoJob

LEMMA ServerAnswersStep ==
  ASSUME Inv, NEW id \in Ids, ServerAnswers(id)
  PROVE  Inv'
<1>1. TypeOK'
  BY DEF Inv, TypeOK, ServerAnswers, Ids, WriteLine, tables, locks
<1>2. IdsHandedOut' /\ OneAnswer' /\ FatalIsFailed' /\ StepsOfCalls' /\ Lifecycle'
  BY DEF Inv, IdsHandedOut, OneAnswer, FatalIsFailed, StepsOfCalls, Lifecycle, ServerAnswers,
     WriteLine, tables, locks
<1> QED BY <1>1, <1>2 DEF Inv

LEMMA ServerNotifiesStep ==
  ASSUME Inv, ServerNotifies
  PROVE  Inv'
BY ClientAssumption DEF Inv, TypeOK, IdsHandedOut, OneAnswer, FatalIsFailed, StepsOfCalls,
   Lifecycle, ServerNotifies, WriteLine, OddEvent, tables, locks

LEMMA ServerErrsStep ==
  ASSUME Inv, ServerErrs
  PROVE  Inv'
BY ClientAssumption DEF Inv, TypeOK, IdsHandedOut, OneAnswer, FatalIsFailed, StepsOfCalls,
   Lifecycle, ServerErrs, WriteLine, OddEvent, tables, locks

LEMMA ServerExitsStep ==
  ASSUME Inv, ServerExits
  PROVE  Inv'
BY DEF Inv, TypeOK, IdsHandedOut, OneAnswer, FatalIsFailed, StepsOfCalls, Lifecycle,
   ServerExits, tables, locks

LEMMA ReadLineStep ==
  ASSUME Inv, ReadLine
  PROVE  Inv'
<1>1. CASE /\ Head(stdout).t = "note"
           /\ inbound' = Append(inbound, "note") /\ UNCHANGED <<pending, pc, job>>
  BY <1>1 DEF Inv, TypeOK, IdsHandedOut, OneAnswer, FatalIsFailed, StepsOfCalls, Lifecycle,
     ReadLine, PC, locks
<1>2. CASE /\ Head(stdout).id \in pending
           /\ pending' = pending \ {Head(stdout).id}
           /\ Do("out", "put", [NoJob EXCEPT !.id = Head(stdout).id])
           /\ UNCHANGED inbound
  BY ClientAssumption, <1>2 DEF Inv, TypeOK, IdsHandedOut, OneAnswer, FatalIsFailed,
     StepsOfCalls, Lifecycle, ReadLine, States, Threads, PC, Job, Do, NoJob, locks
<1>3. CASE Do("out", "fatal", [NoJob EXCEPT !.then = "ended"]) /\ UNCHANGED <<pending, inbound>>
  <2>1. TypeOK'
    <3>1. [NoJob EXCEPT !.then = "ended"] \in Job /\ "out" \in Threads /\ "fatal" \in PC
      BY JobTypes DEF Threads, PC
    <3>2. pc' \in [Threads -> PC] /\ job' \in [Threads -> Job]
      BY <1>3, <3>1, DoType DEF Inv
    <3> QED
      BY <1>3, <3>2 DEF Inv, TypeOK, ReadLine, locks
  <2>2. IdsHandedOut' /\ OneAnswer' /\ FatalIsFailed' /\ StepsOfCalls' /\ Lifecycle'
    BY ClientAssumption, <1>3 DEF Inv, TypeOK, IdsHandedOut, OneAnswer, FatalIsFailed,
       StepsOfCalls, Lifecycle, ReadLine, Do, NoJob, Threads, locks
  <2> QED BY <2>1, <2>2 DEF Inv
<1> QED BY <1>1, <1>2, <1>3 DEF ReadLine, Do, NoJob, locks

LEMMA PutResponseStep ==
  ASSUME Inv, PutResponse
  PROVE  Inv'
BY ClientAssumption DEF Inv, TypeOK, IdsHandedOut, OneAnswer, FatalIsFailed, StepsOfCalls,
   Lifecycle, PutResponse, Ids, Threads, PC, Job, Do, NoJob, locks, server

LEMMA EndOfOutputStep ==
  ASSUME Inv, EndOfOutput
  PROVE  Inv'
BY ClientAssumption DEF Inv, TypeOK, IdsHandedOut, OneAnswer, FatalIsFailed, StepsOfCalls,
   Lifecycle, EndOfOutput, States, Nobody, Threads, PC, Job, Closing, GoOn, Do, NoJob, tables,
   locks, server

LEMMA StderrLineTooLongStep ==
  ASSUME Inv, StderrLineTooLong
  PROVE  Inv'
BY ClientAssumption DEF Inv, TypeOK, IdsHandedOut, OneAnswer, FatalIsFailed, StepsOfCalls,
   Lifecycle, StderrLineTooLong, Nobody, Threads, PC, Job, OddEvent, Do, NoJob, tables, locks

LEMMA SetFatalStep ==
  ASSUME Inv, NEW t \in Threads, SetFatal(t)
  PROVE  Inv'
<1>1. CASE FirstFailure
  <2>1. TypeOK'
    BY ClientAssumption, <1>1 DEF Inv, TypeOK, SetFatal, States, Ids, Nobody, Threads, PC, Job,
       FirstFailure, Goto, Continue, tables, server, Closing, GoOn
  <2>2. IdsHandedOut' /\ OneAnswer' /\ FatalIsFailed' /\ StepsOfCalls' /\ Lifecycle'
    BY <1>1 DEF Inv, IdsHandedOut, OneAnswer, FatalIsFailed, StepsOfCalls, Lifecycle, TypeOK,
       SetFatal, Threads, FirstFailure, Goto, tables, Closing
  <2> QED BY <2>1, <2>2 DEF Inv
<1>2. CASE ~FirstFailure
  <2>1. TypeOK'
    BY <1>2, ContinueType DEF Inv, TypeOK, SetFatal, tables, server
  <2>2. IdsHandedOut' /\ OneAnswer' /\ FatalIsFailed' /\ StepsOfCalls' /\ Lifecycle'
    BY <1>2, ContinueRest DEF SetFatal
  <2> QED BY <2>1, <2>2 DEF Inv
<1> QED BY <1>1, <1>2 DEF SetFatal, FirstFailure, Closing

LEMMA FailPendingStep ==
  ASSUME Inv, NEW t \in Threads, FailPending(t)
  PROVE  Inv'
BY ClientAssumption DEF Inv, TypeOK, IdsHandedOut, OneAnswer, FatalIsFailed, StepsOfCalls,
   Lifecycle, FailPending, Ids, PC, StillPending, Goto, locks, server

LEMMA WakeStep ==
  ASSUME Inv, NEW t \in Threads, Wake(t)
  PROVE  Inv'
BY DEF Inv, TypeOK, IdsHandedOut, OneAnswer, FatalIsFailed, StepsOfCalls, Lifecycle, Wake,
   PC, Goto, tables, locks, server

LEMMA ShutdownBeginStep ==
  ASSUME Inv, NEW t \in Threads, ShutdownBegin(t)
  PROVE  Inv'
<1>1. CASE ~reaped /\ proc # "none"
  <2>1. TypeOK'
    BY ClientAssumption, <1>1 DEF Inv, TypeOK, IdsHandedOut, StepsOfCalls, ShutdownBegin,
       States, Ids, Nobody, Threads, PC, Job, Continue, Goto, tables, GoOn
  <2>2. IdsHandedOut' /\ OneAnswer' /\ FatalIsFailed' /\ StepsOfCalls' /\ Lifecycle'
    BY <1>1 DEF Inv, IdsHandedOut, OneAnswer, FatalIsFailed, StepsOfCalls, Lifecycle, TypeOK,
       ShutdownBegin, Threads, Goto, tables
  <2> QED BY <2>1, <2>2 DEF Inv
<1>2. CASE reaped \/ proc = "none"
  <2>1. TypeOK'
    BY <1>2, ContinueType DEF Inv, TypeOK, ShutdownBegin, tables
  <2>2. IdsHandedOut' /\ OneAnswer' /\ FatalIsFailed' /\ StepsOfCalls' /\ Lifecycle'
    BY <1>2, ContinueRest DEF ShutdownBegin
  <2> QED BY <2>1, <2>2 DEF Inv
<1> QED BY <1>1, <1>2 DEF ShutdownBegin

LEMMA ReapStep ==
  ASSUME Inv, NEW t \in Threads, Reap(t)
  PROVE  Inv'
<1>1. TypeOK'
  BY ContinueType DEF Inv, TypeOK, Reap, Killed, Nobody, tables
<1>2. IdsHandedOut' /\ OneAnswer' /\ FatalIsFailed' /\ StepsOfCalls' /\ Lifecycle'
  BY ContinueRest DEF Reap
<1> QED BY <1>1, <1>2 DEF Inv

LEMMA KillFailsStep ==
  ASSUME Inv, NEW t \in Threads, KillFails(t)
  PROVE  Inv'
<1>1. CASE job[t].call = "close"
  <2>1. TypeOK'
    <3>1. pc' \in [Threads -> PC] /\ job' \in [Threads -> Job]
      BY <1>1, JobTypes, DoType DEF Inv, KillFails, Return, PC
    <3> QED
      BY ClientAssumption, <1>1, <3>1 DEF Inv, TypeOK, KillFails, OddEvent, tables
  <2>2. IdsHandedOut'
    BY <1>1 DEF Inv, IdsHandedOut, TypeOK, KillFails, Threads, PC, Return, tables, Do
  <2>3. OneAnswer'
    BY <1>1 DEF Inv, OneAnswer, TypeOK, KillFails, Threads, Return, tables, Do
  <2>4. FatalIsFailed'
    BY <1>1 DEF Inv, FatalIsFailed, KillFails, Return
  <2>5. StepsOfCalls'
    BY <1>1, ReturnCalls DEF Inv, KillFails
  <2>6. Lifecycle'
    BY <1>1, ReturnLifecycle DEF Inv, KillFails
  <2> QED BY <2>1, <2>2, <2>3, <2>4, <2>5, <2>6 DEF Inv
<1>2. CASE job[t].call # "close"
  <2>1. TypeOK'
    BY ClientAssumption, <1>2, ContinueType DEF Inv, TypeOK, KillFails, OddEvent, Nobody, tables
  <2>2. IdsHandedOut' /\ OneAnswer' /\ FatalIsFailed' /\ StepsOfCalls' /\ Lifecycle'
    BY <1>2, ContinueRest DEF KillFails
  <2> QED BY <2>1, <2>2 DEF Inv
<1> QED BY <1>1, <1>2 DEF KillFails, Return

-----------------------------------------------------------------------------
LEMMA InitInv == Init => Inv
<1> SUFFICES ASSUME Init PROVE Inv
  OBVIOUS
<1>1. pc \in [Threads -> PC] /\ job \in [Threads -> Job]
  BY JobTypes DEF Init, PC
<1>2. TypeOK
  <2>1. answer \in [Ids -> {"none", "response", "error"}]
    BY DEF Init
  <2>2. /\ inbound \in Seq({"note", "error"})
        /\ stdout \in Seq([t : {"response", "note", "bad"}, id : 0..MaxRequests])
    BY DEF Init
  <2>3. nextId \in 0..MaxRequests /\ events \in 0..MaxEvents
    BY ClientAssumption DEF Init
  <2> QED
    BY <1>1, <2>1, <2>2, <2>3 DEF Init, TypeOK, States
<1>3. IdsHandedOut
  BY DEF Init, IdsHandedOut, Threads
<1>4. OneAnswer
  BY ClientAssumption DEF Init, OneAnswer, Ids, Threads
<1>5. FatalIsFailed /\ StepsOfCalls /\ Lifecycle
  BY DEF Init, FatalIsFailed, StepsOfCalls, Lifecycle, NoJob
<1> QED
  BY <1>2, <1>3, <1>4, <1>5 DEF Inv

LEMMA StepInv == Inv /\ [Next]_vars => Inv'
<1> SUFFICES ASSUME Inv, [Next]_vars PROVE Inv'
  OBVIOUS
<1>1. CASE ServerStep
  BY <1>1, ServerAnswersStep, ServerNotifiesStep, ServerErrsStep, ServerExitsStep DEF
     ServerStep
<1>2. CASE ReaderStep
  BY <1>2, ReadLineStep, PutResponseStep, EndOfOutputStep, StderrLineTooLongStep DEF ReaderStep
<1>3. ASSUME NEW c \in Callers, Call(c) PROVE Inv'
  BY <1>3, StartStep, InitializeStep, RequestStep, NotifyStep, CloseStep, NextMessageStep DEF
     Call
<1>4. ASSUME NEW c \in Callers, CallerStep(c) PROVE Inv'
  BY <1>4, InitializeRequiredStep, InitializeParsedStep, InitializeReadyStep,
     InitializeFailedStep, RegisterStep, WriteStep, UnregisterStep, AnsweredStep, TimedOutStep,
     ClosedStep, PutBackStep DEF CallerStep
<1>5. ASSUME NEW t \in Threads, FailureStep(t) PROVE Inv'
  BY <1>5, SetFatalStep, FailPendingStep, WakeStep, ShutdownBeginStep, ReapStep, KillFailsStep
     DEF FailureStep
<1>6. CASE UNCHANGED vars
  BY <1>6 DEF Inv, TypeOK, IdsHandedOut, OneAnswer, FatalIsFailed, StepsOfCalls, Lifecycle,
     vars, tables, locks, server
<1> QED
  BY <1>1, <1>2, <1>3, <1>4, <1>5, <1>6, GetStep, GetTimedOutStep DEF Next, Rest

(* The invariant the other theorems rest on.                               *)
THEOREM Invariant == Spec => []Inv
BY InitInv, StepInv, PTL DEF Spec

(* The fields of the client and the locals of its threads keep their types.*)
THEOREM ClientTypeCorrect == Spec => []TypeOK
<1>1. Inv => TypeOK
  BY DEF Inv
<1> QED
  BY <1>1, Invariant, PTL

(* For any number of threads, no response queue is put into twice: reader, *)
(* failure and close never block on one (_dispatch_message, _fail_pending).*)
THEOREM NoPutBlocks == Spec => []NobodyBlocksOnPut
<1>1. Inv => NobodyBlocksOnPut
  BY DEF Inv, OneAnswer, NobodyBlocksOnPut
<1> QED
  BY <1>1, Invariant, PTL

(* A failed client never reports itself ready (_initialize_locked and      *)
(* _set_fatal, in any order).                                              *)
THEOREM ReadyOnlyWhenHealthy == Spec => []ReadyIsHealthy
<1>1. Inv => ReadyIsHealthy
  BY DEF Inv, FatalIsFailed, ReadyIsHealthy
<1> QED
  BY <1>1, Invariant, PTL

(* What NoWayBack says of one step.                                        *)
Forward ==
  /\ state = "failed" => state' \in {"failed", "closing"}
  /\ state = "closing" => state' \in {"closing", "closed"}
  /\ state = "closed" => state' = "closed"

LEMMA StepForward == Inv /\ [Next]_vars => Forward
<1> SUFFICES ASSUME Inv, [Next]_vars PROVE Forward
  OBVIOUS
<1>1. CASE state' = state
  BY <1>1 DEF Forward
<1>2. ASSUME NEW c \in Callers, Start(c) \/ Initialize(c) \/ Close(c) PROVE Forward
  BY <1>2 DEF Forward, Start, Initialize, Close
<1>3. ASSUME NEW c \in Callers, InitializeReady(c) \/ InitializeFailed(c) \/ Closed(c)
      PROVE  Forward
  BY <1>3 DEF Forward, InitializeReady, MayBecomeReady, InitializeFailed, Closed, Inv,
     StepsOfCalls, Lifecycle, Threads
<1>4. ASSUME NEW t \in Threads, SetFatal(t) PROVE Forward
  BY <1>4 DEF Forward, SetFatal, FirstFailure, Closing
<1>5. CASE ServerStep \/ ReaderStep \/ UNCHANGED vars
  BY <1>1, <1>5 DEF ServerStep, ServerAnswers, ServerNotifies, ServerErrs, ServerExits,
     ReaderStep, ReadLine, PutResponse, EndOfOutput, StderrLineTooLong, vars
<1>6. ASSUME NEW c \in Callers, Call(c) \/ CallerStep(c) \/ Get(c) \/ GetTimedOut(c) PROVE Forward
  BY <1>1, <1>2, <1>3, <1>6 DEF Call, Request, Notify, NextMessage, CallerStep,
     InitializeRequired, InitializeParsed, Register, Write, Unregister, Answered, TimedOut,
     PutBack, Get, GetTimedOut
<1>7. ASSUME NEW t \in Threads, FailureStep(t) PROVE Forward
  BY <1>1, <1>4, <1>7 DEF FailureStep, FailPending, Wake, ShutdownBegin, Reap, KillFails
<1> QED
  BY <1>5, <1>6, <1>7 DEF Next, Rest

(* A failed client only closes, a closing one only becomes closed, whatever*)
(* initialize, the readers' failures and a repeated close do meanwhile.    *)
THEOREM FailureIsFinal == Spec => NoWayBack
<1>1. Inv /\ [Next]_vars => [Forward]_vars
  BY StepForward
<1>2. Spec => [][Forward]_vars
  BY <1>1, Invariant, PTL DEF Spec
<1> QED
  BY <1>2 DEF NoWayBack, Forward

-----------------------------------------------------------------------------
(* A closed client has no process.  _process_shutdown_result is set when   *)
(* there is nothing left to wait for, and close goes past the shutdown only*)
(* with that result; a failed kill leaves it unset.                        *)
ShuttingDown == {"fail_pending", "wake", "shutdown", "reap"}

ReapedForGood ==
  /\ state = "new" => proc = "none"
  /\ reaped => state # "new" /\ proc # "running"
  /\ state = "closed" => proc # "running"

ShutdownSteps ==
  \A t \in Threads :
    /\ job[t].then \in {"idle", "join", "init_failed", "unregister", "ended"}
    /\ job[t].call = "close" =>
         pc[t] = "join" \/ (pc[t] \in ShuttingDown /\ job[t].then = "join")
    /\ pc[t] = "join" => reaped
    /\ pc[t] \in ShuttingDown => state # "new"

(* A thread that goes somewhere else, with no close under way in it.       *)
LEMMA Elsewhere ==
  ASSUME Inv, ShutdownSteps, NEW t \in Threads,
         \A u \in Threads \ {t} : pc'[u] = pc[u] /\ job'[u] = job[u],
         pc'[t] \notin ShuttingDown, pc'[t] # "join", job'[t].call # "close",
         job'[t].then \in {"idle", "join", "init_failed", "unregister", "ended"},
         reaped => reaped', state # "new" => state' # "new"
  PROVE  ShutdownSteps'
BY DEF ShutdownSteps

(* A thread that goes on after a failure or the shutdown: into the join    *)
(* only when the process has been reaped.                                  *)
LEMMA ContinueShutdown ==
  ASSUME Inv, ShutdownSteps, NEW t \in Threads, Continue(t),
         reaped' \/ job[t].call # "close", pc[t] # "join",
         reaped => reaped', UNCHANGED state
  PROVE  ShutdownSteps'
<1>1. /\ \A u \in Threads \ {t} : pc'[u] = pc[u] /\ job'[u] = job[u]
      /\ pc'[t] = job[t].then /\ job'[t].then = "idle"
      /\ job'[t].call \in {"none", job[t].call}
  BY DEF Inv, TypeOK, Job, Continue, GoOn, Do, NoJob
<1>2. job[t].then = "join" <=> job[t].call = "close"
  BY DEF Inv, StepsOfCalls, ShutdownSteps
<1> QED
  BY <1>1, <1>2 DEF ShutdownSteps, ShuttingDown

LEMMA CallReaped ==
  ASSUME Inv, ReapedForGood, ShutdownSteps, NEW c \in Callers, Call(c)
  PROVE  ReapedForGood' /\ ShutdownSteps'
<1> c \in Threads
  BY DEF Threads
<1>1. CASE Start(c)
  <2>1. ReapedForGood'
    BY <1>1 DEF Start, ReapedForGood
  <2>2. /\ state' # "new" /\ reaped' = reaped /\ job' = job
        /\ \A t \in Threads : pc'[t] = pc[t] \/ (pc'[t] = "read" /\ t \in {"out", "err"})
    BY <1>1 DEF Start, Inv, TypeOK
  <2>3. job["out"].call # "close" /\ job["err"].call # "close"
    BY <1>1, ClientAssumption DEF Start, Inv, Lifecycle, Threads
  <2> QED
    BY <2>1, <2>2, <2>3 DEF ShutdownSteps, ShuttingDown
<1>2. CASE Initialize(c) \/ Request(c) \/ Notify(c) \/ NextMessage(c)
  <2>1. /\ \A u \in Threads \ {c} : pc'[u] = pc[u] /\ job'[u] = job[u]
        /\ pc'[c] \in {"require", "send", "write", "get"}
        /\ job'[c].call # "close" /\ job'[c].then = "idle"
        /\ UNCHANGED <<reaped, proc>> /\ state # "new" /\ state' \notin {"new", "closed"}
    BY <1>2 DEF Initialize, Request, Notify, NextMessage, Closing, Do, NoJob, server, Inv,
       TypeOK, States
  <2>2. ShutdownSteps'
    BY <2>1, Elsewhere DEF ShuttingDown
  <2> QED
    BY <2>1, <2>2 DEF ReapedForGood
<1>3. CASE Close(c)
  <2>1. CASE state = "new"
    BY <1>3, <2>1 DEF Close, server, ReapedForGood, ShutdownSteps, ShuttingDown
  <2>2. CASE state # "new"
    <3>1. /\ \A u \in Threads \ {c} : pc'[u] = pc[u] /\ job'[u] = job[u]
          /\ pc'[c] = "fail_pending" /\ job'[c].call = "close" /\ job'[c].then = "join"
          /\ UNCHANGED <<reaped, proc>> /\ state' = "closing"
      BY <1>3, <2>2 DEF Close, Do, Inv, TypeOK, server
    <3> QED
      BY <2>2, <3>1 DEF ReapedForGood, ShutdownSteps, ShuttingDown
  <2> QED
    BY <2>1, <2>2
<1> QED
  BY <1>1, <1>2, <1>3 DEF Call

LEMMA CallerStepReaped ==
  ASSUME Inv, ReapedForGood, ShutdownSteps, NEW c \in Callers,
         CallerStep(c) \/ Get(c) \/ GetTimedOut(c)
  PROVE  ReapedForGood' /\ ShutdownSteps'
<1> c \in Threads
  BY DEF Threads
<1>1. CASE Closed(c)
  <2>1. /\ \A u \in Threads \ {c} : pc'[u] = pc[u] /\ job'[u] = job[u]
        /\ pc'[c] = "idle" /\ job'[c] = NoJob /\ state' = "closed" /\ UNCHANGED <<reaped, proc>>
    BY <1>1 DEF Closed, Return, Do, Inv, TypeOK, server
  <2>2. reaped
    BY <1>1 DEF Closed, ShutdownSteps
  <2>3. ShutdownSteps'
    BY <2>1, Elsewhere DEF NoJob, ShuttingDown
  <2> QED
    BY <2>1, <2>2, <2>3 DEF ReapedForGood
<1>2. CASE ~Closed(c)
  <2>1. job[c].call # "close"
    BY <1>2 DEF CallerStep, InitializeRequired, InitializeParsed, InitializeReady,
       InitializeFailed, Register, Write, Unregister, Answered, TimedOut, PutBack, Get,
       GetTimedOut, ShutdownSteps, ShuttingDown
  <2>2. UNCHANGED <<reaped, proc>>
    BY <1>2 DEF CallerStep, InitializeRequired, InitializeParsed, InitializeReady,
       InitializeFailed, Register, Write, Unregister, Answered, TimedOut, PutBack, Get,
       GetTimedOut, server
  <2>3. state' = state \/ (state # "new" /\ state' \in {"ready", "failed"})
    BY <1>2 DEF CallerStep, InitializeRequired, InitializeParsed, InitializeReady,
       InitializeFailed, Register, Write, Unregister, Answered, TimedOut, PutBack, Get,
       GetTimedOut, Inv, StepsOfCalls, Lifecycle
  <2>4. /\ \A u \in Threads \ {c} : pc'[u] = pc[u] /\ job'[u] = job[u]
        /\ pc'[c] \notin ShuttingDown /\ pc'[c] # "join"
        /\ job'[c].call \in {"none", job[c].call}
        /\ job'[c].then \in {"idle", "init_failed", "unregister", job[c].then}
    <3>1. CASE InitializeRequired(c) \/ InitializeReady(c) \/ InitializeFailed(c) \/ PutBack(c)
      BY <3>1 DEF InitializeRequired, InitializeReady, InitializeFailed, PutBack, Goto, Return,
         Do, NoJob, ShuttingDown, Inv, TypeOK
    <3>2. CASE InitializeParsed(c)
      BY <3>2 DEF InitializeParsed, Goto, Do, ShuttingDown, Inv, TypeOK, Job
    <3>3. CASE Register(c) \/ Unregister(c)
      BY <3>3 DEF Register, Unregister, GoOn, Failed, Do, NoJob, ShuttingDown, Inv, TypeOK, Job
    <3>4. CASE Write(c)
      BY <3>4 DEF Write, Goto, Return, Do, NoJob, ShuttingDown, Inv, TypeOK, Job
    <3>5. CASE Answered(c)
      BY <3>5 DEF Answered, GoOn, Failed, Goto, Return, Do, NoJob, ShuttingDown, Inv, TypeOK, Job
    <3>6. CASE TimedOut(c)
      BY <3>6 DEF TimedOut, Failed, Do, ShuttingDown, Inv, TypeOK, Job
    <3>7. CASE Get(c) \/ GetTimedOut(c)
      BY <3>7 DEF Get, GetTimedOut, Goto, Return, Do, NoJob, ShuttingDown, Inv, TypeOK
    <3> QED
      BY <1>2, <3>1, <3>2, <3>3, <3>4, <3>5, <3>6, <3>7 DEF CallerStep
  <2>5. job[c].then \in {"idle", "join", "init_failed", "unregister", "ended"}
    BY DEF ShutdownSteps
  <2>6. ShutdownSteps'
    BY <2>1, <2>2, <2>3, <2>4, <2>5, Elsewhere
  <2> QED
    BY <2>2, <2>3, <2>6 DEF ReapedForGood
<1> QED
  BY <1>1, <1>2

LEMMA ReaderReaped ==
  ASSUME Inv, ReapedForGood, ShutdownSteps, ServerStep \/ ReaderStep
  PROVE  ReapedForGood' /\ ShutdownSteps'
<1> "out" \in Threads /\ "err" \in Threads
  BY DEF Threads
<1>1. CASE ServerStep
  <2>1. UNCHANGED <<state, reaped, pc, job>> /\ proc' \in {proc, "exited"}
        /\ (proc' # proc => proc = "running")
    BY <1>1 DEF ServerStep, ServerAnswers, ServerNotifies, ServerErrs, ServerExits
  <2> QED
    BY <2>1 DEF ReapedForGood, ShutdownSteps
<1>2. CASE ReaderStep
  <2>1. UNCHANGED <<state, reaped, proc>>
    BY <1>2 DEF ReaderStep, ReadLine, PutResponse, EndOfOutput, StderrLineTooLong, server
  <2>2. UNCHANGED <<pc, job>> \/ \E t \in {"out", "err"} :
          /\ \A u \in Threads \ {t} : pc'[u] = pc[u] /\ job'[u] = job[u]
          /\ pc'[t] \in {"put", "fatal", "read", "ended"}
          /\ job'[t].call = "none" /\ job'[t].then \in {"idle", "ended"}
    <3>1. CASE ReadLine
      BY <3>1 DEF ReadLine, Do, NoJob, Inv, TypeOK
    <3>2. CASE PutResponse
      BY <3>2 DEF PutResponse, Do, NoJob, Inv, TypeOK
    <3>3. CASE EndOfOutput
      BY <3>3 DEF EndOfOutput, GoOn, Do, NoJob, Inv, TypeOK
    <3>4. CASE StderrLineTooLong
      BY <3>4 DEF StderrLineTooLong, Do, NoJob, Inv, TypeOK
    <3> QED
      BY <1>2, <3>1, <3>2, <3>3, <3>4 DEF ReaderStep
  <2>3. ShutdownSteps'
    <3>1. CASE UNCHANGED <<pc, job>>
      BY <2>1, <3>1 DEF ShutdownSteps
    <3>2. ASSUME NEW t \in {"out", "err"},
                 \A u \in Threads \ {t} : pc'[u] = pc[u] /\ job'[u] = job[u],
                 pc'[t] \in {"put", "fatal", "read", "ended"},
                 job'[t].call = "none", job'[t].then \in {"idle", "ended"}
          PROVE  ShutdownSteps'
      BY <2>1, <3>2, Elsewhere DEF ShuttingDown
    <3> QED
      BY <2>2, <3>1, <3>2
  <2> QED
    BY <2>1, <2>3 DEF ReapedForGood
<1> QED
  BY <1>1, <1>2

LEMMA FailureReaped ==
  ASSUME Inv, ReapedForGood, ShutdownSteps, NEW t \in Threads, FailureStep(t)
  PROVE  ReapedForGood' /\ ShutdownSteps'
<1>1. CASE SetFatal(t)
  <2>1. pc[t] = "fatal" /\ job[t].call # "close" /\ UNCHANGED <<reaped, proc>>
    BY <1>1 DEF SetFatal, ShutdownSteps, ShuttingDown, server
  <2>2. CASE FirstFailure
    <3>1. /\ state' = "failed" /\ job' = job /\ pc'[t] = "fail_pending"
          /\ \A u \in Threads \ {t} : pc'[u] = pc[u]
      BY <1>1, <2>2 DEF SetFatal, Goto, Inv, TypeOK
    <3> QED
      BY <2>1, <3>1 DEF ReapedForGood, ShutdownSteps, ShuttingDown
  <2>3. CASE ~FirstFailure
    <3>1. Continue(t) /\ UNCHANGED state
      BY <1>1, <2>3 DEF SetFatal
    <3> QED
      BY <2>1, <3>1, ContinueShutdown DEF ReapedForGood
  <2> QED
    BY <2>2, <2>3
<1>2. CASE FailPending(t) \/ Wake(t)
  <2>1. /\ UNCHANGED <<state, reaped, proc, job>> /\ pc[t] \in ShuttingDown
        /\ pc'[t] \in ShuttingDown /\ \A u \in Threads \ {t} : pc'[u] = pc[u]
    BY <1>2 DEF FailPending, Wake, Goto, Inv, TypeOK, server, ShuttingDown
  <2> QED
    BY <2>1 DEF ReapedForGood, ShutdownSteps, ShuttingDown
<1>3. CASE ShutdownBegin(t)
  <2>1. pc[t] = "shutdown" /\ state # "new" /\ UNCHANGED <<state, proc>>
    BY <1>3 DEF ShutdownBegin, ShutdownSteps, ShuttingDown
  <2>2. CASE reaped \/ proc = "none"
    <3>1. reaped' /\ Continue(t)
      BY <1>3, <2>2 DEF ShutdownBegin
    <3>2. ShutdownSteps'
      BY <2>1, <3>1, ContinueShutdown
    <3> QED
      BY <2>1, <2>2, <3>2 DEF ReapedForGood
  <2>3. CASE ~reaped /\ proc # "none"
    <3>1. /\ UNCHANGED <<reaped, job>> /\ pc'[t] = "reap"
          /\ \A u \in Threads \ {t} : pc'[u] = pc[u]
      BY <1>3, <2>3 DEF ShutdownBegin, Goto, Inv, TypeOK
    <3> QED
      BY <2>1, <3>1 DEF ReapedForGood, ShutdownSteps, ShuttingDown
  <2> QED
    BY <2>2, <2>3
<1>4. CASE Reap(t)
  <2>1. /\ pc[t] = "reap" /\ state # "new" /\ UNCHANGED state /\ proc' = "exited" /\ reaped'
        /\ Continue(t)
    BY <1>4 DEF Reap, Killed, ShutdownSteps, ShuttingDown
  <2>2. ShutdownSteps'
    BY <2>1, ContinueShutdown
  <2> QED
    BY <2>1, <2>2 DEF ReapedForGood
<1>5. CASE KillFails(t)
  <2>1. pc[t] = "reap" /\ UNCHANGED <<state, reaped, proc>>
    BY <1>5 DEF KillFails
  <2>2. CASE job[t].call = "close"
    <3>1. /\ \A u \in Threads \ {t} : pc'[u] = pc[u] /\ job'[u] = job[u]
          /\ pc'[t] = "idle" /\ job'[t] = NoJob
      BY <1>5, <2>2 DEF KillFails, Return, Do, Inv, TypeOK
    <3>2. ShutdownSteps'
      BY <2>1, <3>1, Elsewhere DEF NoJob, ShuttingDown
    <3> QED
      BY <2>1, <3>2 DEF ReapedForGood
  <2>3. CASE job[t].call # "close"
    <3>1. Continue(t)
      BY <1>5, <2>3 DEF KillFails
    <3> QED
      BY <2>1, <2>3, <3>1, ContinueShutdown DEF ReapedForGood
  <2> QED
    BY <2>2, <2>3
<1> QED
  BY <1>1, <1>2, <1>3, <1>4, <1>5 DEF FailureStep

(* close returns only with the process gone: whatever failures and other   *)
(* calls to close came first, and even if a kill was survived before.      *)
THEOREM ClosedIsReapedAlways == Spec => []ClosedIsReaped
<1>1. Init => ReapedForGood /\ ShutdownSteps
  BY DEF Init, ReapedForGood, ShutdownSteps, NoJob, ShuttingDown
<1>2. ASSUME Inv, ReapedForGood, ShutdownSteps, [Next]_vars
      PROVE  ReapedForGood' /\ ShutdownSteps'
  <2>1. CASE UNCHANGED vars
    BY <1>2, <2>1 DEF vars, server, ReapedForGood, ShutdownSteps
  <2> QED
    BY <1>2, <2>1, CallReaped, CallerStepReaped, ReaderReaped, FailureReaped DEF Next, Rest
<1>3. ReapedForGood => ClosedIsReaped
  BY DEF ReapedForGood, ClosedIsReaped
<1> QED
  BY <1>1, <1>2, <1>3, Invariant, PTL DEF Spec
=============================================================================
