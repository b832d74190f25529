--------------------------- MODULE FirmwareProofs ---------------------------
(***************************************************************************)
(* Theorems about Firmware, for any approvals, any number of slots, any    *)
(* chords of keys, any iteration times and any width of millis().          *)
(***************************************************************************)
EXTENDS Firmware, FiniteSetTheorems, SequenceTheorems, TLAPS

(* What number keys that are down together give.                           *)
SelectFrames == UNION {{SelectKeys(S)[i] : i \in 1..Cardinality(S)} : S \in SUBSET Slots}

Frame ==
  {Hello, Pong} \cup SelectFrames
    \cup {Interrupt(s, t) : s \in Slots, t \in Turn}
    \cup {Decision(c, i) : c \in {"accept", "decline"}, i \in Ids}

Screen ==
  [id : Ids \cup {NoId}, sending : BOOLEAN, accept : BOOLEAN, decline : BOOLEAN, bodyEnd : BOOLEAN,
   scroll : Nat, shownAt : Nat, choice : {"hold", "accept", "decline"}]

Types ==
  /\ now \in Nat
  /\ phase \in {"idle", "read", "keys", "button", "hello", "drain"}
  /\ link \in [session : BOOLEAN, protocolOk : BOOLEAN, received : BOOLEAN, lastReceive : Nat, up : BOOLEAN]
  /\ service \in BOOLEAN /\ focus \in Slots /\ turns \in [Slots -> Turn \cup {None}]
  /\ approval \in Screen
  /\ tx \in Seq(Frame) /\ Len(tx) <= TxDepth
  /\ lastHello \in Nat
  /\ button \in [down : BOOLEAN, downAt : Nat, latched : BOOLEAN]
  /\ shown \in [since : Nat, reached : Nat, decisions : Nat]
  /\ heard \in Nat
  /\ pressed \in [since : Nat, sent : Nat]

(* The lines up to r have been in view: all that are visible now, and the  *)
(* last one if the end of the text counts as seen.                         *)
Seen(a, r) ==
  /\ r >= Smaller(a.scroll + VisibleLines, Lines[a.id])
  /\ a.bodyEnd => r >= Lines[a.id]

(* The screen's own record of when it was shown is the clock at the true   *)
(* time, whatever updates came since.                                      *)
Displayed ==
  approval.id # NoId =>
    /\ approval.shownAt = shown.since % ClockSize /\ shown.since <= now
    /\ Seen(approval, shown.reached)
    /\ approval.accept => approval.id \in Complete

Held ==
  /\ button.down => button.downAt = pressed.since % ClockSize
  /\ pressed.since <= now
  /\ pressed.sent = 1 => button.down /\ button.latched

Linked ==
  /\ heard <= now
  /\ link.received => link.session /\ link.lastReceive = heard % ClockSize
  /\ link.up => link.received
  /\ phase \in {"keys", "button"} /\ link.up => Elapsed(link.lastReceive) <= StaleMs

FirmwareInv == Types /\ Displayed /\ DecidedOnce /\ Held /\ InterruptDeliberate /\ Linked

-----------------------------------------------------------------------------
(* Arithmetic of the clock.                                                *)
LEMMA ModFacts ==
  ASSUME NEW C \in Nat \ {0}, NEW n \in Nat
  PROVE  n % C \in 0..(C - 1) /\ \E q \in Nat : n = (C * q) + (n % C)
<1>1. n % C \in 0..(C - 1)
  OBVIOUS
<1>2. n = (C * (n \div C)) + (n % C)
  OBVIOUS
<1>3. n \div C \in Nat
  OBVIOUS
<1> QED
  BY <1>1, <1>2, <1>3

LEMMA Wrap ==
  ASSUME NEW C \in Nat \ {0}, NEW r \in 0..(C - 1), NEW s \in 0..(C - 1)
  PROVE  (r + C - s) % C = IF r >= s THEN r - s ELSE r + C - s
OBVIOUS

LEMMA Multiples ==
  ASSUME NEW C \in Nat \ {0}, NEW a \in Int, NEW b \in Int, a < b
  PROVE  C * a + C <= C * b
OBVIOUS

(* A modular difference never exceeds the true one.                        *)
LEMMA ElapsedBound ==
  ASSUME NEW C \in Nat \ {0}, NEW m \in Nat, NEW n \in Nat, m <= n
  PROVE  ((n % C) + C - (m % C)) % C <= n - m
<1>1. PICK a \in Nat : n = (C * a) + (n % C)
  BY ModFacts
<1>2. PICK b \in Nat : m = (C * b) + (m % C)
  BY ModFacts
<1> DEFINE r == n % C
           s == m % C
<1>3. r \in 0..(C - 1) /\ s \in 0..(C - 1)
  BY ModFacts
<1>4. PICK x \in Int, y \in Int : x = C * a /\ y = C * b
  OBVIOUS
<1>5. (a < b => x + C <= y) /\ (b < a => y + C <= x) /\ (a = b => x = y)
  BY <1>4, Multiples
<1>6. n = x + r /\ m = y + s
  BY <1>1, <1>2, <1>4
<1> HIDE DEF r, s
<1>7. (r + C - s) % C = IF r >= s THEN r - s ELSE r + C - s
  BY <1>3, Wrap
<1>8. a < b \/ b < a \/ a = b
  OBVIOUS
<1>9. (r + C - s) % C <= n - m
  BY <1>3, <1>5, <1>6, <1>7, <1>8
<1> QED
  BY <1>9 DEF r, s

(* Before the clock wraps, they are equal.                                 *)
LEMMA ElapsedExact ==
  ASSUME NEW C \in Nat \ {0}, NEW m \in Nat, NEW n \in Nat, m <= n, n < C
  PROVE  ((n % C) + C - (m % C)) % C = n - m
<1>1. n % C = n /\ m % C = m
  OBVIOUS
<1>2. n \in 0..(C - 1) /\ m \in 0..(C - 1)
  OBVIOUS
<1> QED
  BY <1>1, <1>2, Wrap

LEMMA Times ==
  ASSUME Types, NEW m \in Nat, m <= now
  PROVE  /\ Elapsed(m % ClockSize) <= now - m
         /\ now < ClockSize => Elapsed(m % ClockSize) = now - m
         /\ Clock \in Nat
<1>1. ClockSize \in Nat \ {0} /\ now \in Nat
  BY FirmwareAssumption DEF Types
<1>2. ((now % ClockSize) + ClockSize - (m % ClockSize)) % ClockSize <= now - m
  BY <1>1, ElapsedBound
<1>3. now < ClockSize => ((now % ClockSize) + ClockSize - (m % ClockSize)) % ClockSize = now - m
  BY <1>1, ElapsedExact
<1>4. now % ClockSize \in Nat
  BY <1>1, ModFacts
<1> QED
  BY <1>2, <1>3, <1>4 DEF Elapsed, Clock

-----------------------------------------------------------------------------
(* The number keys.                                                        *)
LEMMA LargestKey ==
  ASSUME NEW S, S \subseteq Slots, S # {}
  PROVE  (CHOOSE s \in S : \A o \in S : o <= s) \in Slots
<1>0. SlotCount \in Nat /\ Slots = 1..SlotCount
  BY FirmwareAssumption DEF Slots
<1> DEFINE T == {n \in Nat : \A o \in S : o <= n}
<1>1. SlotCount \in T
  BY <1>0
<1>2. PICK n \in T : \A m \in T : ~(m < n)
  <2>1. PICK n \in T : \A m \in T : ~(<<m, n>> \in OpToRel(<, Nat))
    BY <1>1, WFMin, NatLessThanWellFounded
  <2> QED
    BY <2>1 DEF OpToRel
<1>3. n \in S
  <2> SUFFICES ASSUME n \notin S PROVE FALSE
    OBVIOUS
  <2>1. \A o \in S : o \in Nat /\ o <= n /\ o # n /\ o >= 1
    BY <1>0
  <2>2. PICK o : o \in S
    OBVIOUS
  <2>3. n \in Nat /\ n >= 1
    BY <2>1, <2>2
  <2>4. n - 1 \in Nat /\ \A u \in S : u <= n - 1
    BY <2>1, <2>3
  <2> QED
    BY <1>2, <2>3, <2>4
<1>4. \E s \in S : \A o \in S : o <= s
  BY <1>2, <1>3
<1> HIDE DEF T
<1> QED
  BY <1>4

LEMMA SelectsAreSelects ==
  ASSUME NEW S, S \subseteq Slots
  PROVE  /\ SelectKeys(S) \in Seq(Frame)
         /\ \A i \in 1..Len(SelectKeys(S)) : SelectKeys(S)[i].t = "select"
<1>1. Cardinality(S) \in Nat
  <2>1. IsFiniteSet(Slots)
    BY FS_Interval, FirmwareAssumption DEF Slots
  <2> QED
    BY <2>1, FS_Subset, FS_CardinalityType
<1> DEFINE n == Cardinality(S)
           Key(i) == CHOOSE s \in S : Cardinality({o \in S : o < s}) = i - 1
<1>2. SelectKeys(S) = [i \in 1..n |-> Select(Key(i))]
  BY DEF SelectKeys
<1>3. \A i \in 1..n : SelectKeys(S)[i] \in SelectFrames
  BY DEF SelectFrames
<1>4. \A i \in 1..n : SelectKeys(S)[i].t = "select"
  BY <1>2 DEF Select
<1> HIDE DEF Key
<1>5. SelectKeys(S) \in [1..n -> Frame]
  BY <1>2, <1>3 DEF Frame
<1>6. SelectKeys(S) \in Seq(Frame) /\ Len(SelectKeys(S)) = n
  BY <1>1, <1>5
<1> QED
  BY <1>4, <1>6

(* What a key event leaves in the queue before Enter is looked at.         *)
Queued(S) ==
  IF CanSend THEN tx \o SubSeq(SelectKeys(S), 1, Smaller(Len(SelectKeys(S)), TxDepth - Len(tx)))
             ELSE tx

LEMMA QueuedSelects ==
  ASSUME Types, NEW S, S \subseteq Slots
  PROVE  /\ Queued(S) \in Seq(Frame) /\ Len(Queued(S)) \in Len(tx)..TxDepth
         /\ Len(Queued(S)) > Len(tx) => Queued(S)[Len(Queued(S))].t = "select" /\ CanSend
<1>1. tx \in Seq(Frame) /\ Len(tx) \in Nat /\ TxDepth \in Nat /\ Len(tx) <= TxDepth
  BY FirmwareAssumption DEF Types
<1>2. CASE ~CanSend
  BY <1>1, <1>2 DEF Queued
<1>3. CASE CanSend
  <2> DEFINE k == SelectKeys(S)
             n == Smaller(Len(k), TxDepth - Len(tx))
             p == SubSeq(k, 1, n)
  <2>1. k \in Seq(Frame) /\ Len(k) \in Nat /\ \A i \in 1..Len(k) : k[i].t = "select"
    BY SelectsAreSelects
  <2> HIDE DEF k
  <2>2. n \in Nat /\ n <= Len(k) /\ n <= TxDepth - Len(tx)
    BY <1>1, <2>1 DEF Smaller
  <2> HIDE DEF n
  <2>3. \A i \in 1..n : k[i] \in Frame
    BY <2>1, <2>2
  <2>4. p \in Seq(Frame) /\ Len(p) = n /\ \A i \in 1..n : p[i] = k[i]
    BY <2>2, <2>3, SubSeqProperties
  <2>5. Queued(S) = tx \o p
    BY <1>3 DEF Queued, k, n
  <2> HIDE DEF p
  <2>6. /\ tx \o p \in Seq(Frame) /\ Len(tx \o p) = Len(tx) + n
        /\ n > 0 => (tx \o p)[Len(tx) + n] = p[n]
    <3>1. tx \o p \in Seq(Frame) /\ Len(tx \o p) = Len(tx) + n
      BY <1>1, <2>4
    <3>2. \A i \in 1..(Len(tx) + Len(p)) : (tx \o p)[i] = IF i <= Len(tx) THEN tx[i] ELSE p[i - Len(tx)]
      BY <1>1, <2>4
    <3>3. n > 0 => Len(tx) + n \in 1..(Len(tx) + Len(p)) /\ ~(Len(tx) + n <= Len(tx))
                     /\ (Len(tx) + n) - Len(tx) = n
      BY <1>1, <2>2, <2>4
    <3> QED
      BY <3>1, <3>2, <3>3
  <2>7. n > 0 => p[n].t = "select"
    BY <2>1, <2>2, <2>4
  <2> QED
    BY <1>1, <1>3, <2>2, <2>5, <2>6, <2>7
<1> QED
  BY <1>2, <1>3

-----------------------------------------------------------------------------
(* The approval's keys.                                                    *)
LEMMA ScrolledSeen ==
  ASSUME NEW a \in Screen, a.id \in Ids, NEW r \in Nat, Seen(a, r), NEW delta
  PROVE  LET b == Scrolled(a, delta) IN
         /\ b \in Screen /\ b.id = a.id /\ b.sending = a.sending /\ b.shownAt = a.shownAt
         /\ b.accept = a.accept
         /\ delta = "up" => Seen(b, r)
         /\ Seen(b, Larger(r, LastVisible(b))) /\ Larger(r, LastVisible(b)) \in Nat
<1>0. /\ Lines[a.id] \in Nat /\ VisibleLines \in Nat \ {0} /\ a.scroll \in Nat /\ a.bodyEnd \in BOOLEAN
      /\ MaxScroll(a.id) \in Nat
  BY FirmwareAssumption DEF Screen, MaxScroll
<1> DEFINE at == IF delta = "down" THEN Smaller(a.scroll + 1, MaxScroll(a.id))
                 ELSE IF a.scroll = 0 THEN 0 ELSE a.scroll - 1
           b == Scrolled(a, delta)
<1>1. at \in Nat /\ (delta = "up" => at <= a.scroll)
  BY <1>0 DEF Smaller
<1> HIDE DEF at
<1>2. CASE Lines[a.id] = 0
  <2>1. b = a
    BY <1>2 DEF Scrolled
  <2>2. Smaller(a.scroll + VisibleLines, 0) = 0 /\ LastVisible(a) = 0 /\ Larger(r, 0) \in Nat
        /\ Larger(r, 0) >= 0
    BY <1>0, <1>2 DEF Smaller, LastVisible, Larger
  <2>3. (delta = "up" => Seen(b, r)) /\ Seen(b, Larger(r, LastVisible(b))) /\ Larger(r, LastVisible(b)) \in Nat
    BY <1>0, <1>2, <2>1, <2>2 DEF Seen
  <2> QED
    BY <2>1, <2>3
<1>3. CASE Lines[a.id] # 0
  <2>1. PICK e \in BOOLEAN : e = (a.bodyEnd \/ at + VisibleLines >= Lines[a.id])
    OBVIOUS
  <2>2. b = [a EXCEPT !.scroll = at, !.bodyEnd = e]
    BY <1>3, <2>1 DEF Scrolled, at
  <2> HIDE DEF b
  <2>3. /\ b \in Screen /\ b.id = a.id /\ b.sending = a.sending /\ b.shownAt = a.shownAt
        /\ b.accept = a.accept /\ b.scroll = at /\ b.bodyEnd = e
    BY <1>1, <2>2 DEF Screen
  <2>4. delta = "up" => Seen(b, r)
    BY <1>0, <1>1, <2>1, <2>3 DEF Seen, Smaller
  <2>5. LastVisible(b) = Smaller(at + VisibleLines, Lines[a.id])
    BY <2>3 DEF LastVisible
  <2>6. Seen(b, Larger(r, LastVisible(b))) /\ Larger(r, LastVisible(b)) \in Nat
    BY <1>0, <1>1, <2>1, <2>3, <2>5 DEF Seen, Smaller, Larger
  <2> QED
    BY <2>3, <2>4, <2>6 DEF b
<1> QED
  BY <1>2, <1>3

LEMMA ChosenScreen ==
  ASSUME NEW a \in Screen, NEW c \in {"hold", "accept", "decline"}
  PROVE  /\ Chosen(a, c) \in Screen
         /\ Chosen(a, c).id = a.id /\ Chosen(a, c).sending = a.sending /\ Chosen(a, c).shownAt = a.shownAt
         /\ Chosen(a, c).accept = a.accept /\ Chosen(a, c).bodyEnd = a.bodyEnd
         /\ Chosen(a, c).scroll = a.scroll
BY DEF Chosen, Screen

(* The lines that have been in view after a key event.                     *)
Reached(keys) ==
  IF "j" \in keys THEN Larger(shown.reached, LastVisible(Scrolled(approval, "down"))) ELSE shown.reached

LEMMA KeyedScreen ==
  ASSUME Types, Displayed, approval.id # NoId, NEW keys
  PROVE  /\ Keyed(keys) \in Screen
         /\ Keyed(keys).id = approval.id /\ Keyed(keys).sending = approval.sending
         /\ Keyed(keys).shownAt = approval.shownAt /\ Keyed(keys).accept = approval.accept
         /\ Seen(Keyed(keys), Reached(keys)) /\ Reached(keys) \in Nat
<1> DEFINE Same(a) == /\ a \in Screen /\ a.id = approval.id /\ a.sending = approval.sending
                      /\ a.shownAt = approval.shownAt /\ a.accept = approval.accept
                      /\ Seen(a, Reached(keys))
           a1 == IF "j" \in keys THEN Scrolled(approval, "down") ELSE approval
           a2 == IF "k" \in keys THEN Scrolled(a1, "up") ELSE a1
           a3 == IF "0" \in keys THEN Chosen(a2, "hold") ELSE a2
           a4 == IF "a" \in keys THEN Chosen(a3, "accept") ELSE a3
           a5 == IF "d" \in keys THEN Chosen(a4, "decline") ELSE a4
<1>1. approval \in Screen /\ approval.id \in Ids /\ shown.reached \in Nat /\ Seen(approval, shown.reached)
  BY DEF Types, Displayed, Screen
<1>3. Reached(keys) \in Nat
  BY <1>1, ScrolledSeen DEF Reached
<1>4. Same(a1)
  BY <1>1, ScrolledSeen DEF Reached
<1> HIDE DEF a1
<1>5. Same(a2)
  BY <1>1, <1>3, <1>4, ScrolledSeen
<1> HIDE DEF a2
<1>6. ASSUME NEW a, Same(a), NEW c \in {"hold", "accept", "decline"} PROVE Same(Chosen(a, c))
  BY <1>6, ChosenScreen DEF Seen
<1>7. Same(a3)
  BY <1>5, <1>6
<1> HIDE DEF a3
<1>8. Same(a4)
  BY <1>6, <1>7
<1> HIDE DEF a4
<1>9. Same(a5)
  BY <1>6, <1>8
<1>10. Keyed(keys) = a5
  BY DEF Keyed, a1, a2, a3, a4
<1> QED
  BY <1>3, <1>9, <1>10

-----------------------------------------------------------------------------
(* The steps.                                                              *)
LEMMA NoteReceiveLink ==
  ASSUME Types, NEW s \in BOOLEAN, NEW p \in BOOLEAN,
         link' = NoteReceive([link EXCEPT !.session = s, !.protocolOk = p])
  PROVE  /\ link' \in [session : BOOLEAN, protocolOk : BOOLEAN, received : BOOLEAN, lastReceive : Nat, up : BOOLEAN]
         /\ link'.session = s /\ link'.protocolOk = p /\ link'.received /\ link'.lastReceive = Clock
<1>1. Clock \in Nat
  BY Times DEF Types
<1> QED
  BY <1>1 DEF Types, NoteReceive

(* A line of the session, applied.                                         *)
LEMMA ReceivedLink ==
  ASSUME FirmwareInv, phase = "read", link' = NoteReceive(link), link.session, heard' = now,
         UNCHANGED <<now, phase>>
  PROVE  Linked' /\ link' \in [session : BOOLEAN, protocolOk : BOOLEAN, received : BOOLEAN, lastReceive : Nat, up : BOOLEAN]
<1>1. Types /\ Clock \in Nat /\ Clock = now % ClockSize /\ now <= now
  BY Times DEF FirmwareInv, Types, Clock
<1>2. /\ link' \in [session : BOOLEAN, protocolOk : BOOLEAN, received : BOOLEAN, lastReceive : Nat, up : BOOLEAN]
      /\ link'.session /\ link'.lastReceive = Clock /\ link'.received
  BY <1>1 DEF Types, NoteReceive
<1> QED
  BY <1>1, <1>2 DEF Linked

LEMMA NoApprovalScreen == NoApproval \in Screen /\ NoApproval.id = NoId
BY DEF NoApproval, Screen

LEMMA NothingShownType ==
  /\ NothingShown \in [since : Nat, reached : Nat, decisions : Nat]
  /\ NothingShown.decisions = 0
BY DEF NothingShown

LEMMA AppendFrame ==
  ASSUME Types, NEW m \in Frame, HasRoom(tx), tx' = Append(tx, m)
  PROVE  tx' \in Seq(Frame) /\ Len(tx') <= TxDepth /\ Len(tx') = Len(tx) + 1 /\ tx'[Len(tx')] = m
<1>1. tx \in Seq(Frame) /\ Len(tx) < TxDepth /\ TxDepth \in Nat
  BY FirmwareAssumption DEF Types, HasRoom
<1> QED
  BY <1>1

LEMMA TickStep ==
  ASSUME FirmwareInv, NEW d \in Ticks, Tick(d)
  PROVE  FirmwareInv'
<1>1. /\ d \in Nat /\ now \in Nat /\ now' = now + d /\ phase' = "read"
      /\ UNCHANGED <<link, view, approval, tx, lastHello, button, history>>
  BY FirmwareAssumption DEF Tick, Goto, FirmwareInv, Types
<1> USE DEF view, history
<1>2. Types'
  BY <1>1 DEF FirmwareInv, Types
<1>3. shown.since \in Nat /\ heard \in Nat /\ pressed.since \in Nat /\ HoldMs \in Nat
  BY FirmwareAssumption DEF FirmwareInv, Types
<1>4. Displayed' /\ DecidedOnce'
  BY <1>1, <1>3 DEF FirmwareInv, Displayed, DecidedOnce, Seen
<1>5. Held' /\ InterruptDeliberate'
  BY <1>1, <1>3 DEF FirmwareInv, Held, InterruptDeliberate
<1>6. Linked'
  BY <1>1, <1>3 DEF FirmwareInv, Linked
<1> QED
  BY <1>2, <1>4, <1>5, <1>6 DEF FirmwareInv

(* An approval that is shown for the first time.                           *)
LEMMA OfferedScreen ==
  ASSUME Types, NEW id \in Ids, NEW sending \in BOOLEAN
  PROVE  LET o == Offered(id, sending) IN
         /\ o \in Screen /\ o.id = id /\ o.scroll = 0 /\ o.shownAt = Clock
         /\ o.bodyEnd => Lines[id] <= VisibleLines
         /\ o.accept => id \in Complete
<1>1. Clock \in Nat
  BY Times DEF Types
<1>2. PICK a \in BOOLEAN : a = (~sending /\ id \in Complete)
  OBVIOUS
<1>6. PICK b \in BOOLEAN : b = (Lines[id] <= VisibleLines)
  <2>1. Lines[id] \in Nat /\ VisibleLines \in Nat
    BY FirmwareAssumption
  <2>2. (Lines[id] <= VisibleLines) \in BOOLEAN
    BY <2>1
  <2> QED
    BY <2>2, Zenon
<1>7. PICK d \in BOOLEAN : d = ~sending
  OBVIOUS
<1>3. Offered(id, sending) =
        [NoApproval EXCEPT !.id = id, !.sending = sending, !.accept = a, !.decline = d,
                           !.bodyEnd = b, !.shownAt = Clock]
  BY <1>2, <1>6, <1>7, Zenon DEF Offered
<1> DEFINE o == Offered(id, sending)
<1>4. o \in Screen /\ o.id = id /\ o.scroll = 0 /\ o.shownAt = Clock /\ o.bodyEnd = b /\ o.accept = a
  <2>1. NoApproval \in Screen /\ NoApproval.scroll = 0
    BY DEF NoApproval, Screen
  <2> QED
    BY <1>1, <1>3, <2>1 DEF Screen
<1> HIDE DEF o
<1>5. (o.bodyEnd => Lines[id] <= VisibleLines) /\ (o.accept => id \in Complete)
  BY <1>2, <1>6, <1>4
<1> QED
  BY <1>4, <1>5 DEF o

LEMMA UpdatedScreen ==
  ASSUME Types, NEW id \in Ids, NEW sending \in BOOLEAN
  PROVE  LET o == Offered(id, sending)
             u == Updated(o) IN
         /\ u \in Screen /\ u.id = id /\ u.shownAt = approval.shownAt
         /\ u.scroll = Smaller(approval.scroll, MaxScroll(id))
         /\ u.bodyEnd => approval.bodyEnd \/ Lines[id] <= VisibleLines
         /\ u.accept => id \in Complete
         /\ approval.sending => u.sending
<1> DEFINE o == Offered(id, sending)
<1>1. /\ o \in Screen /\ o.id = id /\ (o.bodyEnd => Lines[id] <= VisibleLines)
      /\ o.accept => id \in Complete
  BY OfferedScreen
<1> HIDE DEF o
<1>2. /\ approval \in Screen /\ approval.scroll \in Nat /\ approval.shownAt \in Nat
      /\ approval.choice \in {"hold", "accept", "decline"}
      /\ MaxScroll(id) \in Nat
  BY FirmwareAssumption DEF Types, Screen, MaxScroll
<1>3. PICK s \in BOOLEAN, b \in BOOLEAN, n \in Nat, c \in {"hold", "accept", "decline"} :
        /\ s = (o.sending \/ approval.sending) /\ b = (approval.bodyEnd \/ o.bodyEnd)
        /\ n = Smaller(approval.scroll, MaxScroll(o.id))
        /\ c = IF \/ approval.choice = "accept" /\ o.accept
                  \/ approval.choice = "decline" /\ o.decline
               THEN approval.choice ELSE "hold"
  <2>1. Smaller(approval.scroll, MaxScroll(o.id)) \in Nat
    BY <1>1, <1>2 DEF Smaller
  <2> QED
    BY <1>2, <2>1
<1>4. Updated(o) = [o EXCEPT !.sending = s, !.shownAt = approval.shownAt, !.scroll = n,
                             !.bodyEnd = b, !.choice = c]
  BY <1>3 DEF Updated
<1>5. /\ Updated(o) \in Screen /\ Updated(o).id = id /\ Updated(o).shownAt = approval.shownAt
      /\ Updated(o).scroll = n /\ Updated(o).bodyEnd = b /\ Updated(o).accept = o.accept
      /\ Updated(o).sending = s
  BY <1>1, <1>2, <1>4 DEF Screen
<1> QED
  BY <1>1, <1>3, <1>5 DEF o

LEMMA ReceiveApprovalStep ==
  ASSUME FirmwareInv, NEW id \in Ids, NEW sending \in BOOLEAN, ReceiveApproval(id, sending)
  PROVE  FirmwareInv'
<1> USE DEF view, history
<1>0. /\ Types /\ Displayed /\ DecidedOnce /\ Held /\ InterruptDeliberate /\ Linked
      /\ UNCHANGED <<now, phase, view, tx, lastHello, button, pressed>>
      /\ link' = NoteReceive(link) /\ heard' = now /\ phase = "read" /\ link.session
  BY DEF FirmwareInv, ReceiveApproval, Receiving
<1>1. Linked' /\ link' \in [session : BOOLEAN, protocolOk : BOOLEAN, received : BOOLEAN, lastReceive : Nat, up : BOOLEAN]
  BY <1>0, ReceivedLink
<1>2. Lines[id] \in Nat /\ VisibleLines \in Nat \ {0} /\ id # NoId /\ now \in Nat /\ shown.reached \in Nat
  BY <1>0, FirmwareAssumption DEF Types
<1>3. CASE approval.id = id
  <2>1. shown' = shown /\ approval' = Updated(Offered(id, sending))
    BY <1>3 DEF ReceiveApproval
  <2>2. /\ approval' \in Screen /\ approval'.id = id /\ approval'.shownAt = approval.shownAt
        /\ approval'.scroll = Smaller(approval.scroll, MaxScroll(id))
        /\ approval'.bodyEnd => approval.bodyEnd \/ Lines[id] <= VisibleLines
        /\ approval'.accept => id \in Complete
        /\ approval.sending => approval'.sending
    BY <1>0, <2>1, UpdatedScreen
  <2>3. approval.scroll \in Nat /\ MaxScroll(id) \in Nat
    BY <1>0, <1>2 DEF Types, Screen, MaxScroll
  <2>4. Seen(approval', shown.reached)
    <3>1. /\ shown.reached >= Smaller(approval.scroll + VisibleLines, Lines[id])
          /\ approval.bodyEnd => shown.reached >= Lines[id]
      BY <1>0, <1>2, <1>3 DEF Seen, Displayed
    <3>2. shown.reached >= Smaller(approval'.scroll + VisibleLines, Lines[id])
      BY <1>2, <2>2, <2>3, <3>1 DEF Smaller
    <3>3. approval'.bodyEnd => shown.reached >= Lines[id]
      BY <1>2, <2>2, <2>3, <3>1 DEF Smaller
    <3> QED
      BY <2>2, <3>2, <3>3 DEF Seen
  <2>5. Displayed'
    BY <1>0, <1>2, <1>3, <2>1, <2>2, <2>4 DEF Displayed
  <2> QED
    BY <1>0, <1>1, <2>1, <2>2, <2>5 DEF FirmwareInv, Types, DecidedOnce, Held, InterruptDeliberate
<1>4. CASE approval.id # id
  <2>1. /\ approval' = Offered(id, sending)
        /\ shown' = [since |-> now, reached |-> Smaller(VisibleLines, Lines[id]), decisions |-> 0]
    BY <1>4 DEF ReceiveApproval
  <2>2. /\ approval' \in Screen /\ approval'.id = id /\ approval'.scroll = 0 /\ approval'.shownAt = Clock
        /\ approval'.bodyEnd => Lines[id] <= VisibleLines
        /\ approval'.accept => id \in Complete
    BY <1>0, <2>1, OfferedScreen
  <2>3. Smaller(VisibleLines, Lines[id]) \in Nat
    BY <1>2 DEF Smaller
  <2>4. Seen(approval', Smaller(VisibleLines, Lines[id]))
    BY <1>2, <2>2 DEF Seen, Smaller
  <2>5. Displayed'
    BY <1>0, <1>2, <2>1, <2>2, <2>4 DEF Displayed, Clock
  <2> QED
    BY <1>0, <1>1, <1>2, <2>1, <2>2, <2>3, <2>5
    DEF FirmwareInv, Types, DecidedOnce, Held, InterruptDeliberate
<1> QED
  BY <1>3, <1>4

LEMMA ReceiveStep ==
  ASSUME FirmwareInv, ReadSerial
  PROVE  FirmwareInv'
<1> USE DEF view, history
<1>0. Types /\ Displayed /\ DecidedOnce /\ Held /\ InterruptDeliberate /\ Linked
  BY DEF FirmwareInv
<1> DEFINE L == [session : BOOLEAN, protocolOk : BOOLEAN, received : BOOLEAN, lastReceive : Nat, up : BOOLEAN]
<1>1. ASSUME NEW new \in BOOLEAN, ReceiveHello(new) PROVE FirmwareInv'
  <2>1. /\ UNCHANGED <<now, phase, focus, turns, tx, lastHello, button, pressed>>
        /\ heard' = now /\ phase = "read"
        /\ link' = NoteReceive([link EXCEPT !.session = TRUE, !.protocolOk = TRUE])
    BY <1>1 DEF ReceiveHello
  <2>2. link' \in L /\ link'.session /\ link'.lastReceive = Clock /\ link'.received
    BY <1>0, <2>1, NoteReceiveLink
  <2>3. now \in Nat
    BY <1>0 DEF Types
  <2>4. Linked'
    BY <2>1, <2>2, <2>3 DEF Linked, Clock
  <2>5. \/ UNCHANGED <<service, approval, shown>>
        \/ service' = FALSE /\ approval' = NoApproval /\ shown' = NothingShown
    BY <1>1 DEF ReceiveHello
  <2>6. Displayed' /\ DecidedOnce' /\ approval' \in Screen
        /\ shown' \in [since : Nat, reached : Nat, decisions : Nat] /\ service' \in BOOLEAN
    <3>1. CASE UNCHANGED <<service, approval, shown>>
      BY <1>0, <2>1, <3>1 DEF Displayed, DecidedOnce, Types
    <3>2. CASE service' = FALSE /\ approval' = NoApproval /\ shown' = NothingShown
      <4>1. approval'.id = NoId /\ approval' \in Screen
        BY <3>2, NoApprovalScreen
      <4>2. shown'.decisions = 0 /\ shown' \in [since : Nat, reached : Nat, decisions : Nat]
        BY <3>2, NothingShownType
      <4>3. service' \in BOOLEAN
        BY <3>2, Zenon
      <4>4. DecidedOnce'
        BY <4>2 DEF DecidedOnce
      <4>5. Displayed'
        BY <4>1 DEF Displayed
      <4> QED
        BY <4>1, <4>2, <4>3, <4>4, <4>5
    <3> QED
      BY <2>5, <3>1, <3>2
  <2> QED
    BY <1>0, <2>1, <2>2, <2>4, <2>6 DEF FirmwareInv, Types, Held, InterruptDeliberate
<1>2. CASE ReceiveBadHello
  <2>1. /\ UNCHANGED <<now, phase, focus, turns, approval, tx, lastHello, button, shown, heard, pressed>>
        /\ service' = FALSE /\ phase = "read"
        /\ link' = [link EXCEPT !.protocolOk = FALSE, !.up = FALSE]
    BY <1>2 DEF ReceiveBadHello
  <2>2. link' \in L /\ link'.up = FALSE /\ link'.session = link.session /\ link'.received = link.received
        /\ link'.lastReceive = link.lastReceive
    BY <1>0, <2>1 DEF Types
  <2>3. Linked'
    BY <1>0, <2>1, <2>2 DEF Linked
  <2> QED
    BY <1>0, <2>1, <2>2, <2>3 DEF FirmwareInv, Types, Displayed, DecidedOnce, Held, InterruptDeliberate
<1>3. ASSUME NEW ready \in BOOLEAN, NEW s \in Slots, NEW active \in [Slots -> Turn \cup {None}],
             ReceiveState(ready, s, active)
      PROVE  FirmwareInv'
  <2>1. Linked' /\ link' \in L
    BY <1>3, ReceivedLink DEF ReceiveState, Receiving
  <2>2. /\ UNCHANGED <<now, phase, approval, tx, lastHello, button, shown, pressed>>
        /\ heard' = now /\ service' = ready /\ focus' = s /\ turns' = active
    BY <1>3 DEF ReceiveState
  <2> QED
    BY <1>0, <1>3, <2>1, <2>2 DEF FirmwareInv, Types, Displayed, DecidedOnce, Held, InterruptDeliberate
<1>4. ASSUME NEW id \in Ids, ReceiveResolved(id) PROVE FirmwareInv'
  <2>1. Linked' /\ link' \in L
    BY <1>4, ReceivedLink DEF ReceiveResolved, Receiving
  <2>2. /\ UNCHANGED <<now, phase, view, tx, lastHello, button, pressed>> /\ heard' = now
        /\ UNCHANGED <<approval, shown>> \/ (approval' = NoApproval /\ shown' = NothingShown)
    BY <1>4 DEF ReceiveResolved
  <2>3. Displayed' /\ DecidedOnce' /\ approval' \in Screen
        /\ shown' \in [since : Nat, reached : Nat, decisions : Nat]
    BY <1>0, <2>2, NoApprovalScreen, NothingShownType DEF Displayed, DecidedOnce, Types
  <2> QED
    BY <1>0, <2>1, <2>2, <2>3 DEF FirmwareInv, Types, Held, InterruptDeliberate
<1>5. CASE ReceivePing
  <2>1. Linked' /\ link' \in L
    BY <1>5, ReceivedLink DEF ReceivePing, Receiving
  <2>2. /\ UNCHANGED <<now, phase, view, approval, lastHello, button, shown, pressed>> /\ heard' = now
        /\ tx' = tx \/ (HasRoom(tx) /\ tx' = Append(tx, Pong))
    BY <1>5 DEF ReceivePing, Enqueue
  <2>3. tx' \in Seq(Frame) /\ Len(tx') <= TxDepth
    BY <1>0, <2>2, AppendFrame DEF Types, Frame
  <2> QED
    BY <1>0, <2>1, <2>2, <2>3 DEF FirmwareInv, Types, Displayed, DecidedOnce, Held, InterruptDeliberate
<1> QED
  BY <1>1, <1>2, <1>3, <1>4, <1>5, ReceiveApprovalStep DEF ReadSerial

LEMMA UpdateLinkStep ==
  ASSUME FirmwareInv, UpdateLink
  PROVE  FirmwareInv'
<1> USE DEF view, history
<1>0. Types /\ Displayed /\ DecidedOnce /\ Held /\ InterruptDeliberate /\ Linked
  BY DEF FirmwareInv
<1>1. PICK u \in BOOLEAN : u = (link.received /\ Elapsed(link.lastReceive) <= StaleMs)
  OBVIOUS
<1>2. /\ UNCHANGED <<now, view, approval, tx, lastHello, button, history>> /\ phase' = "keys"
      /\ link' = [link EXCEPT !.up = u]
  BY <1>1 DEF UpdateLink, Goto
<1>3. /\ link' \in [session : BOOLEAN, protocolOk : BOOLEAN, received : BOOLEAN, lastReceive : Nat, up : BOOLEAN]
      /\ link'.up = u /\ link'.received = link.received /\ link'.session = link.session
      /\ link'.lastReceive = link.lastReceive
  BY <1>0, <1>2 DEF Types
<1>4. Linked'
  BY <1>0, <1>1, <1>2, <1>3 DEF Linked, Elapsed, Clock
<1> QED
  BY <1>0, <1>2, <1>3, <1>4 DEF FirmwareInv, Types, Displayed, DecidedOnce, Held, InterruptDeliberate

(* Enter: what HandleKeyboard sends, if anything.                          *)
Enters(S, keys) == "enter" \in keys /\ Decides(Keyed(keys)) /\ HasRoom(Queued(S))

LEMMA EnteredFrame ==
  ASSUME Types, Displayed, approval.id # NoId, NEW S, S \subseteq Slots, NEW keys, Enters(S, keys),
         NEW q, q = Append(Queued(S), Decision(Keyed(keys).choice, Keyed(keys).id))
  PROVE  /\ q \in Seq(Frame) /\ Len(q) <= TxDepth /\ Len(q) > Len(tx)
         /\ q[Len(q)].t = Keyed(keys).choice
         /\ CanSend /\ ~approval.sending
         /\ Keyed(keys).choice \in {"accept", "decline"}
<1> DEFINE a == Keyed(keys)
           m == Decision(a.choice, a.id)
<1>1. Queued(S) \in Seq(Frame) /\ Len(Queued(S)) \in Len(tx)..TxDepth /\ Len(Queued(S)) < TxDepth
  BY QueuedSelects DEF Enters, HasRoom
<1>2. /\ a.sending = approval.sending /\ a.id = approval.id /\ a.id \in Ids
      /\ a.choice \in {"accept", "decline"} /\ CanSend /\ ~a.sending
  BY KeyedScreen DEF Types, Screen, Enters, Decides, AcceptAllowed, DeclineAllowed
<1>3. m \in Frame /\ m.t = a.choice
  BY <1>2 DEF Frame, Decision
<1> HIDE DEF a, m
<1>4. Len(tx) \in Nat /\ TxDepth \in Nat
  BY FirmwareAssumption DEF Types
<1>5. q = Append(Queued(S), m)
  BY DEF a, m
<1>6. q \in Seq(Frame) /\ Len(q) = Len(Queued(S)) + 1 /\ q[Len(q)] = m
  BY <1>1, <1>3, <1>5
<1> QED
  BY <1>1, <1>2, <1>3, <1>4, <1>6 DEF a

LEMMA KeyboardStep ==
  ASSUME FirmwareInv, NEW S, S \subseteq Slots, NEW keys, HandleKeyboard(S, keys)
  PROVE  FirmwareInv'
<1> USE DEF view, history
<1>0. Types /\ Displayed /\ DecidedOnce /\ Held /\ InterruptDeliberate /\ Linked
  BY DEF FirmwareInv
<1>1. /\ UNCHANGED <<now, link, service, turns, lastHello, button, heard, pressed>>
      /\ phase = "keys" /\ phase' = "button"
  BY DEF HandleKeyboard, Goto
<1>2. focus' \in Slots
  BY <1>0, LargestKey DEF HandleKeyboard, Types
<1>3. Linked' /\ Held' /\ InterruptDeliberate'
  BY <1>0, <1>1 DEF Linked, Held, InterruptDeliberate, Elapsed, Clock
<1>4. CASE approval.id = NoId
  <2>1. tx' = Queued(S) /\ UNCHANGED <<approval, shown>>
    BY <1>4 DEF HandleKeyboard, Queued
  <2>2. tx' \in Seq(Frame) /\ Len(tx') <= TxDepth
    BY <1>0, <2>1, QueuedSelects, FirmwareAssumption DEF Types
  <2> QED
    BY <1>0, <1>1, <1>2, <1>3, <2>1, <2>2 DEF FirmwareInv, Types, Displayed, DecidedOnce
<1>5. CASE approval.id # NoId
  <2> DEFINE a == Keyed(keys)
  <2>1. PICK sends \in BOOLEAN : sends = Enters(S, keys)
    BY DEF Enters
  <2>2. /\ tx' = IF sends THEN Append(Queued(S), Decision(a.choice, a.id)) ELSE Queued(S)
        /\ approval' = [a EXCEPT !.sending = @ \/ sends]
        /\ shown' = [shown EXCEPT !.reached = Reached(keys),
                                  !.decisions = IF sends THEN @ + 1 ELSE @]
    BY <1>5, <2>1 DEF HandleKeyboard, Queued, Enters, Reached
  <2>3. /\ a \in Screen /\ a.id = approval.id /\ a.sending = approval.sending
        /\ a.shownAt = approval.shownAt /\ a.accept = approval.accept
        /\ Seen(a, Reached(keys)) /\ Reached(keys) \in Nat
    BY <1>0, <1>5, KeyedScreen
  <2>4. tx' \in Seq(Frame) /\ Len(tx') <= TxDepth
    <3>1. CASE sends
      BY <1>0, <1>5, <2>1, <2>2, <3>1, EnteredFrame
    <3>2. CASE ~sends
      <4>1. tx' = Queued(S)
        BY <2>2, <3>2
      <4> QED
        BY <1>0, <4>1, QueuedSelects, FirmwareAssumption DEF Types
    <3> QED
      BY <3>1, <3>2
  <2>5. sends => ~approval.sending
    BY <1>0, <1>5, <2>1, EnteredFrame
  <2> HIDE DEF a
  <2>6. PICK e \in BOOLEAN : e = (a.sending \/ sends)
    OBVIOUS
  <2>7. /\ approval' \in Screen /\ approval'.id = a.id /\ approval'.sending = e
        /\ approval'.shownAt = a.shownAt /\ approval'.accept = a.accept
        /\ approval'.scroll = a.scroll /\ approval'.bodyEnd = a.bodyEnd
    BY <2>2, <2>3, <2>6 DEF Screen
  <2>8. /\ shown' \in [since : Nat, reached : Nat, decisions : Nat] /\ shown'.since = shown.since
        /\ shown'.reached = Reached(keys)
        /\ shown'.decisions = IF sends THEN shown.decisions + 1 ELSE shown.decisions
    <3>1. shown \in [since : Nat, reached : Nat, decisions : Nat]
      BY <1>0 DEF Types
    <3>2. PICK n \in Nat : n = IF sends THEN shown.decisions + 1 ELSE shown.decisions
      BY <3>1
    <3>3. shown' = [shown EXCEPT !.reached = Reached(keys), !.decisions = n]
      BY <2>2, <3>2
    <3> QED
      BY <2>3, <3>1, <3>2, <3>3
  <2>9. Seen(approval', Reached(keys))
    BY <2>3, <2>7 DEF Seen
  <2>10. Displayed'
    BY <1>0, <1>1, <1>5, <2>3, <2>7, <2>8, <2>9 DEF Displayed
  <2>11. DecidedOnce'
    <3>1. shown.decisions \in Nat /\ shown.decisions <= 1 /\ (shown.decisions = 1 => approval.sending)
      BY <1>0 DEF DecidedOnce, Types
    <3>2. CASE sends
      <4>1. shown'.decisions = 1
        BY <2>5, <2>8, <3>1, <3>2
      <4>2. approval'.sending = TRUE
        BY <2>6, <2>7, <3>2
      <4> QED
        BY <4>1, <4>2 DEF DecidedOnce
    <3>3. CASE ~sends
      BY <2>3, <2>6, <2>7, <2>8, <3>1, <3>3 DEF DecidedOnce
    <3> QED
      BY <3>2, <3>3
  <2> QED
    BY <1>0, <1>1, <1>2, <1>3, <2>4, <2>7, <2>8, <2>10, <2>11 DEF FirmwareInv, Types
<1> QED
  BY <1>4, <1>5

LEMMA InterruptStep ==
  ASSUME FirmwareInv, NEW down \in BOOLEAN, HandleInterrupt(down)
  PROVE  /\ FirmwareInv'
         /\ tx' = tx \/ (CanSend /\ Len(tx') = Len(tx) + 1 /\ tx'[Len(tx')].t = "interrupt")
<1> USE DEF view, history
<1>0. Types /\ Displayed /\ DecidedOnce /\ Held /\ InterruptDeliberate /\ Linked
  BY DEF FirmwareInv
<1> DEFINE b == CASE down /\ ~button.down -> [down |-> TRUE, downAt |-> Clock, latched |-> FALSE]
                  [] ~down /\ button.down -> [down |-> FALSE, downAt |-> 0, latched |-> FALSE]
                  [] OTHER -> button
           since == IF ~down THEN 0 ELSE IF button.down THEN pressed.since ELSE now
           sent == IF down /\ button.down THEN pressed.sent ELSE 0
<1>1. /\ Clock \in Nat /\ Clock = now % ClockSize /\ now \in Nat /\ HoldMs \in Nat
      /\ button \in [down : BOOLEAN, downAt : Nat, latched : BOOLEAN]
      /\ pressed.since \in Nat /\ pressed.sent \in Nat
  BY <1>0, Times, FirmwareAssumption DEF Types, Clock
<1>2. PICK fires \in BOOLEAN : fires = (b.down /\ ~b.latched /\ Elapsed(b.downAt) >= HoldMs)
  OBVIOUS
<1>3. PICK sends \in BOOLEAN : sends = (fires /\ CanSend /\ turns[focus] # None /\ HasRoom(tx))
  BY Zenon
<1>4. /\ button' = [b EXCEPT !.latched = @ \/ fires]
      /\ tx' = IF sends THEN Append(tx, Interrupt(focus, turns[focus])) ELSE tx
      /\ pressed' = [since |-> since, sent |-> sent + (IF sends THEN 1 ELSE 0)]
      /\ UNCHANGED <<now, link, view, approval, lastHello, shown, heard>>
      /\ phase = "button" /\ phase' = "hello"
  BY <1>2, <1>3, Zenon DEF HandleInterrupt, Latched, Goto
<1>5. /\ b \in [down : BOOLEAN, downAt : Nat, latched : BOOLEAN]
      /\ b.down = down
      /\ down => b.downAt = since % ClockSize
      /\ since \in Nat /\ since <= now
      /\ sent \in Nat /\ sent <= 1 /\ (sent = 1 => b.down /\ b.latched /\ now - since >= HoldMs)
  <2>1. CASE down /\ ~button.down
    <3>1. b = [down |-> TRUE, downAt |-> Clock, latched |-> FALSE] /\ since = now /\ sent = 0
      BY <2>1
    <3> HIDE DEF b, since, sent
    <3> QED
      BY <1>1, <2>1, <3>1
  <2>2. CASE ~down /\ button.down
    <3>1. b = [down |-> FALSE, downAt |-> 0, latched |-> FALSE] /\ since = 0 /\ sent = 0
      BY <2>2
    <3>2. down = FALSE
      BY <2>2
    <3> HIDE DEF b, since, sent
    <3>3. /\ b \in [down : BOOLEAN, downAt : Nat, latched : BOOLEAN]
          /\ b.down = FALSE
      BY <3>1
    <3>4. b.down = down
      BY <3>2, <3>3
    <3>5. since \in Nat /\ since <= now /\ sent \in Nat /\ sent <= 1 /\ sent # 1
      BY <1>1, <3>1
    <3> QED
      BY <2>2, <3>3, <3>4, <3>5
  <2>3. CASE down /\ button.down
    BY <1>0, <1>1, <2>3 DEF Held, InterruptDeliberate
  <2>4. CASE ~down /\ ~button.down
    BY <1>0, <1>1, <2>4 DEF Held, InterruptDeliberate
  <2> QED
    BY <1>1, <2>1, <2>2, <2>3, <2>4
<1> HIDE DEF b, since, sent
<1>6. PICK l \in BOOLEAN : l = (b.latched \/ fires)
  OBVIOUS
<1>7. /\ button' \in [down : BOOLEAN, downAt : Nat, latched : BOOLEAN]
      /\ button'.down = b.down /\ button'.downAt = b.downAt /\ button'.latched = l
  BY <1>4, <1>5, <1>6
<1>8. fires => now - since >= HoldMs /\ sent = 0 /\ down
  <2>1. Elapsed(since % ClockSize) <= now - since
    BY <1>0, <1>5, Times
  <2>2. Elapsed(since % ClockSize) \in Nat
    <3>1. ClockSize \in Nat \ {0}
      BY FirmwareAssumption
    <3>2. since % ClockSize \in 0..(ClockSize - 1)
      BY <1>5, <3>1, ModFacts
    <3>3. PICK n \in Nat : n = Clock + ClockSize - (since % ClockSize)
      BY <1>1, <3>1, <3>2
    <3>4. n % ClockSize \in Nat
      BY <3>1, ModFacts
    <3> QED
      BY <3>3, <3>4 DEF Elapsed
  <2>3. fires => down /\ ~b.latched /\ Elapsed(since % ClockSize) >= HoldMs
    BY <1>2, <1>5
  <2>4. sent = 0 \/ sent = 1
    BY <1>5
  <2> QED
    BY <1>1, <1>5, <2>1, <2>2, <2>3, <2>4
<1>9. /\ pressed'.since = since /\ pressed'.sent \in Nat /\ pressed'.sent <= 1
      /\ pressed' \in [since : Nat, sent : Nat]
      /\ pressed'.sent = 1 => down /\ l /\ now - since >= HoldMs
  <2>1. CASE sends
    <3>1. sent = 0 /\ fires /\ down /\ l
      BY <1>3, <1>6, <1>8, <2>1
    <3>2. pressed' = [since |-> since, sent |-> 1]
      BY <1>4, <2>1, <3>1
    <3> QED
      BY <1>5, <1>8, <3>1, <3>2
  <2>2. CASE ~sends
    <3>1. pressed' = [since |-> since, sent |-> sent]
      BY <1>4, <1>5, <2>2
    <3> QED
      BY <1>5, <1>6, <3>1
  <2> QED
    BY <2>1, <2>2
<1>10. Held' /\ InterruptDeliberate'
  BY <1>4, <1>5, <1>7, <1>9 DEF Held, InterruptDeliberate
<1>11. /\ tx' \in Seq(Frame) /\ Len(tx') <= TxDepth
       /\ tx' = tx \/ (CanSend /\ Len(tx') = Len(tx) + 1 /\ tx'[Len(tx')].t = "interrupt")
  <2>1. CASE sends
    <3>1. turns[focus] \in Turn /\ focus \in Slots /\ HasRoom(tx) /\ CanSend
      BY <1>0, <1>3, <2>1 DEF Types
    <3>2. Interrupt(focus, turns[focus]) \in Frame /\ Interrupt(focus, turns[focus]).t = "interrupt"
      BY <3>1 DEF Frame, Interrupt
    <3> QED
      BY <1>0, <1>4, <2>1, <3>1, <3>2, AppendFrame
  <2>2. CASE ~sends
    BY <1>0, <1>4, <2>2 DEF Types
  <2> QED
    BY <2>1, <2>2
<1>12. Linked'
  BY <1>0, <1>4 DEF Linked
<1>13. Displayed' /\ DecidedOnce'
  BY <1>0, <1>4 DEF Displayed, DecidedOnce
<1> QED
  BY <1>0, <1>4, <1>7, <1>9, <1>10, <1>11, <1>12, <1>13 DEF FirmwareInv, Types

LEMMA RestStep ==
  ASSUME FirmwareInv, RetryHello \/ Drain \/ UNCHANGED vars
  PROVE  FirmwareInv'
<1> USE DEF view, history
<1>0. Types /\ Displayed /\ DecidedOnce /\ Held /\ InterruptDeliberate /\ Linked
  BY DEF FirmwareInv
<1>1. CASE RetryHello
  <2>1. /\ UNCHANGED <<now, link, view, approval, button, history>> /\ phase' = "drain"
        /\ \/ UNCHANGED <<tx, lastHello>>
           \/ HasRoom(tx) /\ tx' = Append(tx, Hello) /\ lastHello' = Clock
    BY <1>1 DEF RetryHello, Goto
  <2>2. tx' \in Seq(Frame) /\ Len(tx') <= TxDepth /\ lastHello' \in Nat
    <3>1. Clock \in Nat
      BY <1>0, Times DEF Types
    <3>2. Hello \in Frame
      BY DEF Frame
    <3>3. lastHello' \in Nat
      BY <1>0, <2>1, <3>1 DEF Types
    <3>4. tx' \in Seq(Frame) /\ Len(tx') <= TxDepth
      BY <1>0, <2>1, <3>2, AppendFrame DEF Types
    <3> QED
      BY <3>3, <3>4
  <2> QED
    BY <1>0, <2>1, <2>2
    DEF FirmwareInv, Types, Displayed, DecidedOnce, Held, InterruptDeliberate, Linked
<1>2. CASE Drain
  <2>1. /\ UNCHANGED <<now, link, view, approval, lastHello, button, history>> /\ phase' = "idle"
        /\ tx' = tx \/ (tx # <<>> /\ tx' = Tail(tx))
    BY <1>2 DEF Drain, Goto
  <2>2. tx \in Seq(Frame) /\ Len(tx) <= TxDepth /\ TxDepth \in Nat
    BY <1>0, FirmwareAssumption DEF Types
  <2>3. tx' \in Seq(Frame) /\ Len(tx') <= TxDepth
    BY <2>1, <2>2
  <2> QED
    BY <1>0, <2>1, <2>3
    DEF FirmwareInv, Types, Displayed, DecidedOnce, Held, InterruptDeliberate, Linked
<1>3. CASE UNCHANGED vars
  BY <1>0, <1>3
  DEF FirmwareInv, Types, Displayed, DecidedOnce, Held, InterruptDeliberate, Linked, vars, Elapsed, Clock
<1> QED
  BY <1>1, <1>2, <1>3

LEMMA FirmwareStep == FirmwareInv /\ [Next]_vars => FirmwareInv'
<1> SUFFICES ASSUME FirmwareInv, [Next]_vars PROVE FirmwareInv'
  OBVIOUS
<1>1. ASSUME NEW e \in KeyEvents, HandleKeyboard(e.slots, e.keys) PROVE FirmwareInv'
  BY <1>1, KeyboardStep, FirmwareAssumption DEF Slots
<1>2. ASSUME NEW down \in ButtonLevels, HandleInterrupt(down) PROVE FirmwareInv'
  BY <1>2, InterruptStep, FirmwareAssumption
<1> QED
  BY <1>1, <1>2, TickStep, ReceiveStep, UpdateLinkStep, RestStep DEF Next, TimeBoundReached

LEMMA FirmwareInit == Init => FirmwareInv
<1> SUFFICES ASSUME Init PROVE FirmwareInv
  OBVIOUS
<1> USE DEF Init
<1>1. Types
  <2>1. tx \in Seq(Frame) /\ Len(tx) = 1
    BY DEF Frame
  <2>2. focus \in Slots /\ turns \in [Slots -> Turn \cup {None}] /\ 1 <= TxDepth
    BY FirmwareAssumption DEF Slots
  <2>3. approval \in Screen /\ shown \in [since : Nat, reached : Nat, decisions : Nat]
    BY NoApprovalScreen, NothingShownType
  <2> QED
    BY <2>1, <2>2, <2>3 DEF Types
<1>2. Displayed /\ DecidedOnce
  BY NoApprovalScreen, NothingShownType DEF Displayed, DecidedOnce
<1>3. Held /\ InterruptDeliberate /\ Linked
  BY DEF Held, InterruptDeliberate, Linked
<1> QED
  BY <1>1, <1>2, <1>3 DEF FirmwareInv

(* The inductive invariant: the screen and the button remember true times  *)
(* modulo the clock, the end of the text counts as seen only when it was,  *)
(* and a live link heard its last line within the stale time.              *)
THEOREM FirmwareInvariant == Spec => []FirmwareInv
BY FirmwareInit, FirmwareStep, PTL DEF Spec

(* A shown approval is decided at most once, however often the host        *)
(* repeats it (apply_approval keeps `sending') and Enter is pressed.       *)
THEOREM DecidedOnceAlways == Spec => []DecidedOnce
<1>1. FirmwareInv => DecidedOnce
  BY DEF FirmwareInv
<1> QED
  BY <1>1, FirmwareInvariant, PTL

(* One press gives at most one interrupt and only after the hold time,     *)
(* also when millis() wraps during the press.                              *)
THEOREM InterruptDeliberateAlways == Spec => []InterruptDeliberate
<1>1. FirmwareInv => InterruptDeliberate
  BY DEF FirmwareInv
<1> QED
  BY <1>1, FirmwareInvariant, PTL

-----------------------------------------------------------------------------
(* What a step may send.                                                   *)
LEMMA KeyboardSends ==
  ASSUME FirmwareInv, NEW S, S \subseteq Slots, NEW keys, HandleKeyboard(S, keys), Len(tx') > Len(tx)
  PROVE  /\ CanSend
         /\ tx'[Len(tx')].t = "accept" => /\ approval.id # NoId
                                          /\ AcceptAllowed(Keyed(keys))
                                          /\ shown'.reached = Reached(keys)
<1>0. Types /\ Displayed
  BY DEF FirmwareInv
<1>1. Len(Queued(S)) > Len(tx) => Queued(S)[Len(Queued(S))].t = "select" /\ CanSend
  BY <1>0, QueuedSelects
<1>2. CASE tx' = Queued(S)
  BY <1>1, <1>2
<1>3. CASE tx' # Queued(S)
  <2>1. /\ approval.id # NoId /\ Enters(S, keys)
        /\ tx' = Append(Queued(S), Decision(Keyed(keys).choice, Keyed(keys).id))
        /\ shown' = [shown EXCEPT !.reached = Reached(keys), !.decisions = @ + 1]
    BY <1>3 DEF HandleKeyboard, Queued, Enters, Reached
  <2>2. tx'[Len(tx')].t = Keyed(keys).choice /\ CanSend
    BY <1>0, <2>1, EnteredFrame
  <2>3. shown'.reached = Reached(keys)
    BY <1>0, <2>1 DEF Types
  <2>4. Keyed(keys).choice = "accept" => AcceptAllowed(Keyed(keys))
    BY <2>1 DEF Enters, Decides
  <2> QED
    BY <2>1, <2>2, <2>3, <2>4
<1> QED
  BY <1>2, <1>3

LEMMA OtherSends ==
  ASSUME FirmwareInv, [Next]_vars, Len(tx') > Len(tx)
  PROVE  \/ \E e \in KeyEvents : HandleKeyboard(e.slots, e.keys)
         \/ tx'[Len(tx')].t = "interrupt" /\ CanSend /\ phase = "button" /\ UNCHANGED <<now, link>>
         \/ tx'[Len(tx')].t \in {"pong", "hello"}
<1>0. Types /\ tx \in Seq(Frame) /\ Len(tx) \in Nat
  BY DEF FirmwareInv, Types
<1>1. ASSUME NEW d, Tick(d) PROVE FALSE
  BY <1>0, <1>1 DEF Tick
<1>2. CASE ReadSerial
  <2>1. ReceivePing
    BY <1>0, <1>2 DEF ReadSerial, ReceiveHello, ReceiveBadHello, ReceiveState, ReceiveApproval,
       ReceiveResolved
  <2>2. tx' = Append(tx, Pong) /\ HasRoom(tx)
    BY <1>0, <2>1 DEF ReceivePing, Enqueue
  <2>3. Pong \in Frame /\ Pong.t = "pong"
    BY DEF Pong, Frame
  <2> QED
    BY <1>0, <2>2, <2>3, AppendFrame
<1>3. CASE UpdateLink \/ UNCHANGED vars
  BY <1>0, <1>3 DEF UpdateLink, vars
<1>4. ASSUME NEW down \in ButtonLevels, HandleInterrupt(down)
      PROVE  tx'[Len(tx')].t = "interrupt" /\ CanSend /\ phase = "button" /\ UNCHANGED <<now, link>>
  <2>1. down \in BOOLEAN
    BY FirmwareAssumption
  <2>2. tx' # tx
    BY <1>0
  <2> QED
    BY <1>4, <2>1, <2>2, InterruptStep DEF HandleInterrupt
<1>5. CASE RetryHello
  <2>1. tx' = Append(tx, Hello) /\ HasRoom(tx)
    BY <1>0, <1>5 DEF RetryHello
  <2>2. Hello \in Frame /\ Hello.t = "hello"
    BY DEF Hello, Frame
  <2> QED
    BY <1>0, <2>1, <2>2, AppendFrame
<1>6. ASSUME Drain PROVE FALSE
  <2>1. tx' = tx \/ (tx # <<>> /\ tx' = Tail(tx))
    BY <1>6 DEF Drain
  <2> QED
    BY <1>0, <2>1
<1> QED
  BY <1>1, <1>2, <1>3, <1>4, <1>5, <1>6 DEF Next, TimeBoundReached

(* Accept is sent only for an approval that is complete and of normal      *)
(* risk, whose every line was scrolled into view, and that has been on     *)
(* display for the guard time: for any width of millis(), any chord of     *)
(* keys and any updates of the same approval.                              *)
THEOREM AcceptGuardedAlways == Spec => AcceptGuarded
<1>1. ASSUME FirmwareInv, [Next]_vars, Sends("accept")
      PROVE  /\ now - shown.since >= GuardMs
             /\ shown'.reached >= Lines[approval.id]
             /\ approval.id \in Complete
  <2>1. PICK e \in KeyEvents : HandleKeyboard(e.slots, e.keys)
    BY <1>1, OtherSends DEF Sends
  <2>2. e.slots \subseteq Slots
    BY FirmwareAssumption DEF Slots
  <2> DEFINE a == Keyed(e.keys)
  <2>3. approval.id # NoId /\ AcceptAllowed(a) /\ shown'.reached = Reached(e.keys)
    BY <1>1, <2>1, <2>2, KeyboardSends DEF Sends
  <2>4. /\ a.id = approval.id /\ a.shownAt = approval.shownAt /\ a.accept = approval.accept
        /\ Seen(a, Reached(e.keys))
    BY <1>1, <2>3, KeyedScreen DEF FirmwareInv
  <2> HIDE DEF a
  <2>5. a.accept /\ a.bodyEnd /\ Elapsed(a.shownAt) >= GuardMs
    BY <2>3 DEF AcceptAllowed, GuardOver
  <2>6. /\ approval.shownAt = shown.since % ClockSize /\ shown.since <= now /\ shown.since \in Nat
        /\ approval.accept => approval.id \in Complete
    BY <1>1, <2>3 DEF FirmwareInv, Displayed, Types
  <2>7. Elapsed(shown.since % ClockSize) <= now - shown.since
    BY <1>1, <2>6, Times DEF FirmwareInv
  <2>8. Elapsed(shown.since % ClockSize) \in Nat
    <3>1. ClockSize \in Nat \ {0} /\ now \in Nat
      BY <1>1, FirmwareAssumption DEF FirmwareInv, Types
    <3>2. shown.since % ClockSize \in 0..(ClockSize - 1) /\ now % ClockSize \in 0..(ClockSize - 1)
      BY <2>6, <3>1, ModFacts
    <3>3. PICK n \in Nat : n = (now % ClockSize) + ClockSize - (shown.since % ClockSize)
      BY <3>1, <3>2
    <3>4. n % ClockSize \in Nat
      BY <3>1, ModFacts
    <3> QED
      BY <3>3, <3>4 DEF Elapsed, Clock
  <2>9. now - shown.since >= GuardMs
    <3>1. GuardMs \in Nat /\ now \in Nat
      BY <1>1, FirmwareAssumption DEF FirmwareInv, Types
    <3> QED
      BY <2>4, <2>5, <2>6, <2>7, <2>8, <3>1
  <2> QED
    BY <2>3, <2>4, <2>5, <2>6, <2>9 DEF Seen
<1>2. FirmwareInv /\ [Next]_vars =>
        [Sends("accept") => /\ now - shown.since >= GuardMs
                            /\ shown'.reached >= Lines[approval.id]
                            /\ approval.id \in Complete]_vars
  BY <1>1
<1> QED
  BY <1>2, FirmwareInvariant, PTL DEF Spec, AcceptGuarded

(* Decisions, interrupts and selections are queued only on a link whose    *)
(* session and protocol are established and that has heard a line within   *)
(* the stale time (until the clock wraps for the first time).              *)
THEOREM QueuedWhileUpAlways == Spec => QueuedWhileUp
<1>1. ASSUME FirmwareInv, [Next]_vars,
             Sends("accept") \/ Sends("decline") \/ Sends("interrupt") \/ Sends("select")
      PROVE  link.session /\ link.protocolOk /\ (now < ClockSize => now - heard <= StaleMs)
  <2>1. CanSend /\ phase \in {"keys", "button"}
    <3>1. CASE \E e \in KeyEvents : HandleKeyboard(e.slots, e.keys)
      <4>1. PICK e \in KeyEvents : HandleKeyboard(e.slots, e.keys)
        BY <3>1
      <4>2. e.slots \subseteq Slots
        BY FirmwareAssumption DEF Slots
      <4>3. Len(tx') > Len(tx)
        BY <1>1 DEF Sends
      <4>4. CanSend
        BY <1>1, <4>1, <4>2, <4>3, KeyboardSends
      <4>5. phase = "keys"
        BY <4>1 DEF HandleKeyboard
      <4> QED
        BY <4>4, <4>5
    <3>2. CASE ~\E e \in KeyEvents : HandleKeyboard(e.slots, e.keys)
      BY <1>1, <3>2, OtherSends DEF Sends
    <3> QED
      BY <3>1, <3>2
  <2>2. /\ link.up /\ link.protocolOk /\ link.received /\ link.session
        /\ link.lastReceive = heard % ClockSize /\ heard <= now /\ heard \in Nat
        /\ Elapsed(link.lastReceive) <= StaleMs
    BY <1>1, <2>1 DEF CanSend, FirmwareInv, Linked, Types
  <2>3. now < ClockSize => Elapsed(heard % ClockSize) = now - heard
    BY <1>1, <2>2, Times DEF FirmwareInv
  <2> QED
    BY <2>2, <2>3
<1>2. FirmwareInv /\ [Next]_vars =>
        [Sends("accept") \/ Sends("decline") \/ Sends("interrupt") \/ Sends("select")
           => link.session /\ link.protocolOk /\ (now < ClockSize => now - heard <= StaleMs)]_vars
  BY <1>1
<1> QED
  BY <1>2, FirmwareInvariant, PTL DEF Spec, QueuedWhileUp
=============================================================================
