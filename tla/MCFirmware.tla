----------------------------- MODULE MCFirmware -----------------------------
(* A small instance of Firmware.  One time unit stands for 150 ms or more; *)
(* the clock wraps within the run.  One approval has more lines than are   *)
(* visible.  A key that stays down is part of the next key's event, so     *)
(* chords with Enter and of opposite directions are included.              *)
EXTENDS Firmware

CONSTANTS idLong, idShort

LinesOfIds == [id \in Ids |-> IF id = idLong THEN 3 ELSE 1]

OneByOne == {[slots |-> {}, keys |-> k] : k \in {{}, {"j"}, {"k"}, {"0"}, {"a"}, {"d"}, {"enter"}}}
Chords == {[slots |-> {}, keys |-> k] :
             k \in {{"j", "enter"}, {"a", "enter"}, {"d", "enter"}, {"j", "k", "a", "enter"}}}
NumberKeys == {[slots |-> s, keys |-> {}] : s \in SUBSET Slots}

AllKeys == OneByOne \cup Chords \cup NumberKeys
=============================================================================
