----------------------------- MODULE MCApproval -----------------------------
(* Small instances of Approval.  The profiles cover: offered in full to    *)
(* both surfaces; accept hidden from the device by risk; hidden from both  *)
(* by missing context; not visible on the device at all.                   *)
EXTENDS Approval, TLC

Simple == [kind |-> "command", mapped |-> TRUE, command |-> TRUE, context |-> FALSE,
           fits |-> TRUE, risky |-> FALSE, raw |-> "absent", listed |-> {}]
Truncated == [Simple EXCEPT !.fits = FALSE]
HiddenContext == [Simple EXCEPT !.context = TRUE, !.mapped = FALSE]
FileChange == [Simple EXCEPT !.kind = "file", !.raw = "list",
                             !.listed = {"accept", "decline"}]
AcceptOnly == [Simple EXCEPT !.risky = TRUE, !.raw = "list", !.listed = {"accept"}]

AllProfiles == {Simple, Truncated, HiddenContext, FileChange, AcceptOnly}
OneProfile == {Simple}

Symmetry == Permutations(Requests)
=============================================================================
