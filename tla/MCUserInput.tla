---------------------------- MODULE MCUserInput ----------------------------
(* One request with a plain and a secret question, one with a plain one.   *)
(* The turns are interchangeable.                                          *)
EXTENDS UserInput, TLC

CONSTANTS r1, r2, q1, q2, q3

Symmetry == Permutations(Turn)

QuestionsOf == (r1 :> {q1, q2}) @@ (r2 :> {q3})
=============================================================================
