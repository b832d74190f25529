----------------------------- MODULE MCRuntime -----------------------------
(* A small instance of Runtime.  With a tombstone limit of one, the second *)
(* of two turns evicts the tombstone of the first.                         *)
EXTENDS Runtime
=============================================================================
