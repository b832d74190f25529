----------------------------- MODULE MCBringup -----------------------------
(* A small instance of Bringup.                                            *)
EXTENDS Bringup
=============================================================================
