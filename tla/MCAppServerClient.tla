------------------------- MODULE MCAppServerClient -------------------------
(* Two threads that use one client.                                        *)
EXTENDS AppServerClient
=============================================================================
