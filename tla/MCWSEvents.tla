----------------------------- MODULE MCWSEvents -----------------------------
(* Instances of WSEvents for TLC.                                          *)
EXTENDS WSEvents

MCRequests == RequestsOf
=============================================================================
