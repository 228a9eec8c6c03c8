----------------------------- MODULE MCShutdown -----------------------------
(* An instance of Shutdown for TLC: one caller of each kind. *)
EXTENDS Shutdown

CONSTANTS e1, h1, t1, w1
=============================================================================
