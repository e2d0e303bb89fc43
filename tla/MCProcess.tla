----------------------------- MODULE MCProcess -----------------------------
(* The two connections of the process's TLC run.                           *)
EXTENDS Process

CONSTANTS x, y
=============================================================================
