----------------------------- MODULE MCRecovery -----------------------------
(* Two replacements of the connection, one of the channel; nobody else     *)
(* uses the channel.                                                       *)
EXTENDS Recovery
============================================================================
