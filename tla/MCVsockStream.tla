--------------------------- MODULE MCVsockStream ---------------------------
(* VsockStream for TLC: the one connection it follows. *)
EXTENDS VsockStream

TheFlow == <<7, 1>>
=============================================================================
