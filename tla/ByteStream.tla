----------------------------- MODULE ByteStream -----------------------------
(***************************************************************************)
(* What one direction of a stream socket promises: the reader is given the *)
(* bytes the writer wrote, each once, in order.  VsockStream instantiates  *)
(* this module once per direction of a vsock connection.                   *)
(***************************************************************************)
EXTENDS Naturals, Sequences

VARIABLES written, delivered

vars == <<written, delivered>>

Init == written = <<>> /\ delivered = <<>>

Write ==
    /\ Len(written') > Len(written)
    /\ SubSeq(written', 1, Len(written)) = written
    /\ UNCHANGED delivered

Deliver ==
    /\ \E n \in Len(delivered) + 1 .. Len(written) : delivered' = SubSeq(written, 1, n)
    /\ UNCHANGED written

Spec == Init /\ [][Write \/ Deliver]_vars

==============================================================================
