------------------------------- MODULE Retain -------------------------------
(***************************************************************************)
(* VecDeque::retain, and the same for any sequence.  SelectSeq says this   *)
(* too, but takes an operator, and the facts about it that proofs need     *)
(* are then beyond the provers; RetainProofs proves them of Retain.        *)
(***************************************************************************)
EXTENDS Naturals, Sequences

Entries(seq) == {seq[i] : i \in DOMAIN seq}

\* The elements of seq that are in S, in their order.
Retain(seq, S) ==
    LET kept[n \in 0 .. Len(seq)] ==
            IF n = 0 THEN <<>>
            ELSE IF seq[n] \in S THEN Append(kept[n - 1], seq[n]) ELSE kept[n - 1]
    IN  kept[Len(seq)]

=============================================================================
