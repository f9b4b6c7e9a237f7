---------------------------- MODULE MCVirtioBlk ----------------------------
(* VirtioBlk for TLC: a whole aligned transfer, one of a single sector, one  *)
(* that runs past the end, an empty one, and one past the largest offset.    *)
EXTENDS VirtioBlk

TheSpans == {<<0, 2>>, <<1, 1>>, <<1, 2>>, <<0, 0>>, <<4, 1>>}
=============================================================================
