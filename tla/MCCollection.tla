---------------------------- MODULE MCCollection ----------------------------
(* A handful of keys, and bucket counts small enough for chains to be long  *)
(* and for both rebuilds to happen.                                         *)
EXTENDS Collection

FiveKeys == 0 .. 4
ThreeKeys == 0 .. 2
OneThenThree == <<1, 3>>
=============================================================================
