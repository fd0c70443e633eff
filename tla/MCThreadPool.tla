-------------------------- MODULE MCThreadPool -------------------------
(* Limits <<inactive, active>>: either one the larger, and as many active     *)
(* threads as there can be.                                                 *)
EXTENDS ThreadPool

LimitsBelow == {<<1, 2>>, <<2, 1>>, <<1, 3>>}

(* A pool that starts with more threads than may ever be active.            *)
LimitsAbove == {<<3, 2>>}
=============================================================================
