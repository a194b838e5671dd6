----------------------------- MODULE MCControl -----------------------------
(* TLC instances of Control. *)
EXTENDS Control

CONSTANTS v1, v2

TwoViewers == {v1, v2}
SlowOne    == {v2}
TwoLevels  == {1, 2}

=============================================================================
