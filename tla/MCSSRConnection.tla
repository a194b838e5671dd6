-------------------------- MODULE MCSSRConnection --------------------------
(* TLC instances of SSRConnection. *)
EXTENDS SSRConnection

=============================================================================
