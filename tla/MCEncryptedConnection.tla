----------------------- MODULE MCEncryptedConnection -----------------------
(* TLC instances of EncryptedConnection. *)
EXTENDS EncryptedConnection

=============================================================================
