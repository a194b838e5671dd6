-------------------------------- MODULE Dial --------------------------------
(***************************************************************************)
(* What ProxyAdapter::dial promises whoever calls it (a Session, or a      *)
(* group testing its members): the handler is called once, with an open    *)
(* connection or with an error.                                            *)
(***************************************************************************)

VARIABLE outcome

DialInit == outcome = "pending"

Succeed == outcome = "pending" /\ outcome' = "connected"
Refuse  == outcome = "pending" /\ outcome' = "failed"

DialNext == Succeed \/ Refuse

DialSpec == DialInit /\ [][DialNext]_outcome

=============================================================================
