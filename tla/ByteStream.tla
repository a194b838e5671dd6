---------------------------- MODULE ByteStream ----------------------------
(***************************************************************************)
(* What a relayed direction promises, abstractly: the units 1, 2, ... a    *)
(* sender has put into the stream come out in order, each once, none       *)
(* missing before one that came out.  Whether they all come out is not     *)
(* promised: a connection may end at any time.                             *)
(***************************************************************************)
EXTENDS Naturals, Sequences

VARIABLES put,   \* number of units put in so far
          got    \* the units that came out, in that order

streamVars == <<put, got>>

StreamInit == put = 0 /\ got = <<>>

Put == put' \in Nat /\ put' > put /\ UNCHANGED got

Deliver ==
    \E n \in 0 .. put - Len(got) :
        /\ got' = got \o [i \in 1 .. n |-> Len(got) + i]
        /\ UNCHANGED put

StreamNext == Put \/ Deliver

StreamSpec == StreamInit /\ [][StreamNext]_streamVars

=============================================================================
