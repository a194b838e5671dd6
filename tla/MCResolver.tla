----------------------------- MODULE MCResolver -----------------------------
(* Finite instances of Resolver: values for its constants. *)
EXTENDS Resolver

Label(n) == [i \in 1 .. n |-> 97]
Deep(n)  == [k \in 1 .. n |-> Label(1)]

\* The root, short and long names, with and without a dot at the end, an empty
\* label, as many labels as the decoder follows, and one more.
Names == { <<>>, Deep(2), << Label(2), <<>> >>, << <<97>>, <<>>, <<98>> >>,
           << Label(63) >>, Deep(6), Deep(10), Deep(11) }

A(n)  == [type |-> 1, rdata |-> <<10, 0, 0, n>>]
AAAA  == [type |-> 28, rdata |-> [i \in 1 .. 16 |-> 0]]
CNAME == [type |-> 5, rdata |-> <<1, 121, 192, 12>>]

Lists == { <<>>, <<AAAA, A(1)>>, <<CNAME, A(1), A(2)>> }

Altered == {2, 192}
=============================================================================
