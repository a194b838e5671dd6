----------------------------- MODULE MCURLTest -----------------------------
(* TLC instances of URLTest. *)
EXTENDS URLTest

CONSTANTS p1, p2, p3

TwoProxies   == {p1, p2}
ThreeProxies == {p1, p2, p3}
\* A member may be listed twice; p3 is one that refuses.
TwoMembers   == <<p1, p2>>
ManyMembers  == <<p3, p1, p2, p1>>
Refuser      == {p3}
NoRefuser    == {}

=============================================================================
