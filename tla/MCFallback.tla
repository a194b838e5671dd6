---------------------------- MODULE MCFallback ----------------------------
(* TLC instances of Fallback. *)
EXTENDS Fallback

CONSTANTS p1, p2, p3

ThreeProxies == {p1, p2, p3}
\* A member may be listed twice; p3 is one that refuses.
ManyMembers  == <<p3, p1, p2, p1>>
Refuser      == {p3}

=============================================================================
