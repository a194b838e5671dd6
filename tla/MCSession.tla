----------------------------- MODULE MCSession -----------------------------
(* TLC instances of Session. *)
EXTENDS Session, TLC

CONSTANTS s1, s2

OneSession  == {s1}
TwoSessions == {s1, s2}
AllKinds    == {"socks", "connect", "plain"}

Alike == Permutations(TwoSessions)

\* A client that waits for its reply, its messages read as it sent them: the
\* handshake took the preamble and no more, the relay what follows it.
Polite(s) ==
    /\ sent[s] > Hdr(kind[s]) => replied[s]
    /\ taken[s] \in {0} \cup MsgEnds(kind[s])
    /\ IF taken[s] <= Hdr(kind[s]) THEN ubase[s] = 0 ELSE ubase[s] >= Hdr(kind[s])
    /\ \A i \in DOMAIN toTarget[s] : toTarget[s][i] > Base(kind[s])

\* Bound: a session goes to its very end alone, or has another beside it when both
\* are those of polite CONNECT clients and no peer shuts down its sending half only.
SideBySide ==
    \/ Cardinality({s \in Sessions : life[s] # "unborn"}) <= 1
    \/ \A s \in Sessions :
        /\ kind[s] \in {"none", "connect"} /\ Polite(s)
        /\ "half" \notin {cli[s], tgt[s]}

=============================================================================
