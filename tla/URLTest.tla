------------------------------ MODULE URLTest ------------------------------
(***************************************************************************)
(* URLTestAdapter: a group that dials through the member that answered     *)
(* fastest when the members were last tried out.                           *)
(*                                                                         *)
(* runTest dials every member and arms a timer that runs it again; the     *)
(* results arrive one by one, in any order, also those of an earlier run   *)
(* that are still out.  Everything happens on the thread of io_context,    *)
(* which main() only starts once all groups are linked.                    *)
(*                                                                         *)
(* Not here: the parsing of url_ (a bad port throws in start(), before the *)
(* loop runs), and the lock, which one thread never waits for.             *)
(***************************************************************************)
EXTENDS Integers, Sequences, FiniteSets

CONSTANTS
    Proxies, None,
    Members,     \* the members the configuration lists, in its order
    Refusing,    \* members whose dial fails in the call: REJECT, an empty group
    MaxLatency,  \* bound: milliseconds a member may take
    MaxPending   \* bound: dials of one member that may be under way

ASSUME URLTestAssumption ==
    /\ None \notin Proxies
    /\ Members \in Seq(Proxies) /\ Refusing \subseteq Proxies
    /\ MaxLatency \in Nat /\ MaxPending \in Nat

VARIABLES
    phase,        \* how far main() is: "created", "started", "linked"
    proxies, fastest, min_latency,
    pending,      \* dials under way, by member
    armed,        \* timer_ is waiting
    up,           \* environment: the members that can be reached
    results,      \* history: what came in since min_latency was last reset
    tested        \* history: some member has been dialled for a test

vars == <<phase, proxies, fastest, min_latency, pending, armed, up, results,
          tested>>

Init ==
    /\ phase = "created"
    /\ proxies = <<>> /\ fastest = None /\ min_latency = -1
    /\ pending = [p \in Proxies |-> 0]
    /\ armed = FALSE
    /\ up \in SUBSET Proxies
    /\ results = <<>> /\ tested = FALSE

\* How often runTest dials p.
Dials(p) == Cardinality({i \in DOMAIN proxies : proxies[i] = p})

\* Mutant: the best latency of earlier tests stays.
RunTest_NoReset ==
    /\ pending' = [p \in Proxies |->
          IF p \in Refusing THEN pending[p] ELSE pending[p] + Dials(p)]
    /\ tested' = (tested \/ proxies # <<>>)
    /\ armed' = TRUE
    /\ results' = <<>> /\ UNCHANGED min_latency
\* A member that refuses in the call leaves nothing behind.
RunTest ==
    /\ min_latency' = -1 /\ results' = <<>>
    /\ pending' = [p \in Proxies |->
          IF p \in Refusing THEN pending[p] ELSE pending[p] + Dials(p)]
    /\ tested' = (tested \/ proxies # <<>>)
    /\ armed' = TRUE

Start ==
    /\ phase = "created" /\ phase' = "started"
    /\ RunTest
    /\ UNCHANGED <<proxies, fastest, up>>

\* Mutant: there is no default before the first result.
SetProxies_NoDefault ==
    /\ phase = "started" /\ phase' = "linked"
    /\ proxies' = Members
    /\ UNCHANGED <<fastest, min_latency, pending, armed, up, results, tested>>
\* The second pass over the groups in main().
SetProxies ==
    /\ phase = "started" /\ phase' = "linked"
    /\ proxies' = Members
    /\ fastest' = IF Members # <<>> THEN Members[1] ELSE fastest
    /\ UNCHANGED <<min_latency, pending, armed, up, results, tested>>

\* The loop runs and timer_ expires.
TimerFired ==
    /\ phase = "linked" /\ armed
    /\ \A p \in Proxies : pending[p] + Dials(p) <= MaxPending
    /\ RunTest
    /\ UNCHANGED <<phase, proxies, fastest, up>>

\* Mutant: a result as good as the best takes its place.
OnTestComplete_Ties(p, latency) ==
    IF min_latency = -1 \/ latency <= min_latency
    THEN min_latency' = latency /\ fastest' = p
    ELSE UNCHANGED <<min_latency, fastest>>
\* p is among proxies_, which is set once: the search by name finds it.
OnTestComplete(p, latency) ==
    IF min_latency = -1 \/ latency < min_latency
    THEN min_latency' = latency /\ fastest' = p
    ELSE UNCHANGED <<min_latency, fastest>>

DialSucceeds(p) ==
    /\ phase = "linked" /\ pending[p] > 0 /\ p \in up
    /\ \E latency \in 0 .. MaxLatency :
        /\ OnTestComplete(p, latency)
        /\ results' = Append(results, [proxy |-> p, latency |-> latency])
    /\ pending' = [pending EXCEPT ![p] = @ - 1]
    /\ UNCHANGED <<phase, proxies, armed, up, tested>>

\* A failure is not recorded.
DialFails(p) ==
    /\ phase = "linked" /\ pending[p] > 0 /\ p \notin up
    /\ pending' = [pending EXCEPT ![p] = @ - 1]
    /\ UNCHANGED <<phase, proxies, fastest, min_latency, armed, up, results,
                   tested>>

\* A member goes down or comes back.
Change(p) ==
    /\ up' = IF p \in up THEN up \ {p} ELSE up \cup {p}
    /\ UNCHANGED <<phase, proxies, fastest, min_latency, pending, armed,
                   results, tested>>

Next ==
    \/ Start \/ SetProxies \/ TimerFired
    \/ \E p \in Proxies : DialSucceeds(p) \/ DialFails(p) \/ Change(p)

Spec == Init /\ [][Next]_vars

\* main() goes on, the timer expires, and every dial ends.
Fairness ==
    /\ WF_vars(Start) /\ WF_vars(SetProxies) /\ WF_vars(TimerFired)
    /\ \A p \in Proxies : WF_vars(DialSucceeds(p) \/ DialFails(p))

FairSpec == Spec /\ Fairness

-----------------------------------------------------------------------------
(* Properties. *)

\* Types of the variables of URLTestAdapter.
TypeOK ==
    /\ phase \in {"created", "started", "linked"}
    /\ proxies \in Seq(Proxies)
    /\ fastest \in Proxies \cup {None}
    /\ min_latency \in Nat \cup {-1}
    /\ pending \in [Proxies -> Nat]
    /\ armed \in BOOLEAN /\ tested \in BOOLEAN
    /\ up \in SUBSET Proxies
    /\ results \in Seq([proxy : Proxies, latency : Nat])

\* Once a result is in, min_latency_ is the best of those that came in since
\* runTest reset it, late ones of earlier runs included, and fastest_ is the
\* member that was the first to reach it.
FastestIsBest ==
    IF results = <<>> THEN min_latency = -1
    ELSE \E i \in DOMAIN results :
            /\ results[i].proxy = fastest /\ results[i].latency = min_latency
            /\ \A j \in DOMAIN results :
                /\ min_latency <= results[j].latency
                /\ j < i => min_latency < results[j].latency

\* The group keeps the promise of every group: fastest_ is a member.
AsGroup == INSTANCE Group WITH members <- proxies, active <- fastest
IsGroup == AsGroup!GroupInit /\ [][AsGroup!GroupNext]_(AsGroup!groupVars)

\* A member that stays down is left for good when another one stays up: the
\* tests go on, and none is held back by the results of the ones before it.
DeadIsLeft ==
    \A p, q \in Proxies :
        (/\ <>[](p \notin up) /\ <>[](q \in up)
         /\ \E i \in DOMAIN Members : Members[i] = q
         /\ q \notin Refusing)
        => <>[](fastest # p)

\* "start the latency test at once": a group that goes into service has
\* dialled its members.
TestedAtOnce == phase = "linked" /\ proxies # <<>> => tested

=============================================================================
