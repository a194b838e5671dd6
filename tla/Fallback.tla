----------------------------- MODULE Fallback ------------------------------
(***************************************************************************)
(* FallbackAdapter: a group that dials through the first member that       *)
(* answered when it was last tried.                                        *)
(*                                                                         *)
(* As in URLTest, runTest dials every member and arms a timer that runs it *)
(* again, and the results arrive in any order.  Here failures count, and   *)
(* what is known of a member stays from one run to the next.               *)
(*                                                                         *)
(* Latencies are told apart only as far as the code does: 0 or more.       *)
(***************************************************************************)
EXTENDS Integers, Sequences, FiniteSets

CONSTANTS
    Proxies, None,
    Members,     \* the members the configuration lists, in its order
    Refusing,    \* members whose dial fails in the call: REJECT, an empty group
    MaxPending   \* bound: dials of one member that may be under way

ASSUME FallbackAssumption ==
    /\ None \notin Proxies
    /\ Members \in Seq(Proxies) /\ Refusing \subseteq Proxies
    /\ MaxPending \in Nat

VARIABLES
    phase,        \* how far main() is: "created", "started", "linked"
    proxies, selected,
    latencies,    \* by member: Unknown (no entry), 0, or 1 for any more
    pending,      \* dials under way, by member
    armed,        \* timer_ is waiting
    link,         \* environment: how a member answers
    answer        \* history: how the dial ended that came in last, by member

vars == <<phase, proxies, selected, latencies, pending, armed, link, answer>>

Unknown == -1

\* "down": dials fail; "instant": they succeed within a millisecond.
Links == {"down", "instant", "slow"}

Init ==
    /\ phase = "created"
    /\ proxies = <<>> /\ selected = None
    /\ latencies = [p \in Proxies |-> Unknown]
    /\ pending = [p \in Proxies |-> 0]
    /\ armed = FALSE
    /\ link \in [Proxies -> Links]
    /\ answer = [p \in Proxies |-> "none"]

\* How often runTest dials p.
Dials(p) == Cardinality({i \in DOMAIN proxies : proxies[i] = p})

\* Mutant: a member counts as usable as soon as it has an entry.
FirstUsable_AnyEntry(lat, none) ==
    LET usable == {i \in DOMAIN proxies : lat[proxies[i]] # Unknown}
    IN  IF usable # {}
        THEN proxies[CHOOSE i \in usable : \A j \in usable : i <= j]
        ELSE IF proxies # <<>> THEN proxies[1] ELSE none
\* updateSelection: the member it leaves in selected_, which was `none`.
FirstUsable(lat, none) ==
    LET usable == {i \in DOMAIN proxies : lat[proxies[i]] > 0}
    IN  IF usable # {}
        THEN proxies[CHOOSE i \in usable : \A j \in usable : i <= j]
        ELSE IF proxies # <<>> THEN proxies[1] ELSE none

\* Members that refuse get their entry before runTest returns.
RunTest ==
    LET refused == {p \in Refusing : Dials(p) > 0}
    IN  /\ latencies' = [p \in Proxies |->
              IF p \in refused THEN 0 ELSE latencies[p]]
        /\ selected' = IF refused = {} THEN selected
                       ELSE FirstUsable(latencies', selected)
        /\ answer' = [p \in Proxies |->
              IF p \in refused THEN "failed" ELSE answer[p]]
        /\ pending' = [p \in Proxies |->
              IF p \in Refusing THEN pending[p] ELSE pending[p] + Dials(p)]
        /\ armed' = TRUE

Start ==
    /\ phase = "created" /\ phase' = "started"
    /\ RunTest
    /\ UNCHANGED <<proxies, link>>

\* Mutant: there is no default before the first result.
SetProxies_NoDefault ==
    /\ phase = "started" /\ phase' = "linked"
    /\ proxies' = Members
    /\ latencies' = [p \in Proxies |-> Unknown]
    /\ UNCHANGED <<selected, pending, armed, link, answer>>
\* The second pass over the groups in main().
SetProxies ==
    /\ phase = "started" /\ phase' = "linked"
    /\ proxies' = Members
    /\ latencies' = [p \in Proxies |-> Unknown]
    /\ selected' = IF Members # <<>> THEN Members[1] ELSE selected
    /\ UNCHANGED <<pending, armed, link, answer>>

\* Mutant: the timer is only armed by start().
TimerFired_Once ==
    /\ phase = "linked" /\ armed
    /\ \A p \in Proxies : pending[p] + Dials(p) <= MaxPending
    /\ pending' = [p \in Proxies |-> pending[p] + Dials(p)]
    /\ armed' = FALSE
    /\ UNCHANGED <<phase, proxies, link, latencies, selected, answer>>
\* The loop runs and timer_ expires.
TimerFired ==
    /\ phase = "linked" /\ armed
    /\ \A p \in Proxies : pending[p] + Dials(p) <= MaxPending
    /\ RunTest
    /\ UNCHANGED <<phase, proxies, link>>

OnTestComplete(p, latency) ==
    /\ latencies' = [latencies EXCEPT ![p] = latency]
    /\ selected' = FirstUsable(latencies', selected)

\* The handler of a dial: the latency on success, 0 on failure.
DialDone(p) ==
    /\ phase = "linked" /\ pending[p] > 0
    /\ OnTestComplete(p, IF link[p] = "slow" THEN 1 ELSE 0)
    /\ answer' = [answer EXCEPT ![p] =
          IF link[p] = "down" THEN "failed" ELSE "succeeded"]
    /\ pending' = [pending EXCEPT ![p] = @ - 1]
    /\ UNCHANGED <<phase, proxies, armed, link>>

\* A member goes down, comes back, becomes faster or slower.
Change(p) ==
    /\ \E l \in Links \ {link[p]} : link' = [link EXCEPT ![p] = l]
    /\ UNCHANGED <<phase, proxies, selected, latencies, pending, armed, answer>>

Next ==
    \/ Start \/ SetProxies \/ TimerFired
    \/ \E p \in Proxies : DialDone(p) \/ Change(p)

Spec == Init /\ [][Next]_vars

\* main() goes on, the timer expires, and every dial ends.
Fairness ==
    /\ WF_vars(Start) /\ WF_vars(SetProxies) /\ WF_vars(TimerFired)
    /\ \A p \in Proxies : WF_vars(DialDone(p))

FairSpec == Spec /\ Fairness

-----------------------------------------------------------------------------
(* Properties. *)

\* Types of the variables of FallbackAdapter.
TypeOK ==
    /\ phase \in {"created", "started", "linked"}
    /\ proxies \in Seq(Proxies)
    /\ selected \in Proxies \cup {None}
    /\ latencies \in [Proxies -> {Unknown, 0, 1}]
    /\ pending \in [Proxies -> Nat]
    /\ armed \in BOOLEAN
    /\ link \in [Proxies -> Links]
    /\ answer \in [Proxies -> {"none", "failed", "succeeded"}]

\* No result is left out of the choice: between any two handlers selected_ is
\* the first member known to be usable, whose last dial succeeded, or the
\* first of all when none is.
FirstIsSelected ==
    proxies # <<>> =>
        \E i \in DOMAIN proxies :
            /\ selected = proxies[i]
            /\ \A j \in 1 .. i - 1 : latencies[proxies[j]] <= 0
            /\ \/ latencies[selected] > 0 /\ answer[selected] = "succeeded"
               \/ i = 1 /\ \A q \in Proxies : latencies[q] <= 0 \/ Dials(q) = 0

\* The group keeps the promise of every group: selected_ is a member.
AsGroup == INSTANCE Group WITH members <- proxies, active <- selected
IsGroup == AsGroup!GroupInit /\ [][AsGroup!GroupNext]_(AsGroup!groupVars)

\* Member i is the one to use for good: those before it stay down, and it
\* keeps answering, slowly enough for its latency not to be 0.
Settles(i) ==
    /\ \A j \in 1 .. i - 1 : <>[](link[Members[j]] = "down")
    /\ <>[](link[Members[i]] = "slow")

\* Fails over, and back: the group ends up with the first member that answers,
\* whatever results of earlier times were still out when things settled.
FailsOver ==
    \A i \in DOMAIN Members :
        Settles(i) /\ Members[i] \notin Refusing
            => <>[](selected = Members[i])

=============================================================================
