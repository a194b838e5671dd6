--------------------------- MODULE URLTestProofs ---------------------------
(***************************************************************************)
(* What holds of URLTestAdapter for every list of members, every latency   *)
(* and however many dials are under way.                                   *)
(***************************************************************************)
EXTENDS URLTest, FiniteSetTheorems, TLAPS

\* Before the group is linked it has no member and no dial is under way; a
\* dial that is under way is that of a member.
LinkInv ==
    /\ phase # "linked" => proxies = <<>> /\ fastest = None /\ results = <<>>
    /\ \A p \in Proxies : pending[p] > 0 => \E i \in DOMAIN proxies : proxies[i] = p

IInv == TypeOK /\ LinkInv /\ FastestIsBest

\* A member is dialled a number of times, and not at all unless it is listed.
LEMMA DialsNat ==
    ASSUME proxies \in Seq(Proxies), NEW p \in Proxies
    PROVE  /\ Dials(p) \in Nat
           /\ Dials(p) > 0 => \E i \in DOMAIN proxies : proxies[i] = p
  <1> DEFINE at == {i \in DOMAIN proxies : proxies[i] = p}
  <1>1. DOMAIN proxies = 1 .. Len(proxies) /\ Len(proxies) \in Nat
    OBVIOUS
  <1>2. IsFiniteSet(1 .. Len(proxies))
    BY <1>1, FS_Interval
  <1>3. IsFiniteSet(at) /\ at \subseteq 1 .. Len(proxies)
    BY <1>1, <1>2, FS_Subset
  <1> HIDE DEF at
  <1>4. Cardinality(at) \in Nat
    BY <1>3, FS_CardinalityType
  <1>5. Cardinality(at) > 0 => at # {}
    <2>1. at = {} => Cardinality(at) = 0
      BY FS_EmptySet
    <2>2. QED
      BY <1>4, <2>1
  <1>6. QED
    BY <1>4, <1>5 DEF Dials, at

\* runTest leaves a group of the right shape, with no result yet.
LEMMA RunTestInv ==
    ASSUME IInv, RunTest, UNCHANGED <<proxies, fastest, up>>,
           phase' \in {"started", "linked"}, phase' = "linked" <=> phase = "linked"
    PROVE  IInv'
  <1>1. TypeOK'
    BY DialsNat DEF IInv, TypeOK, RunTest
  <1>2. ASSUME NEW p \in Proxies, pending'[p] > 0
        PROVE  \E i \in DOMAIN proxies : proxies[i] = p
    <2>1. proxies \in Seq(Proxies) /\ pending[p] \in Nat
      BY DEF IInv, TypeOK
    <2>2. pending'[p] = pending[p] \/ pending'[p] = pending[p] + Dials(p)
      BY DEF RunTest
    <2>3. CASE pending[p] > 0
      BY <2>3 DEF IInv, LinkInv
    <2>4. CASE Dials(p) > 0
      BY <2>1, <2>4, DialsNat
    <2>5. QED
      BY <1>2, <2>1, <2>2, <2>3, <2>4, DialsNat
  <1>3. LinkInv'
    BY <1>2 DEF IInv, LinkInv, TypeOK, RunTest
  <1>4. FastestIsBest'
    BY DEF RunTest, FastestIsBest
  <1>5. QED
    BY <1>1, <1>3, <1>4 DEF IInv

\* A result keeps fastest_ the first of the best.
LEMMA ResultInv ==
    ASSUME IInv, NEW p \in Proxies, DialSucceeds(p)
    PROVE  IInv'
  <1>1. PICK latency \in 0 .. MaxLatency :
          /\ OnTestComplete(p, latency)
          /\ results' = Append(results, [proxy |-> p, latency |-> latency])
    BY DEF DialSucceeds
  <1>2. latency \in Nat
    BY URLTestAssumption
  <1> DEFINE r == [proxy |-> p, latency |-> latency]
             R == [proxy : Proxies, latency : Nat]
  <1>3. r \in R /\ results \in Seq(R) /\ results' = Append(results, r)
    BY <1>1, <1>2 DEF IInv, TypeOK
  <1> HIDE DEF r, R
  <1>4. /\ results' \in Seq(R) /\ Len(results') = Len(results) + 1
        /\ results'[Len(results) + 1] = r
        /\ \A i \in 1 .. Len(results) : results'[i] = results[i]
        /\ Len(results) \in Nat
    BY <1>3
  <1>5. r.proxy = p /\ r.latency = latency
    BY DEF r
  <1>6. \A i \in DOMAIN results : results[i].latency \in Nat
    <2>1. \A i \in DOMAIN results : results[i] \in R
      BY <1>3
    <2>2. \A x \in R : x.latency \in Nat
      BY DEF R
    <2>3. QED
      BY <2>1, <2>2
  <1>7. TypeOK'
    BY <1>1, <1>2, <1>4 DEF IInv, TypeOK, DialSucceeds, OnTestComplete, R
  <1>8. LinkInv'
    BY DEF IInv, LinkInv, TypeOK, DialSucceeds
  <1>9. FastestIsBest'
    <2>1. CASE results = <<>>
      <3>1. min_latency' = latency /\ fastest' = p
        BY <1>1, <2>1 DEF IInv, FastestIsBest, OnTestComplete
      <3>2. QED
        BY <1>2, <1>4, <1>5, <2>1, <3>1 DEF FastestIsBest
    <2>2. CASE results # <<>>
      <3>1. PICK i \in DOMAIN results :
              /\ results[i].proxy = fastest /\ results[i].latency = min_latency
              /\ \A j \in DOMAIN results :
                  /\ min_latency <= results[j].latency
                  /\ j < i => min_latency < results[j].latency
        BY <2>2 DEF IInv, FastestIsBest
      <3>2. min_latency \in Nat
        BY <1>6, <3>1
      <3>3. DOMAIN results = 1 .. Len(results)
            /\ DOMAIN results' = 1 .. Len(results) + 1
        BY <1>3, <1>4
      <3>4. CASE latency < min_latency
        <4>1. min_latency' = latency /\ fastest' = p
          BY <1>1, <3>4 DEF OnTestComplete
        <4>2. \A j \in 1 .. Len(results) :
                results'[j].latency \in Nat /\ latency < results'[j].latency
          BY <1>2, <1>4, <1>6, <3>1, <3>2, <3>3, <3>4
        <4>3. \A j \in 1 .. Len(results) + 1 :
                /\ latency <= results'[j].latency
                /\ j < Len(results) + 1 => latency < results'[j].latency
          <5> SUFFICES ASSUME NEW j \in 1 .. Len(results) + 1
                       PROVE  /\ latency <= results'[j].latency
                              /\ j < Len(results) + 1
                                    => latency < results'[j].latency
            OBVIOUS
          <5>1. CASE j = Len(results) + 1
            BY <1>2, <1>4, <1>5, <5>1
          <5>2. CASE j \in 1 .. Len(results)
            BY <1>2, <4>2, <5>2
          <5>3. QED
            BY <1>4, <5>1, <5>2
        <4>4. Len(results) + 1 \in DOMAIN results' /\ results' # <<>>
          BY <1>4, <3>3
        <4>5. QED
          BY <1>4, <1>5, <3>3, <4>1, <4>3, <4>4 DEF FastestIsBest
      <3>5. CASE ~(latency < min_latency)
        <4>1. min_latency' = min_latency /\ fastest' = fastest
          BY <1>1, <3>2, <3>5 DEF OnTestComplete
        <4>2. \A j \in 1 .. Len(results) + 1 :
                min_latency <= results'[j].latency
          BY <1>2, <1>4, <1>5, <3>1, <3>2, <3>3, <3>5
        <4>3. i \in 1 .. Len(results) + 1 /\ results'[i] = results[i]
              /\ \A j \in 1 .. Len(results) + 1 :
                    j < i => min_latency < results'[j].latency
          BY <1>4, <3>1, <3>3
        <4>4. results' # <<>>
          BY <1>4
        <4>5. QED
          BY <3>1, <3>3, <4>1, <4>2, <4>3, <4>4 DEF FastestIsBest
      <3>6. QED
        BY <3>4, <3>5
    <2>3. QED
      BY <2>1, <2>2
  <1>10. QED
    BY <1>7, <1>8, <1>9 DEF IInv

\* Every step keeps the invariant.
LEMMA StepInv == IInv /\ [Next]_vars => IInv'
  <1> SUFFICES ASSUME IInv, [Next]_vars PROVE IInv'
    OBVIOUS
  <1>1. CASE Start
    BY <1>1, RunTestInv DEF Start
  <1>2. CASE SetProxies
    <2>1. TypeOK'
      BY <1>2, URLTestAssumption DEF IInv, TypeOK, SetProxies
    <2>2. LinkInv'
      BY <1>2 DEF IInv, LinkInv, TypeOK, SetProxies
    <2>3. results = <<>>
      BY <1>2 DEF IInv, LinkInv, SetProxies
    <2>4. QED
      BY <1>2, <2>1, <2>2, <2>3 DEF IInv, FastestIsBest, SetProxies
  <1>3. CASE TimerFired
    BY <1>3, RunTestInv DEF TimerFired
  <1>4. ASSUME NEW p \in Proxies, DialFails(p)
        PROVE  IInv'
    BY <1>4 DEF IInv, TypeOK, LinkInv, FastestIsBest, DialFails
  <1>5. ASSUME NEW p \in Proxies, Change(p)
        PROVE  IInv'
    BY <1>5 DEF IInv, TypeOK, LinkInv, FastestIsBest, Change
  <1>6. CASE UNCHANGED vars
    BY <1>6 DEF IInv, TypeOK, LinkInv, FastestIsBest, vars
  <1>7. QED
    BY <1>1, <1>2, <1>3, <1>4, <1>5, <1>6, ResultInv DEF Next

\* The inductive invariant of the group.
THEOREM Invariance == Spec => []IInv
  <1>1. Init => IInv
    <2>1. Init => TypeOK
      <3> DEFINE R == [proxy : Proxies, latency : Nat]
      <3>1. <<>> \in Seq(R) /\ <<>> \in Seq(Proxies)
        OBVIOUS
      <3> HIDE DEF R
      <3>2. Init => results \in Seq(R)
        BY <3>1 DEF Init
      <3>3. Init => /\ phase \in {"created"} /\ proxies \in Seq(Proxies)
                    /\ fastest = None /\ min_latency = -1
                    /\ pending \in [Proxies -> Nat]
                    /\ armed = FALSE /\ tested = FALSE
                    /\ up \in SUBSET Proxies
        BY <3>1 DEF Init
      <3>4. QED
        BY <3>2, <3>3 DEF TypeOK, R
    <2>2. Init => LinkInv /\ FastestIsBest
      BY DEF Init, LinkInv, FastestIsBest
    <2>3. QED
      BY <2>1, <2>2 DEF IInv
  <1>2. QED
    BY <1>1, StepInv, PTL DEF Spec

\* Types of a URL test group: the counters of pending dials never fall below
\* zero, whatever results arrive in whatever order.
THEOREM TypeCorrect == Spec => []TypeOK
  <1>1. IInv => TypeOK
    BY DEF IInv
  <1>2. QED
    BY <1>1, Invariance, PTL

\* fastest_ is the first member that reached the best latency since the reset.
THEOREM FastestIsTheBest == Spec => []FastestIsBest
  <1>1. IInv => FastestIsBest
    BY DEF IInv
  <1>2. QED
    BY <1>1, Invariance, PTL

\* The group keeps the promise of Group: every step of it is a step of that.
THEOREM KeepsGroup == Spec => IsGroup
  <1>1. Init => AsGroup!GroupInit
    BY DEF Init, AsGroup!GroupInit
  <1>2. IInv /\ [Next]_vars => [AsGroup!GroupNext]_(AsGroup!groupVars)
    <2> SUFFICES ASSUME IInv, [Next]_vars
                 PROVE  [AsGroup!GroupNext]_(AsGroup!groupVars)
      OBVIOUS
    <2>1. CASE SetProxies
      BY <2>1, URLTestAssumption
         DEF IInv, LinkInv, SetProxies, AsGroup!GroupNext, AsGroup!Link
    <2>2. ASSUME NEW p \in Proxies, DialSucceeds(p)
          PROVE  [AsGroup!GroupNext]_(AsGroup!groupVars)
      <3>1. \E i \in DOMAIN proxies : proxies[i] = p
        BY <2>2 DEF IInv, LinkInv, DialSucceeds
      <3>2. fastest' \in {fastest, p} /\ UNCHANGED proxies
        BY <2>2 DEF DialSucceeds, OnTestComplete
      <3>3. QED
        BY <3>1, <3>2 DEF AsGroup!GroupNext, AsGroup!Switch, AsGroup!groupVars,
                          Range, AsGroup!Range
    <2>3. QED
      BY <2>1, <2>2 DEF Next, Start, TimerFired, DialFails, Change, RunTest,
                        vars, AsGroup!groupVars
  <1>3. QED
    BY <1>1, <1>2, Invariance, PTL DEF Spec, IsGroup

=============================================================================
