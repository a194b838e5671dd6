-------------------------- MODULE FallbackProofs ---------------------------
(***************************************************************************)
(* What holds of FallbackAdapter for every list of members and however     *)
(* many dials are under way.                                               *)
(***************************************************************************)
EXTENDS Fallback, FiniteSetTheorems, WellFoundedInduction, TLAPS

\* Before the group is linked it has no member and no dial is under way; a
\* dial that is under way is that of a member.
LinkInv ==
    /\ phase # "linked" => proxies = <<>>
    /\ proxies = <<>> => selected = None
    /\ \A p \in Proxies : pending[p] > 0 => \E i \in DOMAIN proxies : proxies[i] = p

\* Behind a positive latency there is a dial that succeeded.
AnswerInv ==
    \A p \in Proxies : latencies[p] > 0 => answer[p] = "succeeded"

\* The member selected_ holds is the one updateSelection would pick now.
ChoiceInv == proxies # <<>> => selected = FirstUsable(latencies, None)

IInv == TypeOK /\ LinkInv /\ AnswerInv /\ ChoiceInv

\* A member is dialled a number of times, and not at all unless it is listed.
LEMMA DialsNat ==
    ASSUME proxies \in Seq(Proxies), NEW p \in Proxies
    PROVE  /\ Dials(p) \in Nat
           /\ Dials(p) > 0 => \E i \in DOMAIN proxies : proxies[i] = p
  <1> DEFINE at == {i \in DOMAIN proxies : proxies[i] = p}
  <1>1. DOMAIN proxies = 1 .. Len(proxies) /\ Len(proxies) \in Nat
    OBVIOUS
  <1>2. IsFiniteSet(1 .. Len(proxies))
    BY <1>1, FS_Interval
  <1>3. IsFiniteSet(at) /\ at \subseteq 1 .. Len(proxies)
    BY <1>1, <1>2, FS_Subset
  <1> HIDE DEF at
  <1>4. Cardinality(at) \in Nat
    BY <1>3, FS_CardinalityType
  <1>5. Cardinality(at) > 0 => at # {}
    <2>1. at = {} => Cardinality(at) = 0
      BY FS_EmptySet
    <2>2. QED
      BY <1>4, <2>1
  <1>6. QED
    BY <1>4, <1>5 DEF Dials, at

\* A nonempty set of numbers has a least one.
LEMMA LeastNat ==
    ASSUME NEW S \in SUBSET Nat, S # {}
    PROVE  \E n \in S : \A m \in S : n <= m
  <1>1. PICK n \in S : \A m \in S : ~(<<m, n>> \in OpToRel(<, Nat))
    BY NatLessThanWellFounded, WFMin
  <1>2. \A m \in S : ~(m < n)
    BY <1>1 DEF OpToRel
  <1>3. \A m \in S : n <= m
    BY <1>2
  <1>4. QED
    BY <1>3

\* What updateSelection picks, whatever was selected before.
LEMMA FirstUsableIs ==
    ASSUME proxies \in Seq(Proxies), proxies # <<>>,
           NEW lat \in [Proxies -> {Unknown, 0, 1}], NEW none
    PROVE  /\ FirstUsable(lat, none) = FirstUsable(lat, None)
           /\ \E i \in DOMAIN proxies :
                /\ FirstUsable(lat, none) = proxies[i]
                /\ \A j \in 1 .. i - 1 : lat[proxies[j]] <= 0
                /\ \/ lat[proxies[i]] > 0
                   \/ i = 1 /\ \A j \in DOMAIN proxies : lat[proxies[j]] <= 0
  <1> DEFINE usable == {i \in DOMAIN proxies : lat[proxies[i]] > 0}
  <1>1. DOMAIN proxies = 1 .. Len(proxies) /\ Len(proxies) \in Nat
        /\ Len(proxies) > 0
    OBVIOUS
  <1>2. \A i \in DOMAIN proxies : lat[proxies[i]] \in {-1, 0, 1}
    BY DEF Unknown
  <1>3. CASE usable = {}
    <2>1. FirstUsable(lat, none) = proxies[1] /\ FirstUsable(lat, None) = proxies[1]
      BY <1>3 DEF FirstUsable
    <2>2. \A j \in DOMAIN proxies : lat[proxies[j]] <= 0
      BY <1>2, <1>3
    <2>3. QED
      BY <1>1, <2>1, <2>2
  <1>4. CASE usable # {}
    <2>1. usable \in SUBSET Nat
      BY <1>1
    <2> DEFINE least == CHOOSE i \in usable : \A j \in usable : i <= j
    <2>2. least \in usable /\ \A j \in usable : least <= j
      <3> HIDE DEF usable
      <3>1. \E i \in usable : \A j \in usable : i <= j
        BY <1>4, <2>1, LeastNat
      <3>2. QED
        BY <3>1
    <2>3. FirstUsable(lat, none) = proxies[least]
          /\ FirstUsable(lat, None) = proxies[least]
      BY <1>4 DEF FirstUsable
    <2> HIDE DEF least
    <2>4. least \in DOMAIN proxies /\ lat[proxies[least]] > 0
      BY <2>2
    <2>5. ASSUME NEW j \in 1 .. least - 1 PROVE lat[proxies[j]] <= 0
      <3>1. j \in DOMAIN proxies /\ j < least
        BY <1>1, <2>4
      <3>2. j \notin usable
        BY <1>1, <2>2, <2>4, <3>1
      <3>3. QED
        BY <1>2, <3>1, <3>2
    <2>6. QED
      BY <2>3, <2>4, <2>5
  <1>5. QED
    BY <1>3, <1>4

\* It is a member.
LEMMA FirstUsableType ==
    ASSUME proxies \in Seq(Proxies), proxies # <<>>,
           NEW lat \in [Proxies -> {Unknown, 0, 1}], NEW none
    PROVE  FirstUsable(lat, none) \in Proxies
  <1>1. PICK i \in DOMAIN proxies : FirstUsable(lat, none) = proxies[i]
    BY FirstUsableIs
  <1>2. QED
    BY <1>1

\* runTest leaves a group of the right shape.
LEMMA RunTestInv ==
    ASSUME IInv, RunTest, UNCHANGED <<proxies, link>>,
           phase' \in {"started", "linked"}, phase' = "linked" <=> phase = "linked"
    PROVE  IInv'
  <1> DEFINE refused == {p \in Refusing : Dials(p) > 0}
  <1>1. latencies' \in [Proxies -> {Unknown, 0, 1}]
        /\ proxies \in Seq(Proxies) /\ proxies' = proxies
    BY DEF IInv, TypeOK, RunTest
  <1>2. refused # {} => proxies # <<>>
    <2>1. ASSUME NEW p \in refused PROVE proxies # <<>>
      BY <1>1, DialsNat, FallbackAssumption
    <2>2. QED
      BY <2>1
  <1>3. selected' = IF refused = {} THEN selected
                    ELSE FirstUsable(latencies', selected)
    BY DEF RunTest
  <1>4. refused = {} => latencies' = latencies
    BY DEF RunTest, IInv, TypeOK
  <1> HIDE DEF refused
  <1>5. selected' \in Proxies \cup {None}
    BY <1>1, <1>2, <1>3, FirstUsableType DEF IInv, TypeOK
  <1>6. TypeOK'
    <2>1. pending' \in [Proxies -> Nat]
      BY <1>1, DialsNat DEF IInv, TypeOK, RunTest
    <2>2. answer' \in [Proxies -> {"none", "failed", "succeeded"}]
      BY DEF IInv, TypeOK, RunTest
    <2>3. QED
      BY <1>1, <1>5, <2>1, <2>2 DEF IInv, TypeOK, RunTest
  <1>7. ASSUME NEW p \in Proxies, pending'[p] > 0
        PROVE  \E i \in DOMAIN proxies : proxies[i] = p
    <2>1. proxies \in Seq(Proxies) /\ pending[p] \in Nat
      BY DEF IInv, TypeOK
    <2>2. pending'[p] = pending[p] \/ pending'[p] = pending[p] + Dials(p)
      BY DEF RunTest
    <2>3. CASE pending[p] > 0
      BY <2>3 DEF IInv, LinkInv
    <2>4. CASE Dials(p) > 0
      BY <2>1, <2>4, DialsNat
    <2>5. QED
      BY <1>7, <2>1, <2>2, <2>3, <2>4, DialsNat
  <1>8. LinkInv'
    <2>1. /\ phase' # "linked" => proxies' = <<>>
          /\ proxies' = <<>> => selected' = None
      BY <1>1, <1>2, <1>3 DEF IInv, LinkInv
    <2>2. QED
      BY <1>1, <1>7, <2>1 DEF LinkInv
  <1>9. AnswerInv'
    BY DEF IInv, TypeOK, AnswerInv, RunTest
  <1>10. ChoiceInv'
    <2>1. CASE refused = {}
      BY <1>1, <1>3, <1>4, <2>1 DEF IInv, ChoiceInv, FirstUsable
    <2>2. CASE refused # {}
      <3>1. FirstUsable(latencies', selected) = FirstUsable(latencies', None)
        BY <1>1, <1>2, <2>2, FirstUsableIs
      <3>2. QED
        BY <1>1, <1>3, <2>2, <3>1 DEF ChoiceInv, FirstUsable
    <2>3. QED
      BY <2>1, <2>2
  <1>11. QED
    BY <1>6, <1>8, <1>9, <1>10 DEF IInv

\* A result is recorded and the choice made anew.
LEMMA ResultInv ==
    ASSUME IInv, NEW p \in Proxies, DialDone(p)
    PROVE  IInv'
  <1> DEFINE lat == IF link[p] = "slow" THEN 1 ELSE 0
  <1>1. latencies' = [latencies EXCEPT ![p] = lat]
        /\ selected' = FirstUsable(latencies', selected)
        /\ UNCHANGED <<phase, proxies>>
    BY DEF DialDone, OnTestComplete
  <1>2. latencies' \in [Proxies -> {Unknown, 0, 1}] /\ proxies \in Seq(Proxies)
    BY <1>1 DEF IInv, TypeOK
  <1>3. proxies # <<>> /\ phase = "linked"
    BY <1>2 DEF IInv, LinkInv, DialDone
  <1>4. TypeOK'
    <2>1. selected' \in Proxies
      BY <1>1, <1>2, <1>3, FirstUsableType
    <2>2. QED
      BY <1>1, <1>2, <2>1 DEF IInv, TypeOK, DialDone
  <1>5. LinkInv'
    BY <1>1, <1>3 DEF IInv, TypeOK, LinkInv, DialDone
  <1>6. AnswerInv'
    BY <1>1 DEF IInv, TypeOK, AnswerInv, DialDone
  <1>7. ChoiceInv'
    <2>1. FirstUsable(latencies', selected) = FirstUsable(latencies', None)
      BY <1>2, <1>3, FirstUsableIs
    <2>2. QED
      BY <1>1, <2>1 DEF ChoiceInv, FirstUsable
  <1>8. QED
    BY <1>4, <1>5, <1>6, <1>7 DEF IInv

\* The default of setProxies is what updateSelection would pick.
LEMMA SetProxiesInv ==
    ASSUME IInv, SetProxies
    PROVE  IInv'
  <1>1. TypeOK'
    BY FallbackAssumption DEF IInv, TypeOK, SetProxies
  <1>2. LinkInv'
    BY DEF IInv, LinkInv, TypeOK, SetProxies
  <1>3. AnswerInv'
    BY DEF AnswerInv, SetProxies, Unknown
  <1>4. ChoiceInv'
    BY FallbackAssumption DEF ChoiceInv, SetProxies, FirstUsable, Unknown
  <1>5. QED
    BY <1>1, <1>2, <1>3, <1>4 DEF IInv

\* Every step keeps the invariant.
LEMMA StepInv == IInv /\ [Next]_vars => IInv'
  <1> SUFFICES ASSUME IInv, [Next]_vars PROVE IInv'
    OBVIOUS
  <1>1. CASE Start
    BY <1>1, RunTestInv DEF Start
  <1>2. CASE TimerFired
    BY <1>2, RunTestInv DEF TimerFired
  <1>3. ASSUME NEW p \in Proxies, Change(p)
        PROVE  IInv'
    BY <1>3 DEF IInv, TypeOK, LinkInv, AnswerInv, ChoiceInv, FirstUsable, Change
  <1>4. CASE UNCHANGED vars
    BY <1>4 DEF IInv, TypeOK, LinkInv, AnswerInv, ChoiceInv, FirstUsable, vars
  <1>5. QED
    BY <1>1, <1>2, <1>3, <1>4, SetProxiesInv, ResultInv DEF Next

\* The inductive invariant of the group.
THEOREM Invariance == Spec => []IInv
  <1>1. Init => IInv
    <2>1. Init => TypeOK
      <3>1. <<>> \in Seq(Proxies)
        OBVIOUS
      <3>2. Init => /\ latencies \in [Proxies -> {Unknown, 0, 1}]
                    /\ pending \in [Proxies -> Nat]
        BY DEF Init
      <3>3. Init => answer \in [Proxies -> {"none", "failed", "succeeded"}]
        BY DEF Init
      <3>4. Init => /\ phase \in {"created"} /\ proxies \in Seq(Proxies)
                    /\ selected = None /\ armed = FALSE
                    /\ link \in [Proxies -> Links]
        BY <3>1 DEF Init
      <3>5. QED
        BY <3>2, <3>3, <3>4 DEF TypeOK
    <2>2. Init => LinkInv /\ AnswerInv /\ ChoiceInv
      BY DEF Init, LinkInv, AnswerInv, ChoiceInv, Unknown
    <2>3. QED
      BY <2>1, <2>2 DEF IInv
  <1>2. QED
    BY <1>1, StepInv, PTL DEF Spec

\* Types of a fallback group: the counters of pending dials never fall below
\* zero, whatever results arrive in whatever order.
THEOREM TypeCorrect == Spec => []TypeOK
  <1>1. IInv => TypeOK
    BY DEF IInv
  <1>2. QED
    BY <1>1, Invariance, PTL

\* The group dials through the first member that answered when it was last
\* tried, or through its first one when none did.
THEOREM FirstIsTheSelected == Spec => []FirstIsSelected
  <1>1. IInv => FirstIsSelected
    <2> SUFFICES ASSUME IInv, proxies # <<>> PROVE FirstIsSelected
      BY DEF FirstIsSelected
    <2>1. proxies \in Seq(Proxies) /\ latencies \in [Proxies -> {Unknown, 0, 1}]
      BY DEF IInv, TypeOK
    <2>2. PICK i \in DOMAIN proxies :
            /\ selected = proxies[i]
            /\ \A j \in 1 .. i - 1 : latencies[proxies[j]] <= 0
            /\ \/ latencies[proxies[i]] > 0
               \/ i = 1 /\ \A j \in DOMAIN proxies : latencies[proxies[j]] <= 0
      BY <2>1, FirstUsableIs DEF IInv, ChoiceInv
    <2>3. selected \in Proxies
      BY <2>1, <2>2
    <2>4. ASSUME i = 1 /\ \A j \in DOMAIN proxies : latencies[proxies[j]] <= 0,
                 NEW q \in Proxies
          PROVE  latencies[q] <= 0 \/ Dials(q) = 0
      BY <2>1, <2>4, DialsNat
    <2>5. QED
      BY <2>2, <2>3, <2>4 DEF FirstIsSelected, IInv, AnswerInv
  <1>2. QED
    BY <1>1, Invariance, PTL

\* The group keeps the promise of Group: every step of it is a step of that.
THEOREM KeepsGroup == Spec => IsGroup
  <1>1. Init => AsGroup!GroupInit
    BY DEF Init, AsGroup!GroupInit
  <1>2. IInv /\ IInv' /\ [Next]_vars => [AsGroup!GroupNext]_(AsGroup!groupVars)
    <2> SUFFICES ASSUME IInv, IInv', [Next]_vars
                 PROVE  [AsGroup!GroupNext]_(AsGroup!groupVars)
      OBVIOUS
    <2>1. CASE SetProxies
      BY <2>1, FallbackAssumption
         DEF IInv, LinkInv, SetProxies, AsGroup!GroupNext, AsGroup!Link
    <2>2. CASE UNCHANGED proxies
      <3>1. CASE proxies = <<>>
        <4>1. selected' = selected
          BY <2>2, <3>1 DEF IInv, LinkInv
        <4>2. QED
          BY <2>2, <4>1 DEF AsGroup!groupVars
      <3>2. CASE proxies # <<>>
        <4>1. PICK i \in DOMAIN proxies : selected' = proxies[i]
          <5>1. selected' = FirstUsable(latencies', None)
            BY <2>2, <3>2 DEF IInv, ChoiceInv, FirstUsable
          <5>2. latencies' \in [Proxies -> {Unknown, 0, 1}]
                /\ proxies \in Seq(Proxies)
            BY DEF IInv, TypeOK
          <5>3. QED
            BY <3>2, <5>1, <5>2, FirstUsableIs
        <4>2. QED
          BY <2>2, <4>1 DEF AsGroup!GroupNext, AsGroup!Switch, Range, AsGroup!Range
      <3>3. QED
        BY <3>1, <3>2
    <2>3. QED
      BY <2>1, <2>2 DEF Next, Start, TimerFired, DialDone, Change, vars
  <1>3. QED
    BY <1>1, <1>2, Invariance, PTL DEF Spec, IsGroup

=============================================================================
