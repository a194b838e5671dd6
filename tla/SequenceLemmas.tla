--------------------------- MODULE SequenceLemmas ---------------------------
(***************************************************************************)
(* Facts about sequences that the proofs of several components rest on:    *)
(* induction over the naturals in a form without operator parameters, and  *)
(* what FlattenSeq and the folds of the community modules compute.         *)
(***************************************************************************)
EXTENDS Integers, Sequences, SequencesExt, SequenceTheorems,
        WellFoundedInduction, TLAPS

\* Every set of naturals that is not empty has a least member.
LEMMA LeastMember ==
    ASSUME NEW T, T \subseteq Nat, T # {}
    PROVE  \E n \in T : \A m \in T : n <= m
  <1>1. PICK n \in T : \A m \in T : ~(<<m, n>> \in OpToRel(<, Nat))
    BY NatLessThanWellFounded, WFMin
  <1>2. OpToRel(<, Nat) = {ss \in Nat \X Nat : ss[1] < ss[2]}
    BY Zenon DEF OpToRel
  <1>3. ASSUME NEW m \in T
        PROVE  n <= m
    <2>1. ~(<<m, n>> \in {ss \in Nat \X Nat : ss[1] < ss[2]})
      BY <1>1, <1>2, Zenon
    <2> QED
      BY <2>1
  <1> QED
    BY <1>3

\* Induction: a set with 0 and every successor has all of Nat.
LEMMA Inductive ==
    ASSUME NEW P, 0 \in P, \A n \in Nat : n \in P => n + 1 \in P
    PROVE  Nat \subseteq P
  <1> SUFFICES ASSUME Nat \ P # {}
               PROVE  FALSE
    OBVIOUS
  <1>1. PICK n \in Nat \ P : \A m \in Nat \ P : n <= m
    BY LeastMember
  <1>2. n - 1 \in Nat /\ (n - 1) + 1 = n
    BY <1>1
  <1>3. n - 1 \in P
    BY <1>1, <1>2
  <1> QED
    BY <1>1, <1>2, <1>3

-----------------------------------------------------------------------------

\* f runs along the sequences of ss, up to the n-th, putting them together.
Flattens(f, ss, n) ==
    \A i \in 1 .. n : /\ i = 1 => f[i] = ss[i]
                      /\ i # 1 => f[i] = f[i - 1] \o ss[i]

\* The two hold the same up to the n-th.
SameUpTo(f, g, n) == \A i \in 1 .. n : f[i] = g[i]

\* There is such a function, and it yields sequences.
LEMMA FlattensExists ==
    ASSUME NEW T, NEW ss \in Seq(Seq(T)), NEW n \in 0 .. Len(ss)
    PROVE  \E f \in [1 .. n -> Seq(T)] : Flattens(f, ss, n)
  <1> DEFINE P == {k \in Nat : k <= Len(ss) =>
                      \E f \in [1 .. k -> Seq(T)] : Flattens(f, ss, k)}
  <1>1. 0 \in P
    <2>1. Flattens([i \in 1 .. 0 |-> <<>>], ss, 0)
      BY DEF Flattens
    <2>2. [i \in 1 .. 0 |-> <<>>] \in [1 .. 0 -> Seq(T)]
      OBVIOUS
    <2> QED
      BY <2>1, <2>2
  <1>2. ASSUME NEW k \in Nat, k \in P
        PROVE  k + 1 \in P
    <2> SUFFICES ASSUME k + 1 <= Len(ss)
                 PROVE  \E f \in [1 .. k + 1 -> Seq(T)] : Flattens(f, ss, k + 1)
      OBVIOUS
    <2>1. PICK f \in [1 .. k -> Seq(T)] : Flattens(f, ss, k)
      BY <1>2
    <2> DEFINE last == IF k = 0 THEN ss[1] ELSE f[k] \o ss[k + 1]
               g    == [i \in 1 .. k + 1 |-> IF i = k + 1 THEN last ELSE f[i]]
    <2>2. ss[k + 1] \in Seq(T)
      <3>1. k + 1 \in 1 .. Len(ss)
        OBVIOUS
      <3> QED
        BY <3>1, ElementOfSeq
    <2>3. last \in Seq(T)
      <3>1. CASE k = 0
        BY <2>2, <3>1
      <3>2. CASE k # 0
        <4>1. f[k] \in Seq(T)
          BY <3>2
        <4> QED
          BY <2>2, <3>2, <4>1, ConcatProperties
      <3> QED
        BY <3>1, <3>2
    <2> HIDE DEF last
    <2>4. g \in [1 .. k + 1 -> Seq(T)]
      BY <2>3
    <2>5. Flattens(g, ss, k + 1)
      <3> SUFFICES ASSUME NEW i \in 1 .. k + 1
                   PROVE  /\ i = 1 => g[i] = ss[i]
                          /\ i # 1 => g[i] = g[i - 1] \o ss[i]
        BY DEF Flattens
      <3>1. CASE i = k + 1 /\ k = 0
        BY <3>1 DEF last
      <3>2. CASE i = k + 1 /\ k # 0
        <4>1. g[i] = last /\ g[i - 1] = f[k] /\ i # 1
          BY <3>2
        <4>2. last = f[k] \o ss[i]
          BY <3>2 DEF last
        <4> HIDE DEF g
        <4> QED
          BY <4>1, <4>2, Zenon
      <3>3. CASE i # k + 1
        <4>1. i \in 1 .. k /\ g[i] = f[i] /\ (i # 1 => g[i - 1] = f[i - 1])
          BY <3>3
        <4>2. /\ i = 1 => f[i] = ss[i]
              /\ i # 1 => f[i] = f[i - 1] \o ss[i]
          BY <2>1, <4>1 DEF Flattens
        <4> HIDE DEF g
        <4> QED
          BY <4>1, <4>2, Zenon
      <3> QED
        BY <3>1, <3>2, <3>3
    <2> QED
      BY <2>4, <2>5
  <1> HIDE DEF P
  <1>3. Nat \subseteq P
    BY <1>1, <1>2, Inductive
  <1> QED
    BY <1>3 DEF P

\* Along the same sequences there is only one way.
LEMMA FlattensUnique ==
    ASSUME NEW ss, NEW tt, NEW f, NEW g, NEW n \in Nat, NEW l \in 0 .. n,
           Flattens(f, ss, l), Flattens(g, tt, n),
           SameUpTo(ss, tt, l)
    PROVE  SameUpTo(f, g, l)
  <1> DEFINE P == {k \in Nat : k \in 1 .. l => f[k] = g[k]}
  <1>1. 0 \in P
    OBVIOUS
  <1>2. ASSUME NEW k \in Nat, k \in P
        PROVE  k + 1 \in P
    <2> SUFFICES ASSUME NEW j \in 1 .. l, j = k + 1
                 PROVE  f[j] = g[j]
      OBVIOUS
    <2>1. j \in 1 .. n
      OBVIOUS
    <2>2. ss[j] = tt[j]
      BY DEF SameUpTo
    <2>3. /\ j = 1 => f[j] = ss[j]
          /\ j # 1 => f[j] = f[j - 1] \o ss[j]
      BY Zenon DEF Flattens
    <2>4. /\ j = 1 => g[j] = tt[j]
          /\ j # 1 => g[j] = g[j - 1] \o tt[j]
      BY <2>1, Zenon DEF Flattens
    <2>5. j # 1 => f[j - 1] = g[j - 1]
      BY <1>2
    <2> QED
      BY <2>2, <2>3, <2>4, <2>5, Zenon
  <1> HIDE DEF P
  <1>3. Nat \subseteq P
    BY <1>1, <1>2, Inductive
  <1> QED
    BY <1>3 DEF P, SameUpTo

\* FlattenSeq is where such a function ends.
LEMMA FlattenIs ==
    ASSUME NEW T, NEW ss \in Seq(Seq(T)), Len(ss) # 0,
           NEW f \in [1 .. Len(ss) -> Seq(T)], Flattens(f, ss, Len(ss))
    PROVE  FlattenSeq(ss) = f[Len(ss)]
  <1> DEFINE Along(h) == [i \in 1 .. Len(ss) |->
                             IF i = 1 THEN ss[i] ELSE h[i - 1] \o ss[i]]
             g == CHOOSE h : h = Along(h)
  <1>1. FlattenSeq(ss) = g[Len(ss)]
    BY EmptySeq, Zenon DEF FlattenSeq
  <1>2. f = Along(f)
    <2>1. ASSUME NEW i \in 1 .. Len(ss)
          PROVE  f[i] = Along(f)[i]
      BY Zenon DEF Flattens
    <2> QED
      BY <2>1
  <1>3. g = Along(g)
    BY <1>2, Zenon
  <1> HIDE DEF g
  <1>4. Flattens(g, ss, Len(ss))
    BY <1>3 DEF Flattens
  <1>5. /\ Len(ss) \in Nat /\ Len(ss) \in 1 .. Len(ss)
        /\ Len(ss) \in 0 .. Len(ss) /\ SameUpTo(ss, ss, Len(ss))
    BY DEF SameUpTo
  <1>6. SameUpTo(f, g, Len(ss))
    BY <1>4, <1>5, FlattensUnique
  <1> QED
    BY <1>1, <1>5, <1>6 DEF SameUpTo

\* Nothing flattens to nothing.
LEMMA FlattenEmpty == FlattenSeq(<<>>) = <<>>
  BY DEF FlattenSeq

\* What is flattened is a sequence of what the sequences hold.
LEMMA FlattenType ==
    ASSUME NEW T, NEW ss \in Seq(Seq(T))
    PROVE  FlattenSeq(ss) \in Seq(T)
  <1>1. CASE Len(ss) = 0
    <2>1. ss = <<>>
      BY <1>1, EmptySeq
    <2> QED
      BY <2>1, FlattenEmpty, EmptySeq
  <1>2. CASE Len(ss) # 0
    <2>1. PICK f \in [1 .. Len(ss) -> Seq(T)] : Flattens(f, ss, Len(ss))
      <3>1. Len(ss) \in 0 .. Len(ss)
        OBVIOUS
      <3> QED
        BY <3>1, FlattensExists
    <2>2. FlattenSeq(ss) = f[Len(ss)] /\ Len(ss) \in 1 .. Len(ss)
      BY <1>2, <2>1, FlattenIs
    <2> QED
      BY <2>1, <2>2
  <1> QED
    BY <1>1, <1>2

\* One sequence more is put behind what the others flatten to.
LEMMA FlattenAppend ==
    ASSUME NEW T, NEW ss \in Seq(Seq(T)), NEW s \in Seq(T)
    PROVE  FlattenSeq(Append(ss, s)) = FlattenSeq(ss) \o s
  <1> SUFFICES ASSUME NEW tt, tt = Append(ss, s),
                      NEW n, n = Len(ss), NEW m, m = Len(tt)
               PROVE  FlattenSeq(tt) = FlattenSeq(ss) \o s
    BY Zenon
  <1>1. /\ tt \in Seq(Seq(T)) /\ n \in Nat /\ m = n + 1
        /\ tt[m] = s /\ \A i \in 1 .. n : ss[i] = tt[i]
    BY AppendProperties
  <1>2. PICK g \in [1 .. m -> Seq(T)] : Flattens(g, tt, m)
    <2>1. m \in 0 .. Len(tt)
      BY <1>1
    <2> QED
      BY <1>1, <2>1, FlattensExists
  <1>3. FlattenSeq(tt) = g[m]
    <2>1. Len(tt) # 0
      BY <1>1
    <2>2. g \in [1 .. Len(tt) -> Seq(T)] /\ Flattens(g, tt, Len(tt))
      BY <1>1, <1>2, Zenon
    <2>3. FlattenSeq(tt) = g[Len(tt)]
      BY <1>1, <2>1, <2>2, FlattenIs, Zenon
    <2> QED
      BY <1>1, <2>3, Zenon
  <1>4. /\ m = 1 => g[m] = tt[m]
        /\ m # 1 => g[m] = g[m - 1] \o tt[m]
    <2>1. m \in 1 .. m
      BY <1>1
    <2> QED
      BY <1>2, <2>1, Zenon DEF Flattens
  <1>5. CASE n = 0
    <2>1. ss = <<>>
      BY <1>5, EmptySeq
    <2>2. FlattenSeq(ss) \o s = s
      BY <2>1, FlattenEmpty, ConcatEmptySeq
    <2>3. m = 1
      BY <1>1, <1>5
    <2> QED
      BY <1>1, <1>3, <1>4, <2>2, <2>3, Zenon
  <1>6. CASE n # 0
    <2>1. PICK f \in [1 .. n -> Seq(T)] : Flattens(f, ss, n)
      <3>1. n \in 0 .. Len(ss)
        BY <1>1
      <3> QED
        BY <3>1, FlattensExists
    <2>2. FlattenSeq(ss) = f[n]
      BY <1>6, <2>1, FlattenIs
    <2>3. SameUpTo(f, g, n)
      <3>1. n \in 0 .. m /\ m \in Nat
        BY <1>1
      <3>2. SameUpTo(ss, tt, n)
        BY <1>1 DEF SameUpTo
      <3> QED
        BY <1>2, <2>1, <3>1, <3>2, FlattensUnique
    <2>4. f[n] = g[m - 1] /\ m # 1
      BY <1>1, <1>6, <2>3 DEF SameUpTo
    <2> QED
      BY <1>1, <1>3, <1>4, <2>2, <2>4, Zenon
  <1> QED
    BY <1>5, <1>6

-----------------------------------------------------------------------------

\* The units of the first sequence stay where they are when a second follows.
LEMMA ConcatFirst ==
    ASSUME NEW T, NEW s \in Seq(T), NEW t \in Seq(T), NEW i \in 1 .. Len(s)
    PROVE  (s \o t)[i] = s[i]
  <1>1. Len(s) \in Nat /\ Len(t) \in Nat
    OBVIOUS
  <1> QED
    BY <1>1, ConcatProperties

\* The units of the second stand behind those of the first.
LEMMA ConcatSecond ==
    ASSUME NEW T, NEW s \in Seq(T), NEW t \in Seq(T), NEW i \in 1 .. Len(t)
    PROVE  (s \o t)[Len(s) + i] = t[i]
  <1>1. Len(s) \in Nat /\ Len(t) \in Nat
    OBVIOUS
  <1>2. PICK j \in Nat : j = Len(s) + i
    BY <1>1
  <1>3. j \in 1 .. Len(s) + Len(t) /\ ~(j <= Len(s)) /\ j - Len(s) = i
    BY <1>1, <1>2
  <1>4. (s \o t)[j] = t[j - Len(s)]
    BY <1>1, <1>3, ConcatProperties
  <1> QED
    BY <1>2, <1>3, <1>4, Zenon

\* Putting together, under a name of its own for the provers.
Cat(s, t) == s \o t

\* Putting together does not care for brackets.
LEMMA Associative ==
    ASSUME NEW T, NEW s, NEW t, NEW u,
           s \in Seq(T), t \in Seq(T), u \in Seq(T)
    PROVE  Cat(Cat(s, t), u) = Cat(s, Cat(t, u))
  <1>1. (s \o t) \o u = s \o (t \o u)
    BY ConcatAssociative
  <1> QED
    BY <1>1, Zenon DEF Cat

\* A function on 1 .. m is a sequence of length m.
LEMMA FunctionIsSeq ==
    ASSUME NEW T, NEW m \in Nat, NEW f \in [1 .. m -> T]
    PROVE  f \in Seq(T) /\ Len(f) = m
  OBVIOUS

\* What is taken off the front of a sequence and what is left make it up.
LEMMA SplitSeq ==
    ASSUME NEW T, NEW s \in Seq(T), NEW m \in 0 .. Len(s)
    PROVE  SubSeq(s, 1, m) \o SubSeq(s, m + 1, Len(s)) = s
  <1>1. Len(s) \in Nat
    OBVIOUS
  <1>2. /\ 1 \in 1 .. Len(s) + 1 /\ m \in 1 - 1 .. Len(s)
        /\ Len(s) \in m .. Len(s)
    BY <1>1
  <1>3. SubSeq(s, 1, m) \o SubSeq(s, m + 1, Len(s)) = SubSeq(s, 1, Len(s))
    BY <1>2, ConcatAdjacentSubSeq
  <1> QED
    BY <1>3, SubSeqFull

\* A sequence up to some place.
LEMMA PrefixType ==
    ASSUME NEW T, NEW s \in Seq(T), NEW k \in Nat, k <= Len(s)
    PROVE  SubSeq(s, 1, k) \in Seq(T)
  <1>1. Len(s) \in Nat
    OBVIOUS
  <1>2. \A i \in 1 .. k : s[i] \in T
    BY <1>1, ElementOfSeq
  <1> QED
    BY <1>1, <1>2

\* The sequences up to the next, flattened.
LEMMA FlattenNext ==
    ASSUME NEW T, NEW ss \in Seq(Seq(T)), NEW k \in Nat, NEW m \in Nat,
           m = k + 1, m <= Len(ss)
    PROVE  FlattenSeq(SubSeq(ss, 1, m)) = FlattenSeq(SubSeq(ss, 1, k)) \o ss[m]
  <1>1. m \in 1 .. Len(ss) /\ Len(ss) \in Nat
    OBVIOUS
  <1>2. ss[m] \in Seq(T)
    BY <1>1, ElementOfSeq
  <1>3. /\ SubSeq(ss, 1, k) \in Seq(Seq(T)) /\ Len(SubSeq(ss, 1, k)) = k
        /\ \A i \in 1 .. k : SubSeq(ss, 1, k)[i] = ss[i]
    <2>1. \A i \in 1 .. k : ss[i] \in Seq(T)
      BY <1>1, ElementOfSeq
    <2> QED
      BY <1>1, <2>1
  <1>4. /\ SubSeq(ss, 1, m) \in Seq(Seq(T)) /\ Len(SubSeq(ss, 1, m)) = m
        /\ \A i \in 1 .. m : SubSeq(ss, 1, m)[i] = ss[i]
    <2>1. \A i \in 1 .. m : ss[i] \in Seq(T)
      BY <1>1, ElementOfSeq
    <2> QED
      BY <1>1, <2>1
  <1>5. PICK tt \in Seq(Seq(T)) : tt = Append(SubSeq(ss, 1, k), ss[m])
    BY <1>2, <1>3, AppendProperties
  <1>6. Len(tt) = m /\ tt[m] = ss[m] /\ \A i \in 1 .. k : tt[i] = ss[i]
    BY <1>2, <1>3, <1>5, AppendProperties
  <1>7. \A i \in 1 .. m : SubSeq(ss, 1, m)[i] = tt[i]
    BY <1>4, <1>6
  <1>8. SubSeq(ss, 1, m) = tt
    BY <1>4, <1>6, <1>7, SeqEqual
  <1> QED
    BY <1>2, <1>3, <1>5, <1>8, FlattenAppend, Zenon

\* A part of a sequence.
LEMMA Between ==
    ASSUME NEW T, NEW s \in Seq(T), NEW a \in Nat, NEW b \in Nat, a <= b,
           b <= Len(s)
    PROVE  /\ SubSeq(s, a + 1, b) \in Seq(T) /\ Len(SubSeq(s, a + 1, b)) = b - a
           /\ \A i \in 1 .. b - a : a + i \in 1 .. Len(s)
           /\ \A i \in 1 .. b - a : SubSeq(s, a + 1, b)[i] = s[a + i]
  <1>1. Len(s) \in Nat
    OBVIOUS
  <1>2. \A i \in 1 .. b - a : a + i \in 1 .. Len(s)
    BY <1>1
  <1>3. \A i \in a + 1 .. b : s[i] \in T
    BY <1>1, ElementOfSeq
  <1>4. SubSeq(s, a + 1, b) \in Seq(T)
    BY <1>1, <1>3
  <1>5. Len(SubSeq(s, a + 1, b)) = b - a
    BY <1>1
  <1>6. \A i \in 1 .. b - a : SubSeq(s, a + 1, b)[i] = s[a + i]
    BY <1>1
  <1> QED
    BY <1>2, <1>4, <1>5, <1>6, Zenon

\* What is left of a sequence behind some place.
LEMMA RestType ==
    ASSUME NEW T, NEW s \in Seq(T), NEW m \in Nat, m <= Len(s)
    PROVE  /\ SubSeq(s, m + 1, Len(s)) \in Seq(T)
           /\ Len(SubSeq(s, m + 1, Len(s))) = Len(s) - m
           /\ \A i \in 1 .. Len(s) - m : /\ m + i \in 1 .. Len(s)
                                        /\ SubSeq(s, m + 1, Len(s))[i] = s[m + i]
  <1>1. PICK l \in Nat : l = Len(s)
    OBVIOUS
  <1> QED
    BY <1>1, Between

\* Sequences of one flatten to the sequence of what they have.
LEMMA FlattenOnes ==
    ASSUME NEW m \in Nat, NEW g \in [1 .. m -> Nat],
           NEW ss, ss = [i \in 1 .. m |-> <<g[i]>>]
    PROVE  g \in Seq(Nat) /\ Len(g) = m /\ FlattenSeq(ss) = g
  <1>1. g \in Seq(Nat) /\ Len(g) = m
    BY FunctionIsSeq
  <1>2. ss \in Seq(Seq(Nat)) /\ Len(ss) = m
    <2>1. ss \in [1 .. m -> Seq(Nat)]
      OBVIOUS
    <2> QED
      BY <2>1, FunctionIsSeq
  <1>3. CASE m = 0
    <2>1. ss = <<>> /\ g = <<>>
      BY <1>1, <1>2, <1>3, EmptySeq
    <2> QED
      BY <1>1, <2>1, FlattenEmpty, Zenon
  <1>4. CASE m # 0
    <2> DEFINE f == [i \in 1 .. m |-> SubSeq(g, 1, i)]
    <2>1. \A i \in 1 .. m : /\ SubSeq(g, 1, i) \in Seq(Nat)
                            /\ Len(SubSeq(g, 1, i)) = i
                            /\ \A j \in 1 .. i : SubSeq(g, 1, i)[j] = g[j]
      <3> SUFFICES ASSUME NEW i \in 1 .. m
                   PROVE  /\ SubSeq(g, 1, i) \in Seq(Nat)
                          /\ Len(SubSeq(g, 1, i)) = i
                          /\ \A j \in 1 .. i : SubSeq(g, 1, i)[j] = g[j]
        OBVIOUS
      <3>1. i \in Nat /\ i <= Len(g)
        BY <1>1
      <3>2. SubSeq(g, 1, i) \in Seq(Nat)
        BY <1>1, <3>1, PrefixType
      <3> QED
        BY <1>1, <3>1, <3>2
    <2>2. f \in [1 .. m -> Seq(Nat)]
      BY <2>1
    <2>3. \A i \in 1 .. m : f[i] = SubSeq(g, 1, i)
      OBVIOUS
    <2> HIDE DEF f
    <2>4. ASSUME NEW i \in 1 .. m
          PROVE  /\ i = 1 => f[i] = ss[i]
                 /\ i # 1 => f[i] = f[i - 1] \o ss[i]
      <3>1. PICK p \in Seq(Nat) : /\ p = f[i] /\ Len(p) = i
                                  /\ \A j \in 1 .. i : p[j] = g[j]
        BY <2>1, <2>3, Zenon
      <3>2. PICK o \in Seq(Nat) : o = ss[i] /\ Len(o) = 1 /\ o[1] = g[i]
        <4>1. <<g[i]>> \in Seq(Nat) /\ Len(<<g[i]>>) = 1 /\ <<g[i]>>[1] = g[i]
          OBVIOUS
        <4>2. ss[i] = <<g[i]>>
          OBVIOUS
        <4> QED
          BY <4>1, <4>2, Zenon
      <3>3. CASE i = 1
        <4>1. Len(p) = Len(o) /\ \A j \in 1 .. Len(p) : p[j] = o[j]
          BY <3>1, <3>2, <3>3
        <4>2. p = o
          BY <4>1, SeqEqual
        <4> QED
          BY <3>1, <3>2, <3>3, <4>2, Zenon
      <3>4. CASE i # 1
        <4>1. PICK k \in 1 .. m : k = i - 1 /\ i = k + 1
          BY <3>4
        <4>2. PICK q \in Seq(Nat) : /\ q = f[k] /\ Len(q) = k
                                    /\ \A j \in 1 .. k : q[j] = g[j]
          BY <2>1, <2>3, Zenon
        <4>3. PICK u \in Seq(Nat) : u = q \o o
          BY ConcatProperties
        <4>4. /\ Len(u) = k + 1
              /\ \A j \in 1 .. k : u[j] = q[j]
              /\ \A j \in 1 .. 1 : u[k + j] = o[j]
          <5>1. /\ Len(q \o o) = Len(q) + Len(o)
                /\ \A j \in 1 .. Len(q) : (q \o o)[j] = q[j]
                /\ \A j \in 1 .. Len(o) : (q \o o)[Len(q) + j] = o[j]
            BY ConcatProperties, ConcatFirst, ConcatSecond
          <5> QED
            BY <3>2, <4>2, <4>3, <5>1, Zenon
        <4>5. ASSUME NEW j \in 1 .. k + 1
              PROVE  u[j] = p[j]
          <5>1. j \in 1 .. i
            BY <4>1
          <5>2. CASE j = k + 1
            <6>1. 1 \in 1 .. 1
              OBVIOUS
            <6> QED
              BY <3>1, <3>2, <4>1, <4>4, <5>1, <5>2, <6>1, Zenon
          <5>3. CASE j # k + 1
            <6>1. j \in 1 .. k
              BY <5>3
            <6> QED
              BY <3>1, <4>2, <4>4, <5>1, <6>1, Zenon
          <5> QED
            BY <5>2, <5>3
        <4>6. u = p
          <5>1. Len(u) = Len(p) /\ \A j \in 1 .. Len(u) : u[j] = p[j]
            BY <3>1, <4>1, <4>4, <4>5
          <5> QED
            BY <5>1, SeqEqual
        <4> QED
          BY <3>1, <3>2, <3>4, <4>1, <4>2, <4>3, <4>6, Zenon
      <3> QED
        BY <3>3, <3>4
    <2>5. Flattens(f, ss, m)
      BY <2>4, Zenon DEF Flattens
    <2>6. FlattenSeq(ss) = f[m]
      BY <1>2, <1>4, <2>2, <2>5, FlattenIs
    <2>7. f[m] = g
      <3>1. m \in 1 .. m
        BY <1>4
      <3>2. PICK p \in Seq(Nat) : /\ p = f[m] /\ Len(p) = m
                                  /\ \A j \in 1 .. m : p[j] = g[j]
        BY <2>1, <2>3, <3>1, Zenon
      <3>3. p = g
        BY <1>1, <3>2, SeqEqual
      <3> QED
        BY <3>2, <3>3
    <2> QED
      BY <1>1, <2>6, <2>7, Zenon
  <1> QED
    BY <1>3, <1>4

-----------------------------------------------------------------------------

\* The greatest of the numbers up to k, and what is left without it.
LEMMA GreatestUpto ==
    ASSUME NEW k \in Nat, NEW s \in SUBSET (1 .. k), k \in s
    PROVE  Max(s) = k
  <1>1. \A y \in s : k >= y
    OBVIOUS
  <1>2. \A x \in s : (\A y \in s : x >= y) => x = k
    OBVIOUS
  <1> QED
    BY <1>1, <1>2, Zenon DEF Max

\* The greatest of a set without the last number is one of the numbers before.
LEMMA GreatestIn ==
    ASSUME NEW k \in Nat, NEW s \in SUBSET (1 .. k), s # {}
    PROVE  Max(s) \in s
  <1> DEFINE T == {k - x : x \in s}
  <1>1. T \subseteq Nat /\ T # {}
    <2>1. \A x \in s : x \in Int /\ k - x \in Nat
      OBVIOUS
    <2> QED
      BY <2>1
  <1>2. PICK d \in T : \A e \in T : d <= e
    BY <1>1, LeastMember
  <1>3. PICK x \in s : d = k - x
    BY <1>2
  <1>4. \A y \in s : x >= y
    <2> SUFFICES ASSUME NEW y \in s
                 PROVE  x >= y
      OBVIOUS
    <2>1. k - x <= k - y
      BY <1>2, <1>3
    <2> QED
      BY <2>1
  <1> QED
    BY <1>3, <1>4, Zenon DEF Max

\* h folds F over the sets of numbers, the greatest last.
Folds(h, F, base, n) ==
    \A s \in SUBSET (1 .. n) :
        h[s] = IF s = {} THEN base ELSE F[<<h[s \ {Max(s)}], Max(s)>>]

\* There is such a function for every F.
LEMMA FoldExists ==
    ASSUME NEW V, NEW base \in V, NEW n \in Nat, NEW F \in [V \X (1 .. n) -> V]
    PROVE  \E h \in [SUBSET (1 .. n) -> V] : Folds(h, F, base, n)
  <1> DEFINE Q(k) == \E h \in [SUBSET (1 .. k) -> V] : Folds(h, F, base, k)
             P    == {k \in Nat : k <= n => Q(k)}
  <1> HIDE DEF Q
  <1>1. 0 \in P
    <2>1. 1 .. 0 = {} /\ SUBSET (1 .. 0) = {{}}
      OBVIOUS
    <2>2. PICK h : h = [s \in SUBSET (1 .. 0) |-> base]
      OBVIOUS
    <2>3. h \in [SUBSET (1 .. 0) -> V]
      BY <2>2
    <2>4. Folds(h, F, base, 0)
      BY <2>1, <2>2 DEF Folds
    <2>5. Q(0)
      BY <2>3, <2>4, Zenon DEF Q
    <2> QED
      BY <2>5
  <1>2. ASSUME NEW k \in Nat, k \in P
        PROVE  k + 1 \in P
    <2> SUFFICES ASSUME NEW m \in Nat, m = k + 1, m <= n
                 PROVE  Q(m)
      OBVIOUS
    <2>1. PICK h \in [SUBSET (1 .. k) -> V] : Folds(h, F, base, k)
      <3>1. Q(k)
        BY <1>2
      <3> QED
        BY <3>1, Zenon DEF Q
    <2> DEFINE g == [s \in SUBSET (1 .. m) |->
                        IF m \in s THEN F[<<h[s \ {m}], m>>] ELSE h[s]]
    <2>2. ASSUME NEW s \in SUBSET (1 .. m)
          PROVE  /\ s \ {m} \in SUBSET (1 .. k)
                 /\ m \notin s => s \in SUBSET (1 .. k)
      OBVIOUS
    <2>3. g \in [SUBSET (1 .. m) -> V]
      <3>1. ASSUME NEW s \in SUBSET (1 .. m)
            PROVE  g[s] \in V
        <4>1. CASE m \in s
          <5>1. h[s \ {m}] \in V /\ m \in 1 .. n
            BY <2>2
          <5> QED
            BY <4>1, <5>1
        <4>2. CASE m \notin s
          BY <2>2, <4>2
        <4> QED
          BY <4>1, <4>2
      <3> QED
        BY <3>1
    <2>4. ASSUME NEW s \in SUBSET (1 .. m)
          PROVE  g[s] = IF s = {} THEN base ELSE F[<<g[s \ {Max(s)}], Max(s)>>]
      <3>1. CASE m \in s
        <4>1. Max(s) = m
          BY <3>1, GreatestUpto
        <4>2. g[s \ {m}] = h[s \ {m}]
          BY <2>2
        <4>3. g[s] = F[<<h[s \ {m}], m>>]
          BY <3>1
        <4> HIDE DEF g
        <4> QED
          BY <3>1, <4>1, <4>2, <4>3, Zenon
      <3>2. CASE m \notin s
        <4>1. s \in SUBSET (1 .. k) /\ g[s] = h[s]
          BY <2>2, <3>2
        <4>2. h[s] = IF s = {} THEN base ELSE F[<<h[s \ {Max(s)}], Max(s)>>]
          BY <2>1, <4>1, Zenon DEF Folds
        <4>3. s \ {Max(s)} \in SUBSET (1 .. m) /\ m \notin s \ {Max(s)}
          BY <3>2
        <4>4. g[s \ {Max(s)}] = h[s \ {Max(s)}]
          BY <4>3
        <4> HIDE DEF g
        <4> QED
          BY <4>1, <4>2, <4>4, Zenon
      <3> QED
        BY <3>1, <3>2
    <2>5. Folds(g, F, base, m)
      <3> HIDE DEF g
      <3> QED
        BY <2>4, Zenon DEF Folds
    <2> HIDE DEF g
    <2> QED
      BY <2>3, <2>5, Zenon DEF Q
  <1>3. Q(n)
    <2> HIDE DEF P
    <2>1. Nat \subseteq P
      BY <1>1, <1>2, Inductive
    <2> QED
      BY <2>1 DEF P
  <1> QED
    BY <1>3, Zenon DEF Q

-----------------------------------------------------------------------------

\* The first of the sequences, and the others flattened.
LEMMA FlattenCons ==
    ASSUME NEW T, NEW ss \in Seq(Seq(T)), ss # <<>>
    PROVE  FlattenSeq(ss) = Head(ss) \o FlattenSeq(Tail(ss))
  <1>1. PICK t \in Seq(Seq(T)), n \in Nat :
            /\ t = Tail(ss) /\ n = Len(t) /\ Len(ss) = n + 1
            /\ \A k \in 1 .. n : t[k] = ss[k + 1]
    <2>1. /\ Tail(ss) \in Seq(Seq(T)) /\ Len(Tail(ss)) = Len(ss) - 1
          /\ \A k \in 1 .. Len(Tail(ss)) : Tail(ss)[k] = ss[k + 1]
      BY HeadTailProperties
    <2>2. PICK t \in Seq(Seq(T)) : t = Tail(ss)
      BY <2>1, Zenon
    <2>3. /\ Len(t) = Len(ss) - 1
          /\ \A k \in 1 .. Len(t) : t[k] = ss[k + 1]
      BY <2>1, <2>2, Zenon
    <2>4. PICK n \in Nat : n = Len(t) /\ Len(ss) = n + 1
      BY <2>3
    <2> QED
      BY <2>2, <2>3, <2>4, Zenon
  <1>2. PICK h \in Seq(T) : h = Head(ss) /\ h = ss[1]
    BY <1>1, HeadTailProperties
  <1> DEFINE S(k) == FlattenSeq(SubSeq(ss, 1, k))
             R(k) == FlattenSeq(SubSeq(t, 1, k))
             P    == {k \in Nat : k <= n => S(k + 1) = h \o R(k)}
  <1>3. \A k \in Nat : k <= n => R(k) \in Seq(T)
    <2> SUFFICES ASSUME NEW k \in Nat, k <= n PROVE R(k) \in Seq(T)
      OBVIOUS
    <2>1. SubSeq(t, 1, k) \in Seq(Seq(T))
      BY <1>1, PrefixType
    <2> QED
      BY <2>1, FlattenType
  <1>4. \A k \in Nat : k <= n => S(k + 1) = S(k) \o ss[k + 1]
    <2> SUFFICES ASSUME NEW k \in Nat, k <= n PROVE S(k + 1) = S(k) \o ss[k + 1]
      OBVIOUS
    <2>1. PICK m \in Nat : m = k + 1 /\ m <= Len(ss)
      BY <1>1
    <2>2. S(m) = S(k) \o ss[m]
      BY <2>1, FlattenNext
    <2> QED
      BY <2>1, <2>2, Zenon
  <1>5. \A k \in Nat : k + 1 <= n => R(k + 1) = R(k) \o t[k + 1]
    <2> SUFFICES ASSUME NEW k \in Nat, k + 1 <= n PROVE R(k + 1) = R(k) \o t[k + 1]
      OBVIOUS
    <2>1. PICK m \in Nat : m = k + 1 /\ m <= Len(t)
      BY <1>1
    <2>2. R(m) = R(k) \o t[m]
      BY <1>1, <2>1, FlattenNext
    <2> QED
      BY <2>1, <2>2, Zenon
  <1>6. S(0) = <<>> /\ R(0) = <<>>
    <2>1. SubSeq(ss, 1, 0) = <<>> /\ SubSeq(t, 1, 0) = <<>>
      BY <1>1
    <2> QED
      BY <2>1, FlattenEmpty, Zenon
  <1>7. S(n + 1) = FlattenSeq(ss) /\ R(n) = FlattenSeq(t)
    <2>1. SubSeq(ss, 1, n + 1) = ss /\ SubSeq(t, 1, n) = t
      BY <1>1, SubSeqFull
    <2> QED
      BY <2>1, Zenon
  <1> HIDE DEF S, R
  <1>8. 0 \in P
    <2>1. S(1) = <<>> \o ss[1]
      <3>1. 0 <= n /\ 0 + 1 = 1
        OBVIOUS
      <3>2. S(0 + 1) = S(0) \o ss[0 + 1]
        BY <1>4, <3>1, Zenon
      <3> QED
        BY <1>6, <3>1, <3>2, Zenon
    <2>2. <<>> \o h = h /\ h \o <<>> = h
      BY ConcatEmptySeq
    <2>3. S(1) = h \o R(0)
      BY <1>2, <1>6, <2>1, <2>2, Zenon
    <2> QED
      BY <2>3
  <1>9. ASSUME NEW k \in Nat, k \in P
        PROVE  k + 1 \in P
    <2> SUFFICES ASSUME k + 1 <= n PROVE S(k + 1 + 1) = h \o R(k + 1)
      OBVIOUS
    <2>1. S(k + 1) = h \o R(k) /\ R(k) \in Seq(T)
      BY <1>3, <1>9
    <2>2. S(k + 1 + 1) = S(k + 1) \o ss[k + 1 + 1]
      <3>1. k + 1 \in Nat
        OBVIOUS
      <3> QED
        BY <1>4, <3>1, Zenon
    <2>3. R(k + 1) = R(k) \o t[k + 1]
      BY <1>5
    <2>4. ss[k + 1 + 1] = t[k + 1] /\ k + 1 \in 1 .. Len(t)
      BY <1>1
    <2>5. t[k + 1] \in Seq(T)
      BY <2>4, ElementOfSeq
    <2>6. (h \o R(k)) \o t[k + 1] = h \o (R(k) \o t[k + 1])
      <3>1. PICK x \in Seq(T), y \in Seq(T) : x = R(k) /\ y = t[k + 1]
        BY <2>1, <2>5, Zenon
      <3>2. (h \o x) \o y = h \o (x \o y)
        <4>1. Cat(Cat(h, x), y) = Cat(h, Cat(x, y))
          BY Associative
        <4> QED
          BY <4>1, Zenon DEF Cat
      <3> QED
        BY <3>1, <3>2, Zenon
    <2> QED
      BY <2>1, <2>2, <2>3, <2>4, <2>6, Zenon
  <1> HIDE DEF P
  <1>10. Nat \subseteq P
    BY <1>8, <1>9, Inductive
  <1>11. n \in P
    BY <1>10
  <1>12. S(n + 1) = h \o R(n)
    BY <1>11 DEF P
  <1> QED
    BY <1>1, <1>2, <1>7, <1>12, Zenon

\* Where the units of s and t, of the lengths m and n, stand in u.
Joins(u, m, n, s, t) ==
    /\ DOMAIN u = 1 .. m + n /\ DOMAIN s = 1 .. m /\ DOMAIN t = 1 .. n
    /\ \A i \in 1 .. m : u[i] = s[i]
    /\ \A i \in 1 .. n : u[m + i] = t[i]
    /\ \A k \in 1 .. m + n : k \in 1 .. m \/ \E i \in 1 .. n : k = m + i

\* That is where they stand in the two together.
LEMMA ConcatJoins ==
    ASSUME NEW T, NEW s \in Seq(T), NEW t \in Seq(T)
    PROVE  \E m \in Nat, n \in Nat : Joins(s \o t, m, n, s, t)
  <1>1. PICK m \in Nat, n \in Nat : m = Len(s) /\ n = Len(t)
    OBVIOUS
  <1>2. DOMAIN (s \o t) = 1 .. m + n
    BY <1>1
  <1>3. DOMAIN s = 1 .. m /\ DOMAIN t = 1 .. n
    BY <1>1
  <1>4. ASSUME NEW k \in 1 .. m + n, k \notin 1 .. m
        PROVE  \E i \in 1 .. n : k = m + i
    <2>1. k - m \in 1 .. n /\ k = m + (k - m)
      BY <1>4
    <2> QED
      BY <2>1, Zenon
  <1>5. \A i \in 1 .. m : (s \o t)[i] = s[i]
    BY <1>1, ConcatFirst
  <1>6. \A i \in 1 .. n : (s \o t)[m + i] = t[i]
    BY <1>1, ConcatSecond
  <1>7. PICK u : u = s \o t
    OBVIOUS
  <1>8. Joins(u, m, n, s, t)
    BY <1>2, <1>3, <1>4, <1>5, <1>6, <1>7, Zenon DEF Joins
  <1> QED
    BY <1>7, <1>8, Zenon

\* What two sequences hold together.
LEMMA ToSetConcat ==
    ASSUME NEW T, NEW s \in Seq(T), NEW t \in Seq(T)
    PROVE  ToSet(s \o t) = ToSet(s) \cup ToSet(t)
  <1>1. PICK u : u = s \o t
    OBVIOUS
  <1>2. PICK m \in Nat, n \in Nat : u = s \o t /\ Joins(u, m, n, s, t)
    <2>1. PICK m \in Nat, n \in Nat : Joins(s \o t, m, n, s, t)
      BY ConcatJoins
    <2> QED
      BY <1>1, <2>1, Zenon
  <1>3. /\ DOMAIN u = 1 .. m + n /\ DOMAIN s = 1 .. m /\ DOMAIN t = 1 .. n
        /\ \A i \in 1 .. m : u[i] = s[i]
        /\ \A i \in 1 .. n : u[m + i] = t[i]
        /\ \A k \in 1 .. m + n :
             k \in 1 .. m \/ \E i \in 1 .. n : k = m + i
    BY <1>2, Zenon DEF Joins
  <1>4. ASSUME NEW x \in ToSet(u) PROVE x \in ToSet(s) \cup ToSet(t)
    <2>1. PICK k \in 1 .. m + n : x = u[k]
      BY <1>3, Zenon DEF ToSet
    <2> QED
      BY <1>3, <2>1, Zenon DEF ToSet
  <1>5. ASSUME NEW x \in ToSet(s) PROVE x \in ToSet(u)
    <2>1. PICK i \in 1 .. m : x = s[i]
      BY <1>3, Zenon DEF ToSet
    <2>2. i \in 1 .. m + n
      OBVIOUS
    <2> QED
      BY <1>3, <2>1, <2>2, Zenon DEF ToSet
  <1>6. ASSUME NEW x \in ToSet(t) PROVE x \in ToSet(u)
    <2>1. PICK i \in 1 .. n : x = t[i]
      BY <1>3, Zenon DEF ToSet
    <2>2. m + i \in 1 .. m + n
      OBVIOUS
    <2> QED
      BY <1>3, <2>1, <2>2, Zenon DEF ToSet
  <1>7. ToSet(u) = ToSet(s) \cup ToSet(t)
    BY <1>4, <1>5, <1>6
  <1> QED
    BY <1>2, <1>7, Zenon

\* Two sequences together hold nothing twice if and only if neither does and
\* they have nothing in common.
LEMMA InjectiveConcat ==
    ASSUME NEW T, NEW s \in Seq(T), NEW t \in Seq(T)
    PROVE  IsInjective(s \o t) <=> /\ IsInjective(s) /\ IsInjective(t)
                                   /\ ToSet(s) \cap ToSet(t) = {}
  <1>1. PICK u : u = s \o t
    OBVIOUS
  <1>2. PICK m \in Nat, n \in Nat : u = s \o t /\ Joins(u, m, n, s, t)
    <2>1. PICK m \in Nat, n \in Nat : Joins(s \o t, m, n, s, t)
      BY ConcatJoins
    <2> QED
      BY <1>1, <2>1, Zenon
  <1>3. /\ DOMAIN u = 1 .. m + n /\ DOMAIN s = 1 .. m /\ DOMAIN t = 1 .. n
        /\ \A i \in 1 .. m : u[i] = s[i]
        /\ \A i \in 1 .. n : u[m + i] = t[i]
        /\ \A k \in 1 .. m + n :
             k \in 1 .. m \/ \E i \in 1 .. n : k = m + i
    BY <1>2, Zenon DEF Joins
  <1>4. \A i \in 1 .. m, j \in 1 .. n :
            i \in 1 .. m + n /\ m + j \in 1 .. m + n /\ i # m + j
    OBVIOUS
  <1>5. ASSUME IsInjective(u)
        PROVE  IsInjective(s) /\ IsInjective(t) /\ ToSet(s) \cap ToSet(t) = {}
    <2>1. \A a \in 1 .. m + n, b \in 1 .. m + n : u[a] = u[b] => a = b
      BY <1>3, <1>5, Zenon DEF IsInjective
    <2>2. ASSUME NEW a \in 1 .. m, NEW b \in 1 .. m, s[a] = s[b] PROVE a = b
      <3>1. a \in 1 .. m + n /\ b \in 1 .. m + n
        OBVIOUS
      <3>2. u[a] = u[b]
        BY <1>3, <2>2, Zenon
      <3> QED
        BY <2>1, <3>1, <3>2, Zenon
    <2>3. ASSUME NEW a \in 1 .. n, NEW b \in 1 .. n, t[a] = t[b] PROVE a = b
      <3>1. m + a \in 1 .. m + n /\ m + b \in 1 .. m + n
        OBVIOUS
      <3>2. u[m + a] = u[m + b]
        BY <1>3, <2>3, Zenon
      <3>3. m + a = m + b
        BY <2>1, <3>1, <3>2, Zenon
      <3> QED
        BY <3>3
    <2>4. ASSUME NEW x, x \in ToSet(s), x \in ToSet(t) PROVE FALSE
      <3>1. PICK i \in 1 .. m, j \in 1 .. n : x = s[i] /\ x = t[j]
        BY <1>3, <2>4, Zenon DEF ToSet
      <3>2. u[i] = u[m + j]
        BY <1>3, <3>1, Zenon
      <3> QED
        BY <1>4, <2>1, <3>2, Zenon
    <2>5. IsInjective(s)
      BY <1>3, <2>2, Zenon DEF IsInjective
    <2>6. IsInjective(t)
      BY <1>3, <2>3, Zenon DEF IsInjective
    <2>7. ToSet(s) \cap ToSet(t) = {}
      BY <2>4
    <2> QED
      BY <2>5, <2>6, <2>7, Zenon
  <1>6. ASSUME IsInjective(s), IsInjective(t), ToSet(s) \cap ToSet(t) = {}
        PROVE  IsInjective(u)
    <2>1. ASSUME NEW i \in 1 .. m, NEW j \in 1 .. n PROVE u[i] # u[m + j]
      <3>1. s[i] \in ToSet(s) /\ t[j] \in ToSet(t)
        BY <1>3, Zenon DEF ToSet
      <3>2. s[i] # t[j]
        BY <1>6, <3>1
      <3> QED
        BY <1>3, <3>2, Zenon
    <2>2. ASSUME NEW a \in 1 .. m + n, NEW b \in 1 .. m + n, u[a] = u[b]
          PROVE  a = b
      <3>1. CASE a \in 1 .. m /\ b \in 1 .. m
        <4>1. s[a] = s[b]
          BY <1>3, <2>2, <3>1, Zenon
        <4> QED
          BY <1>3, <1>6, <3>1, <4>1, Zenon DEF IsInjective
      <3>2. CASE a \in 1 .. m /\ b \notin 1 .. m
        <4>1. PICK i \in 1 .. n : b = m + i
          BY <1>3, <3>2, Zenon
        <4>2. u[a] # u[m + i]
          BY <2>1, <3>2, Zenon
        <4> QED
          BY <2>2, <4>1, <4>2, Zenon
      <3>3. CASE a \notin 1 .. m /\ b \in 1 .. m
        <4>1. PICK i \in 1 .. n : a = m + i
          BY <1>3, <3>3, Zenon
        <4>2. u[b] # u[m + i]
          BY <2>1, <3>3, Zenon
        <4> QED
          BY <2>2, <4>1, <4>2, Zenon
      <3>4. CASE a \notin 1 .. m /\ b \notin 1 .. m
        <4>1. PICK i \in 1 .. n, j \in 1 .. n : a = m + i /\ b = m + j
          BY <1>3, <3>4, Zenon
        <4>2. t[i] = t[j]
          BY <1>3, <2>2, <4>1, Zenon
        <4>3. i = j
          BY <1>3, <1>6, <4>2, Zenon DEF IsInjective
        <4> QED
          BY <4>1, <4>3, Zenon
      <3> QED
        BY <3>1, <3>2, <3>3, <3>4, Zenon
    <2> QED
      BY <1>3, <2>2, Zenon DEF IsInjective
  <1>7. IsInjective(u) <=> /\ IsInjective(s) /\ IsInjective(t)
                           /\ ToSet(s) \cap ToSet(t) = {}
    BY <1>5, <1>6, Zenon
  <1> QED
    BY <1>2, <1>7, Zenon

=============================================================================
