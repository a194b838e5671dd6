--------------------- MODULE EncryptedConnectionProofs ---------------------
(***************************************************************************)
(* What holds of the AEAD framing for blocks, buffers and writes of every  *)
(* size, however much is written, read, cut off or altered.                *)
(*                                                                         *)
(* The stream is described by two functions: the c-th chunk starts behind  *)
(* the S[c]-th unit of the stream and the P[c]-th unit of the plaintext.   *)
(* The writer adds to both; the reader, which knows neither, stands at     *)
(* S[c] with the nonce 2c whenever it has been through c chunks.           *)
(***************************************************************************)
EXTENDS EncryptedConnection, SequenceLemmas, FunctionTheorems,
        FiniteSetTheorems

\* Units of a length, and of the data of the c-th chunk.
LengthSize == 2 + TagSize
DataSize(P, c) == P[c + 1] - P[c]

\* The a-th unit of the salt, of the c-th chunk's length and of its payload.
SaltUnit(a) == [kind |-> "salt", nonce |-> 0, data |-> <<>>, at |-> a]
LengthUnit(P, c, a) ==
    [kind |-> "length", nonce |-> 2 * c, data |-> <<DataSize(P, c)>>, at |-> a]
DataOf(P, c) == [i \in 1 .. DataSize(P, c) |-> P[c] + i]
PayloadUnit(P, c, a) ==
    [kind |-> "payload", nonce |-> 2 * c + 1, data |-> DataOf(P, c), at |-> a]

\* Up to n the starts grow, and between the first and the last every place is
\* in one of the chunks.
Starts(F, n) ==
    /\ \A c \in 0 .. n - 1 : F[c] < F[c + 1]
    /\ \A c, d \in 0 .. n : c <= d => F[c] <= F[d]
    /\ \A v \in F[0] + 1 .. F[n] :
          \E c \in 0 .. n - 1 : F[c] < v /\ v <= F[c + 1]
\* n chunks, the c-th (counted from 0) of which starts behind the S[c]-th unit
\* of the stream and carries the data behind the P[c]-th unit of the plaintext.
Frames(n, S, P) ==
    /\ Starts(S, n) /\ Starts(P, n)
    /\ S[0] = SaltSize /\ P[0] = 0
    /\ \A c \in 0 .. n - 1 :
          /\ DataSize(P, c) <= MaxChunk
          /\ S[c + 1] = S[c] + LengthSize + DataSize(P, c) + TagSize

\* G starts as F does, up to the n-th.
Extending(G, F, n) == \A c \in 0 .. n : G[c] = F[c]

\* One more start, z behind the last, leaves the others where they are.
LEMMA OneMoreStart ==
    ASSUME NEW last \in Nat, NEW step \in Nat, step # 0,
           NEW F \in [Nat -> Nat], Starts(F, last)
    PROVE  \E G \in [Nat -> Nat] : /\ Starts(G, last + 1)
                  /\ G[last + 1] = F[last] + step
                  /\ Extending(G, F, last)
  <1> SUFFICES ASSUME NEW G \in [Nat -> Nat],
                      G = [F EXCEPT ![last + 1] = F[last] + step]
               PROVE  /\ Starts(G, last + 1)
                      /\ G[last + 1] = F[last] + step
                      /\ Extending(G, F, last)
    <2>1. [F EXCEPT ![last + 1] = F[last] + step] \in [Nat -> Nat]
      OBVIOUS
    <2> QED
      BY <2>1, Zenon
  <1>1. F \in [Nat -> Nat]
    OBVIOUS
  <1>2. /\ G \in [Nat -> Nat] /\ G[last + 1] = F[last] + step
        /\ \A c \in 0 .. last : G[c] = F[c]
    BY <1>1
  <1>3. \A c \in 0 .. last + 1 - 1 : G[c] < G[c + 1]
    <2> SUFFICES ASSUME NEW c \in 0 .. last
                 PROVE  G[c] < G[c + 1]
      OBVIOUS
    <2>1. CASE c = last
      BY <1>1, <1>2, <2>1
    <2>2. CASE c # last
      BY <1>1, <1>2, <2>2 DEF Starts
    <2> QED
      BY <2>1, <2>2
  <1>4. \A c, d \in 0 .. last + 1 : c <= d => G[c] <= G[d]
    <2> SUFFICES ASSUME NEW c \in 0 .. last + 1, NEW d \in 0 .. last + 1, c <= d
                 PROVE  G[c] <= G[d]
      OBVIOUS
    <2>1. CASE d \in 0 .. last
      BY <1>1, <1>2, <2>1 DEF Starts
    <2>2. CASE d = last + 1 /\ c = last + 1
      BY <1>2, <2>2
    <2>3. CASE d = last + 1 /\ c \in 0 .. last
      <3>1. F[c] <= F[last] /\ F[c] \in Nat /\ F[last] \in Nat
        BY <1>1, <2>3 DEF Starts
      <3> QED
        BY <1>2, <2>3, <3>1
    <2> QED
      BY <2>1, <2>2, <2>3
  <1>5. ASSUME NEW v \in G[0] + 1 .. G[last + 1]
        PROVE  \E c \in 0 .. last + 1 - 1 : G[c] < v /\ v <= G[c + 1]
    <2>1. G[0] = F[0] /\ F[0] \in Nat /\ F[last] \in Nat
      BY <1>1, <1>2
    <2>2. CASE v <= F[last]
      <3>1. PICK c \in 0 .. last - 1 : F[c] < v /\ v <= F[c + 1]
        BY <2>1, <2>2 DEF Starts
      <3>2. c \in 0 .. last + 1 - 1 /\ G[c] = F[c] /\ G[c + 1] = F[c + 1]
        BY <1>2, <3>1
      <3> QED
        BY <3>1, <3>2
    <2>3. CASE F[last] < v
      <3>1. last \in 0 .. last + 1 - 1 /\ G[last] < v /\ v <= G[last + 1]
        BY <1>2, <2>1, <2>3
      <3> QED
        BY <3>1
    <2> QED
      BY <1>2, <2>1, <2>2, <2>3
  <1> QED
    BY <1>2, <1>3, <1>4, <1>5 DEF Starts, Extending

\* S2 and P2 have one chunk of z units more.
OneMore(n, S, P, z, S2, P2) ==
    /\ S2 \in [Nat -> Nat] /\ P2 \in [Nat -> Nat]
    /\ Frames(n + 1, S2, P2)
    /\ Extending(S2, S, n) /\ Extending(P2, P, n)
    /\ P2[n + 1] = P[n] + z

\* There are such starts.
LEMMA OneMoreFrame ==
    ASSUME NEW n, NEW S, NEW P, NEW z,
           n \in Nat, S \in [Nat -> Nat], P \in [Nat -> Nat],
           z \in 1 .. MaxChunk, Frames(n, S, P)
    PROVE  \E S2, P2 : OneMore(n, S, P, z, S2, P2)
  <1>1. z \in Nat /\ z # 0 /\ LengthSize \in Nat /\ TagSize \in Nat
    BY EncryptedConnectionAssumption DEF LengthSize
  <1>2. PICK y \in Nat : y # 0 /\ y = LengthSize + z + TagSize
    BY <1>1
  <1>3. Starts(S, n) /\ Starts(P, n) /\ y # 0
    BY <1>2 DEF Frames
  <1>4. PICK S2 \in [Nat -> Nat] : /\ Starts(S2, n + 1) /\ S2[n + 1] = S[n] + y
                  /\ Extending(S2, S, n)
    BY <1>3, OneMoreStart
  <1>5. PICK P2 \in [Nat -> Nat] : /\ Starts(P2, n + 1) /\ P2[n + 1] = P[n] + z
                  /\ Extending(P2, P, n)
    BY <1>1, <1>3, OneMoreStart
  <1>6. S \in [Nat -> Nat] /\ P \in [Nat -> Nat]
    OBVIOUS
  <1>7. ASSUME NEW c \in 0 .. n + 1 - 1
        PROVE  /\ DataSize(P2, c) <= MaxChunk
               /\ S2[c + 1] = S2[c] + LengthSize + DataSize(P2, c) + TagSize
    <2>1. CASE c = n
      <3>1. DataSize(P2, c) = z
        BY <1>5, <1>6, <2>1 DEF DataSize, Extending
      <3>2. S2[c + 1] = S[n] + (LengthSize + z + TagSize) /\ S2[c] = S[n]
        BY <1>4, <2>1, <1>2 DEF Extending
      <3>3. S[n] \in Nat
        BY <1>6
      <3> QED
        BY <1>1, <3>1, <3>2, <3>3
    <2>2. CASE c \in 0 .. n - 1
      <3>1. /\ S2[c + 1] = S[c + 1] /\ S2[c] = S[c]
            /\ P2[c + 1] = P[c + 1] /\ P2[c] = P[c]
        BY <1>4, <1>5, <2>2 DEF Extending
      <3>2. DataSize(P2, c) = DataSize(P, c)
        BY <3>1 DEF DataSize
      <3> QED
        BY <2>2, <3>1, <3>2 DEF Frames
    <2> QED
      BY <2>1, <2>2
  <1>8. S2[0] = SaltSize /\ P2[0] = 0
    BY <1>4, <1>5 DEF Frames, Extending
  <1>9. Frames(n + 1, S2, P2)
    BY <1>4, <1>5, <1>7, <1>8 DEF Frames
  <1> QED
    BY <1>4, <1>5, <1>9, Zenon DEF OneMore

-----------------------------------------------------------------------------

\* The units of a block, and how many there are of each kind.
LEMMA BlockUnits ==
    ASSUME NEW kind \in {"salt", "length", "payload"}, NEW m \in Nat,
           NEW data \in Seq(Nat)
    PROVE  /\ Block(kind, m, data) \in Seq(UnitOK)
           /\ BlockSize(kind, data) \in Nat \ {0}
           /\ Len(Block(kind, m, data)) = BlockSize(kind, data)
           /\ \A a \in 1 .. BlockSize(kind, data) :
                 Block(kind, m, data)[a] =
                    [kind |-> kind, nonce |-> m, data |-> data, at |-> a]
  <1>1. BlockSize(kind, data) \in Nat /\ BlockSize(kind, data) # 0
    BY EncryptedConnectionAssumption DEF BlockSize
  <1>2. PICK size \in Nat : size = BlockSize(kind, data)
    BY <1>1
  <1> DEFINE unit(a) == [kind |-> kind, nonce |-> m, data |-> data, at |-> a]
             b == [a \in 1 .. size |-> unit(a)]
  <1>3. Block(kind, m, data) = b
    BY <1>2, Zenon DEF Block
  <1>4. \A a \in 1 .. size : unit(a) \in UnitOK
    BY DEF UnitOK
  <1> HIDE DEF unit
  <1>5. b \in Seq(UnitOK) /\ Len(b) = size /\ \A a \in 1 .. size : b[a] = unit(a)
    BY <1>4
  <1> HIDE DEF b
  <1>6. \A a \in 1 .. size : b[a] =
            [kind |-> kind, nonce |-> m, data |-> data, at |-> a]
    BY <1>5 DEF unit
  <1> QED
    BY <1>1, <1>2, <1>3, <1>5, <1>6, Zenon

\* How many units each kind of block has.
LEMMA BlockSizes ==
    ASSUME NEW data \in Seq(Nat)
    PROVE  /\ BlockSize("salt", data) = SaltSize
           /\ BlockSize("length", data) = LengthSize
           /\ BlockSize("payload", data) = Len(data) + TagSize
  BY DEF BlockSize, LengthSize

\* The salt is SaltSize units, one after the other.
LEMMA SaltUnits ==
    /\ Block("salt", 0, <<>>) \in Seq(UnitOK)
    /\ Len(Block("salt", 0, <<>>)) = SaltSize
    /\ \A a \in 1 .. SaltSize : Block("salt", 0, <<>>)[a] = SaltUnit(a)
  <1>1. PICK data \in Seq(Nat) : data = <<>>
    <2>1. <<>> \in Seq(Nat)
      OBVIOUS
    <2> QED
      BY <2>1, Zenon
  <1>2. "salt" \in {"salt", "length", "payload"} /\ 0 \in Nat
    OBVIOUS
  <1>3. /\ Block("salt", 0, data) \in Seq(UnitOK)
        /\ Len(Block("salt", 0, data)) = BlockSize("salt", data)
        /\ \A a \in 1 .. BlockSize("salt", data) :
              Block("salt", 0, data)[a] =
                 [kind |-> "salt", nonce |-> 0, data |-> data, at |-> a]
    BY <1>2, BlockUnits, Zenon
  <1>4. BlockSize("salt", data) = SaltSize
    BY BlockSizes, Zenon
  <1> QED
    BY <1>1, <1>3, <1>4, Zenon DEF SaltUnit

\* The data of a chunk is a sequence, and what it holds.
LEMMA DataUnits ==
    ASSUME NEW P \in [Nat -> Nat], NEW c \in Nat, DataSize(P, c) \in Nat
    PROVE  /\ DataOf(P, c) \in Seq(Nat) /\ Len(DataOf(P, c)) = DataSize(P, c)
           /\ \A i \in 1 .. DataSize(P, c) : DataOf(P, c)[i] = P[c] + i
  <1>1. PICK z \in Nat : z = DataSize(P, c)
    OBVIOUS
  <1>2. PICK p \in Nat : p = P[c]
    OBVIOUS
  <1> DEFINE f == [i \in 1 .. z |-> p + i]
  <1>3. DataOf(P, c) = f
    BY <1>1, <1>2, Zenon DEF DataOf
  <1>4. f \in [1 .. z -> Nat] /\ \A i \in 1 .. z : f[i] = p + i
    OBVIOUS
  <1> HIDE DEF f
  <1>5. f \in Seq(Nat) /\ Len(f) = z
    BY <1>4, FunctionIsSeq
  <1> QED
    BY <1>1, <1>2, <1>3, <1>4, <1>5, Zenon

\* The units of a chunk.
LEMMA ChunkUnits ==
    ASSUME NEW c \in Nat, NEW P \in [Nat -> Nat], DataSize(P, c) \in Nat
    PROVE  /\ Chunk(2 * c, DataOf(P, c)) \in Seq(UnitOK)
           /\ Len(Chunk(2 * c, DataOf(P, c))) =
                 LengthSize + (DataSize(P, c) + TagSize)
           /\ \A a \in 1 .. LengthSize :
                 Chunk(2 * c, DataOf(P, c))[a] = LengthUnit(P, c, a)
           /\ \A a \in 1 .. DataSize(P, c) + TagSize :
                 Chunk(2 * c, DataOf(P, c))[LengthSize + a] = PayloadUnit(P, c, a)
  <1>1. PICK z \in Nat : z = DataSize(P, c)
    OBVIOUS
  <1>2. PICK b \in Seq(UnitOK) :
            /\ b = Block("length", 2 * c, <<z>>)
            /\ Len(b) = LengthSize
            /\ \A a \in 1 .. LengthSize : b[a] = LengthUnit(P, c, a)
    <2>1. <<z>> \in Seq(Nat) /\ 2 * c \in Nat
      OBVIOUS
    <2>2. BlockSize("length", <<z>>) = LengthSize
      BY <2>1, BlockSizes
    <2>3. /\ Block("length", 2 * c, <<z>>) \in Seq(UnitOK)
          /\ Len(Block("length", 2 * c, <<z>>)) = BlockSize("length", <<z>>)
          /\ \A a \in 1 .. BlockSize("length", <<z>>) :
                Block("length", 2 * c, <<z>>)[a] =
                    [kind |-> "length", nonce |-> 2 * c, data |-> <<z>>, at |-> a]
      BY <2>1, BlockUnits
    <2> QED
      BY <1>1, <2>2, <2>3, Zenon DEF LengthUnit
  <1>3. PICK d \in Seq(UnitOK) :
            /\ d = Block("payload", 2 * c + 1, DataOf(P, c))
            /\ Len(d) = z + TagSize
            /\ \A a \in 1 .. z + TagSize : d[a] = PayloadUnit(P, c, a)
    <2>1. DataOf(P, c) \in Seq(Nat) /\ Len(DataOf(P, c)) = z
      BY <1>1, DataUnits, Zenon
    <2>2. 2 * c + 1 \in Nat
      OBVIOUS
    <2>3. BlockSize("payload", DataOf(P, c)) = z + TagSize
      BY <2>1, BlockSizes
    <2>4. /\ Block("payload", 2 * c + 1, DataOf(P, c)) \in Seq(UnitOK)
          /\ Len(Block("payload", 2 * c + 1, DataOf(P, c))) =
                BlockSize("payload", DataOf(P, c))
          /\ \A a \in 1 .. BlockSize("payload", DataOf(P, c)) :
                Block("payload", 2 * c + 1, DataOf(P, c))[a] =
                    [kind |-> "payload", nonce |-> 2 * c + 1,
                     data |-> DataOf(P, c), at |-> a]
      BY <2>1, <2>2, BlockUnits
    <2> QED
      BY <2>3, <2>4, Zenon DEF PayloadUnit
  <1>4. Chunk(2 * c, DataOf(P, c)) = b \o d
    <2>1. Len(DataOf(P, c)) = z
      BY <1>1, DataUnits
    <2> QED
      BY <1>2, <1>3, <2>1, Zenon DEF Chunk
  <1>5. TagSize \in Nat /\ LengthSize \in Nat
    BY EncryptedConnectionAssumption DEF LengthSize
  <1>6. b \o d \in Seq(UnitOK) /\ Len(b \o d) = LengthSize + (z + TagSize)
    BY <1>2, <1>3, <1>5, ConcatProperties
  <1>7. ASSUME NEW a \in 1 .. LengthSize
        PROVE  (b \o d)[a] = LengthUnit(P, c, a)
    <2>1. a \in 1 .. Len(b)
      BY <1>2
    <2>2. (b \o d)[a] = b[a]
      BY <2>1, ConcatFirst
    <2> QED
      BY <1>2, <2>2, Zenon
  <1>8. ASSUME NEW a \in 1 .. z + TagSize
        PROVE  (b \o d)[LengthSize + a] = PayloadUnit(P, c, a)
    <2>1. a \in 1 .. Len(d)
      BY <1>3
    <2>2. (b \o d)[Len(b) + a] = d[a]
      BY <2>1, ConcatSecond
    <2> QED
      BY <1>2, <1>3, <2>2, Zenon
  <1> QED
    BY <1>1, <1>4, <1>6, <1>7, <1>8, Zenon

-----------------------------------------------------------------------------

\* The i-th unit of the stream w, unless somebody has altered it.
IsUnit(w, i, unit, t) == w[i] = unit \/ (t /\ w[i] = Garbage)

\* The stream w holds n chunks in these frames.
SaltLaid(w, t) == \A i \in 1 .. SaltSize : i <= Len(w) => IsUnit(w, i, SaltUnit(i), t)
LengthLaid(w, c, S, P, t) ==
    \A a \in 1 .. LengthSize : IsUnit(w, S[c] + a, LengthUnit(P, c, a), t)
PayloadLaid(w, c, S, P, t) ==
    \A a \in 1 .. DataSize(P, c) + TagSize :
        IsUnit(w, S[c] + LengthSize + a, PayloadUnit(P, c, a), t)
Laid(w, n, S, P, t) ==
    /\ SaltLaid(w, t)
    /\ \A c \in 0 .. n - 1 : LengthLaid(w, c, S, P, t) /\ PayloadLaid(w, c, S, P, t)

\* A stream that holds n chunks and nothing behind them.
Holding(w, n, S, P, t) ==
    w \in Seq(UnitOK) /\ Len(w) = S[n] /\ Laid(w, n, S, P, t)

\* What Frames says about one chunk.
OneFrame(c, n, S, P) ==
    /\ DataSize(P, c) \in Nat
    /\ DataSize(P, c) >= 1 /\ DataSize(P, c) <= MaxChunk
    /\ P[c + 1] = P[c] + DataSize(P, c)
    /\ S[c + 1] = S[c] + LengthSize + DataSize(P, c) + TagSize
    /\ S[c + 1] <= S[n] /\ P[c + 1] <= P[n]
    /\ SaltSize <= S[c]

\* The frames say that of every chunk there is.
LEMMA FrameAt ==
    ASSUME NEW n \in Nat, NEW c \in Nat, NEW S \in [Nat -> Nat],
           NEW P \in [Nat -> Nat], c < n, Frames(n, S, P)
    PROVE  OneFrame(c, n, S, P)
  <1>1. c \in 0 .. n - 1 /\ c + 1 \in 0 .. n /\ c \in 0 .. n
        /\ 0 \in 0 .. n /\ n \in 0 .. n
    OBVIOUS
  <1>2. P[c] \in Nat /\ P[c + 1] \in Nat
    BY <1>1
  <1>3. P[c] < P[c + 1]
    BY <1>1 DEF Frames, Starts
  <1>4. DataSize(P, c) <= MaxChunk
    BY <1>1 DEF Frames
  <1>5. S[c + 1] <= S[n] /\ P[c + 1] <= P[n] /\ S[0] <= S[c]
    BY <1>1 DEF Frames, Starts
  <1>6. MaxChunk \in Nat
    BY EncryptedConnectionAssumption
  <1>7. DataSize(P, c) \in Nat /\ DataSize(P, c) >= 1
        /\ P[c + 1] = P[c] + DataSize(P, c)
    BY <1>2, <1>3, <1>4, <1>6 DEF DataSize
  <1> QED
    BY <1>1, <1>4, <1>5, <1>7 DEF Frames, OneFrame

\* The units of a chunk are behind the salt and before the end.
LEMMA Places ==
    ASSUME NEW n \in Nat, NEW c \in Nat, NEW S \in [Nat -> Nat],
           NEW P \in [Nat -> Nat], c < n, Frames(n, S, P)
    PROVE  /\ \A a \in 1 .. LengthSize : S[c] + a \in 1 .. S[n]
           /\ \A a \in 1 .. DataSize(P, c) + TagSize :
                 S[c] + LengthSize + a \in 1 .. S[n]
  <1>1. LengthSize \in Nat /\ TagSize \in Nat
    BY EncryptedConnectionAssumption DEF LengthSize
  <1>2. DataSize(P, c) \in Nat /\ S[c + 1] <= S[n]
        /\ S[c + 1] = S[c] + LengthSize + DataSize(P, c) + TagSize
    BY FrameAt DEF OneFrame
  <1>3. S[c] \in Nat /\ S[n] \in Nat
    OBVIOUS
  <1>4. PICK h \in Nat, d \in Nat, y \in Nat, k \in Nat, m \in Nat :
            /\ h = LengthSize /\ d = TagSize /\ y = DataSize(P, c)
            /\ k = S[c] /\ m = S[n]
    BY <1>1, <1>2, <1>3, Zenon
  <1>5. k + h + y + d <= m
    BY <1>2, <1>4, Zenon
  <1>6. /\ \A a \in 1 .. h : k + a \in 1 .. m
        /\ \A a \in 1 .. y + d : k + h + a \in 1 .. m
    BY <1>5
  <1> QED
    BY <1>4, <1>6, Zenon

\* A chunk's units depend on where it and the next start, and on nothing else.
SameUnits(c, P2, P) ==
    /\ DataSize(P2, c) = DataSize(P, c)
    /\ DataOf(P2, c) = DataOf(P, c)
    /\ \A a : LengthUnit(P2, c, a) = LengthUnit(P, c, a)
    /\ \A a : PayloadUnit(P2, c, a) = PayloadUnit(P, c, a)

\* The chunks there were stay what they are when more are written.
LEMMA SameChunk ==
    ASSUME NEW n \in Nat, NEW P \in [Nat -> Nat], NEW P2 \in [Nat -> Nat],
           NEW c \in Nat, c < n, Extending(P2, P, n)
    PROVE  SameUnits(c, P2, P)
  <1>1. P2[c] = P[c] /\ P2[c + 1] = P[c + 1]
    BY DEF Extending
  <1>2. DataSize(P2, c) = DataSize(P, c)
    BY <1>1, Zenon DEF DataSize
  <1>3. DataOf(P2, c) = DataOf(P, c)
    BY <1>1, <1>2, Zenon DEF DataOf
  <1> QED
    BY <1>2, <1>3, Zenon DEF LengthUnit, PayloadUnit, SameUnits

\* A chunk written behind the others leaves them where they are.
LEMMA LaidMore ==
    ASSUME NEW n, NEW m, NEW S, NEW P, NEW S2, NEW P2, NEW w, NEW t,
           n \in Nat, m \in Nat, m = n + 1,
           S \in [Nat -> Nat], P \in [Nat -> Nat],
           S2 \in [Nat -> Nat], P2 \in [Nat -> Nat],
           w \in Seq(UnitOK), t \in BOOLEAN,
           Frames(n, S, P), Frames(m, S2, P2),
           Extending(S2, S, n), Extending(P2, P, n), Holding(w, n, S, P, t)
    PROVE  Holding(w \o Chunk(2 * n, DataOf(P2, n)), m, S2, P2, t)
  <1>1. Len(w) = S[n] /\ Laid(w, n, S, P, t)
    BY DEF Holding
  <1>2. TagSize \in Nat /\ LengthSize \in Nat /\ SaltSize \in Nat
    BY EncryptedConnectionAssumption DEF LengthSize
  <1>3. /\ S2[n] = S[n] /\ S[n] \in Nat /\ S[n] = Len(w)
    BY <1>1 DEF Extending
  <1>4. n < m
    OBVIOUS
  <1>5. /\ DataSize(P2, n) \in Nat
        /\ S2[m] = S2[n] + LengthSize + DataSize(P2, n) + TagSize
    <2>1. OneFrame(n, m, S2, P2)
      BY <1>4, FrameAt
    <2> QED
      BY <2>1 DEF OneFrame
  <1>6. PICK h \in Nat, d \in Nat, y \in Nat, k \in Nat :
            /\ h = LengthSize /\ d = TagSize /\ y = DataSize(P2, n)
            /\ k = Len(w)
    BY <1>2, <1>3, <1>5, Zenon
  <1>7. PICK u \in Seq(UnitOK) :
            /\ u = Chunk(2 * n, DataOf(P2, n))
            /\ Len(u) = h + (y + d)
            /\ \A a \in 1 .. h : u[a] = LengthUnit(P2, n, a)
            /\ \A a \in 1 .. y + d : u[h + a] = PayloadUnit(P2, n, a)
    <2>1. /\ Chunk(2 * n, DataOf(P2, n)) \in Seq(UnitOK)
          /\ Len(Chunk(2 * n, DataOf(P2, n))) =
                LengthSize + (DataSize(P2, n) + TagSize)
          /\ \A a \in 1 .. LengthSize :
                Chunk(2 * n, DataOf(P2, n))[a] = LengthUnit(P2, n, a)
          /\ \A a \in 1 .. DataSize(P2, n) + TagSize :
                Chunk(2 * n, DataOf(P2, n))[LengthSize + a] = PayloadUnit(P2, n, a)
      BY <1>5, ChunkUnits
    <2> QED
      BY <1>6, <2>1, Zenon
  <1>8. PICK v \in Seq(UnitOK) : v = w \o u
    BY <1>7, ConcatProperties
  <1>9. Len(v) = S2[m]
    <2>1. Len(v) = k + (h + (y + d))
      <3>1. Len(w \o u) = Len(w) + Len(u)
        BY ConcatProperties
      <3> QED
        BY <1>6, <1>7, <1>8, <3>1, Zenon
    <2>2. S2[m] = k + h + y + d
      BY <1>3, <1>5, <1>6, Zenon
    <2> QED
      BY <2>1, <2>2
  <1>10. ASSUME NEW i \in 1 .. S[n]
        PROVE  v[i] = w[i]
    BY <1>3, <1>8, ConcatFirst
  <1>11. ASSUME NEW i \in 1 .. Len(u)
         PROVE  v[k + i] = u[i]
    BY <1>6, <1>8, ConcatSecond
  <1>12. SaltLaid(v, t)
    <2> SUFFICES ASSUME NEW i \in 1 .. SaltSize
                 PROVE  IsUnit(v, i, SaltUnit(i), t)
      BY DEF SaltLaid
    <2>1. S[0] <= S[n] /\ S[0] = SaltSize
      BY DEF Frames, Starts
    <2>2. i \in 1 .. S[n] /\ i <= Len(w)
      BY <1>2, <1>3, <2>1
    <2>3. v[i] = w[i]
      BY <1>10, <2>2
    <2>4. IsUnit(w, i, SaltUnit(i), t)
      BY <1>1, <2>2 DEF Laid, SaltLaid
    <2> QED
      BY <2>3, <2>4, Zenon DEF IsUnit
  <1>13. ASSUME NEW c \in Nat, c < n
         PROVE  /\ S2[c] = S[c]
                /\ SameUnits(c, P2, P)
                /\ LengthLaid(w, c, S, P, t)
                /\ PayloadLaid(w, c, S, P, t)
    <2>1. S2[c] = S[c]
      BY <1>13 DEF Extending
    <2>2. LengthLaid(w, c, S, P, t) /\ PayloadLaid(w, c, S, P, t)
      <3>1. c \in 0 .. n - 1
        BY <1>13
      <3> QED
        BY <1>1, <3>1, Zenon DEF Laid
    <2>3. SameUnits(c, P2, P)
      BY <1>13, SameChunk
    <2> QED
      BY <2>1, <2>2, <2>3, Zenon
  <1>14. ASSUME NEW c \in Nat, c < n
         PROVE  LengthLaid(v, c, S2, P2, t)
    <2> SUFFICES ASSUME NEW a \in 1 .. LengthSize
                 PROVE  IsUnit(v, S2[c] + a, LengthUnit(P2, c, a), t)
      BY DEF LengthLaid
    <2>1. S[c] + a \in 1 .. S[n]
      BY <1>14, Places, Zenon
    <2>2. v[S[c] + a] = w[S[c] + a]
      BY <1>10, <2>1, Zenon
    <2>3. IsUnit(w, S[c] + a, LengthUnit(P, c, a), t)
      BY <1>13, <1>14, Zenon DEF LengthLaid
    <2> QED
      BY <1>13, <1>14, <2>2, <2>3, Zenon DEF IsUnit, SameUnits
  <1>15. ASSUME NEW c \in Nat, c < n
         PROVE  PayloadLaid(v, c, S2, P2, t)
    <2> SUFFICES ASSUME NEW a \in 1 .. DataSize(P, c) + TagSize
                 PROVE  IsUnit(v, S2[c] + LengthSize + a, PayloadUnit(P2, c, a), t)
      BY <1>13, <1>15, Zenon DEF PayloadLaid, SameUnits
    <2>1. S[c] + LengthSize + a \in 1 .. S[n]
      BY <1>15, Places, Zenon
    <2>2. v[S[c] + LengthSize + a] = w[S[c] + LengthSize + a]
      BY <1>10, <2>1, Zenon
    <2>3. IsUnit(w, S[c] + LengthSize + a, PayloadUnit(P, c, a), t)
      BY <1>13, <1>15, Zenon DEF PayloadLaid
    <2> QED
      BY <1>13, <1>15, <2>2, <2>3, Zenon DEF IsUnit, SameUnits
  <1>16. LengthLaid(v, n, S2, P2, t)
    <2> SUFFICES ASSUME NEW a \in 1 .. h
                 PROVE  v[S2[n] + a] = LengthUnit(P2, n, a)
      BY <1>6, Zenon DEF LengthLaid, IsUnit
    <2>1. a \in 1 .. Len(u)
      BY <1>7
    <2>2. v[k + a] = u[a]
      BY <1>11, <2>1, Zenon
    <2> QED
      BY <1>3, <1>6, <1>7, <2>2, Zenon
  <1>17. PayloadLaid(v, n, S2, P2, t)
    <2> SUFFICES ASSUME NEW a \in 1 .. y + d
                 PROVE  v[S2[n] + h + a] = PayloadUnit(P2, n, a)
      BY <1>6, Zenon DEF PayloadLaid, IsUnit
    <2>1. h + a \in 1 .. Len(u)
      BY <1>7
    <2>2. v[k + (h + a)] = u[h + a]
      BY <1>11, <2>1, Zenon
    <2>3. k + (h + a) = k + h + a
      OBVIOUS
    <2> QED
      BY <1>3, <1>6, <1>7, <2>2, <2>3, Zenon
  <1>18. Laid(v, m, S2, P2, t)
    <2>1. ASSUME NEW c \in 0 .. m - 1
          PROVE  LengthLaid(v, c, S2, P2, t) /\ PayloadLaid(v, c, S2, P2, t)
      <3>1. c \in Nat /\ (c < n \/ c = n)
        OBVIOUS
      <3> QED
        BY <1>14, <1>15, <1>16, <1>17, <3>1, Zenon
    <2> QED
      BY <1>12, <2>1, Zenon DEF Laid
  <1> QED
    BY <1>7, <1>8, <1>9, <1>18, Zenon DEF Holding

-----------------------------------------------------------------------------
(* A write. *)

\* How many chunks a write has.
Chunks(size) == (size + ChunkLen(size) - 1) \div ChunkLen(size)

\* The chunks of a write are not empty, not too long, and together the write.
LEMMA Chunking ==
    ASSUME NEW size \in Nat, size >= 1
    PROVE  /\ Chunks(size) \in Nat /\ Chunks(size) >= 1
           /\ ChunkLen(size) \in Nat
           /\ \A k \in 0 .. Chunks(size) - 1 :
                /\ Least(k * ChunkLen(size), size) = k * ChunkLen(size)
                /\ ChunkLen(size - k * ChunkLen(size)) \in 1 .. MaxChunk
                /\ Least((k + 1) * ChunkLen(size), size) =
                        k * ChunkLen(size) + ChunkLen(size - k * ChunkLen(size))
           /\ Least(Chunks(size) * ChunkLen(size), size) = size
  <1>1. MaxChunk \in Nat /\ MaxChunk >= 1
    BY EncryptedConnectionAssumption
  <1>2. PICK max \in Nat : max = MaxChunk
    BY <1>1
  <1>3. ChunkLen(size) \in Nat /\ ChunkLen(size) >= 1
    BY <1>1 DEF ChunkLen, Least
  <1>4. PICK len \in Nat : len = ChunkLen(size)
    BY <1>3
  <1>5. len >= 1 /\ len = IF size < max THEN size ELSE max
    BY <1>2, <1>3, <1>4 DEF ChunkLen, Least
  <1>6. PICK x \in Nat : x = size + len - 1
    BY <1>5
  <1>7. x \div len \in Nat
    BY <1>5
  <1>8. PICK n \in Nat : n = x \div len
    BY <1>7
  <1>9. n * len <= x /\ x < n * len + len
    BY <1>5, <1>8
  <1>10. n * len \in Nat /\ n * len >= size /\ (n - 1) * len < size
    BY <1>5, <1>6, <1>9
  <1>11. n >= 1
    BY <1>10
  <1>12. ASSUME NEW k \in 0 .. n - 1
         PROVE  /\ Least(k * len, size) = k * len
                /\ ChunkLen(size - k * len) \in 1 .. MaxChunk
                /\ Least((k + 1) * len, size) = k * len + ChunkLen(size - k * len)
    <2>1. k * len <= (n - 1) * len /\ k * len \in Nat
      BY <1>5
    <2>2. PICK done \in Nat : done = k * len
      BY <2>1
    <2>3. done < size
      BY <1>10, <2>1, <2>2
    <2>4. (k + 1) * len = done + len
      BY <2>2
    <2>5. Least(done, size) = done
      BY <2>3 DEF Least
    <2>6. PICK left \in Nat : left = size - done /\ left >= 1
      BY <2>3
    <2>7. ChunkLen(left) = IF left < max THEN left ELSE max
      BY <1>2 DEF ChunkLen, Least
    <2>8. ChunkLen(left) \in 1 .. max
      BY <1>1, <1>2, <2>6, <2>7
    <2>9. Least(done + len, size) = done + ChunkLen(left)
      <3>1. CASE size < max
        <4>1. len = size
          BY <1>5, <3>1
        <4>2. n = 1
          BY <1>5, <1>10, <1>11, <4>1
        <4>3. done = 0
          BY <2>2, <4>2
        <4> QED
          BY <2>6, <2>7, <3>1, <4>1, <4>3 DEF Least
      <3>2. CASE ~(size < max)
        <4>1. len = max
          BY <1>5, <3>2
        <4> QED
          BY <2>6, <2>7, <4>1 DEF Least
      <3> QED
        BY <3>1, <3>2
    <2> QED
      BY <1>2, <2>2, <2>4, <2>5, <2>6, <2>8, <2>9, Zenon
  <1>13. Least(n * len, size) = size
    BY <1>10 DEF Least
  <1>14. Chunks(size) = n
    BY <1>4, <1>6, <1>8, Zenon DEF Chunks
  <1> QED
    BY <1>3, <1>4, <1>11, <1>12, <1>13, <1>14, Zenon

\* The chunks of a write of size units behind lo, the first sealed with m.
WriteChunks(m, lo, size) ==
    [k \in 1 .. Chunks(size) |-> Chunk(m + 2 * (k - 1), ChunkData(lo, size, k))]

\* What is written is units.
LEMMA ChunkType ==
    ASSUME NEW m \in Nat, NEW data \in Seq(Nat)
    PROVE  Chunk(m, data) \in Seq(UnitOK)
  <1>1. Len(data) \in Nat /\ <<Len(data)>> \in Seq(Nat) /\ m + 1 \in Nat
    OBVIOUS
  <1>2. Block("length", m, <<Len(data)>>) \in Seq(UnitOK)
    BY <1>1, BlockUnits
  <1>3. Block("payload", m + 1, data) \in Seq(UnitOK)
    BY <1>1, BlockUnits
  <1> QED
    BY <1>2, <1>3, ConcatProperties DEF Chunk

\* A write is as many sequences of units as it has chunks.
LEMMA WriteChunksType ==
    ASSUME NEW m \in Nat, NEW lo \in Nat, NEW size \in Nat, size >= 1
    PROVE  /\ WriteChunks(m, lo, size) \in Seq(Seq(UnitOK))
           /\ Len(WriteChunks(m, lo, size)) = Chunks(size)
           /\ \A k \in 1 .. Chunks(size) : WriteChunks(m, lo, size)[k] =
                Chunk(m + 2 * (k - 1), ChunkData(lo, size, k))
  <1>1. PICK n \in Nat : n = Chunks(size)
    BY Chunking
  <1> DEFINE c(k) == Chunk(m + 2 * (k - 1), ChunkData(lo, size, k))
             f == [k \in 1 .. n |-> c(k)]
  <1>2. ASSUME NEW k \in 1 .. n
        PROVE  c(k) \in Seq(UnitOK)
    <2>1. m + 2 * (k - 1) \in Nat
      OBVIOUS
    <2>2. PICK len \in Nat : len = ChunkLen(size)
      BY Chunking
    <2>3. k - 1 \in 0 .. n - 1 /\ k - 1 \in Nat
      OBVIOUS
    <2>4. ChunkLen(size - (k - 1) * len) \in 1 .. MaxChunk
      BY <1>1, <2>2, <2>3, Chunking
    <2>5. PICK z \in Nat : z = ChunkLen(size - (k - 1) * len)
      BY <2>4, EncryptedConnectionAssumption
    <2>6. (k - 1) * len \in Nat
      BY <2>3
    <2>7. PICK skip \in Nat : skip = (k - 1) * len
      BY <2>6
    <2>8. ChunkData(lo, size, k) = [i \in 1 .. z |-> lo + skip + i]
      BY <2>2, <2>5, <2>7, Zenon DEF ChunkData
    <2>9. [i \in 1 .. z |-> lo + skip + i] \in Seq(Nat)
      OBVIOUS
    <2> QED
      BY <2>1, <2>8, <2>9, ChunkType
  <1>3. WriteChunks(m, lo, size) = f
    BY <1>1, Zenon DEF WriteChunks
  <1> HIDE DEF c
  <1>4. f \in [1 .. n -> Seq(UnitOK)] /\ \A k \in 1 .. n : f[k] = c(k)
    BY <1>2
  <1> HIDE DEF f
  <1>5. f \in Seq(Seq(UnitOK)) /\ Len(f) = n
    BY <1>4, FunctionIsSeq
  <1> QED
    BY <1>1, <1>3, <1>4, <1>5, Zenon DEF c

\* What is behind the first k chunks of a write.
Wrote(k, w, lo, size, n, S, P, t, S2, P2) ==
    LET v == w \o FlattenSeq(SubSeq(WriteChunks(2 * n, lo, size), 1, k))
    IN  /\ Frames(n + k, S2, P2) /\ Extending(S2, S, n) /\ Extending(P2, P, n)
        /\ P2[n + k] = lo + Least(k * ChunkLen(size), size)
        /\ Holding(v, n + k, S2, P2, t)

\* Before its first chunk a write has changed nothing.
LEMMA WroteNone ==
    ASSUME NEW n \in Nat, NEW S \in [Nat -> Nat], NEW P \in [Nat -> Nat],
           NEW w \in Seq(UnitOK), NEW t \in BOOLEAN,
           NEW lo \in Nat, NEW size \in Nat, size >= 1,
           Frames(n, S, P), Holding(w, n, S, P, t), P[n] = lo
    PROVE  Wrote(0, w, lo, size, n, S, P, t, S, P)
  <1>1. SubSeq(WriteChunks(2 * n, lo, size), 1, 0) = <<>>
    BY SubSeqEmpty
  <1>2. w \o FlattenSeq(SubSeq(WriteChunks(2 * n, lo, size), 1, 0)) = w
    BY <1>1, FlattenEmpty, ConcatEmptySeq, Zenon
  <1>3. Extending(S, S, n) /\ Extending(P, P, n)
    BY DEF Extending
  <1>4. n + 0 = n
    OBVIOUS
  <1>5. Least(0 * ChunkLen(size), size) = 0
    <2>1. PICK len \in Nat : len = ChunkLen(size)
      BY Chunking
    <2>2. 0 * len = 0
      OBVIOUS
    <2>3. Least(0, size) = 0
      BY DEF Least
    <2> QED
      BY <2>1, <2>2, <2>3, Zenon
  <1>6. P[n] = lo + Least(0 * ChunkLen(size), size)
    BY <1>5
  <1> QED
    BY <1>2, <1>3, <1>4, <1>6, Zenon DEF Wrote

\* One chunk of a write more, behind the others.
LEMMA WroteNext ==
    ASSUME NEW n, NEW S, NEW P, NEW w, NEW t, NEW lo, NEW size,
           NEW k, NEW i, NEW S2, NEW P2,
           n \in Nat, S \in [Nat -> Nat], P \in [Nat -> Nat],
           w \in Seq(UnitOK), t \in BOOLEAN,
           lo \in Nat, size \in Nat, size >= 1,
           k \in Nat, i \in Nat, i = k + 1, k < Chunks(size),
           S2 \in [Nat -> Nat], P2 \in [Nat -> Nat],
           Wrote(k, w, lo, size, n, S, P, t, S2, P2)
    PROVE  \E S3, P3 \in [Nat -> Nat] :
              Wrote(i, w, lo, size, n, S, P, t, S3, P3)
  <1>1. PICK j \in Nat : j = n + k
    OBVIOUS
  <1>2. i = k + 1
    OBVIOUS
  <1>3. PICK m \in Nat : m = j + 1
    OBVIOUS
  <1>4. PICK len \in Nat, r \in Nat : len = ChunkLen(size) /\ r = Chunks(size)
    BY Chunking, Zenon
  <1>5. k \in 0 .. r - 1 /\ i <= r /\ i \in 1 .. r /\ n + i = m /\ k * len \in Nat
    <2>1. k < r
      BY <1>4, Zenon
    <2> QED
      BY <1>1, <1>2, <1>3, <2>1
  <1>6. PICK done \in Nat : done = k * len
    BY <1>5
  <1>7. /\ Least(k * len, size) = done
        /\ ChunkLen(size - done) \in 1 .. MaxChunk
        /\ Least(i * len, size) = done + ChunkLen(size - done)
    <2>1. \A l \in 0 .. r - 1 :
                /\ Least(l * len, size) = l * len
                /\ ChunkLen(size - l * len) \in 1 .. MaxChunk
                /\ Least((l + 1) * len, size) = l * len + ChunkLen(size - l * len)
      BY <1>4, Chunking, Zenon
    <2> QED
      BY <1>2, <1>5, <1>6, <2>1, Zenon
  <1>8. PICK z \in 1 .. MaxChunk : z = ChunkLen(size - done)
    BY <1>7
  <1>9. z \in Nat
    BY EncryptedConnectionAssumption
  <1> DEFINE cs == WriteChunks(2 * n, lo, size)
  <1>10. /\ cs \in Seq(Seq(UnitOK)) /\ Len(cs) = r
         /\ cs[i] = Chunk(2 * n + 2 * (i - 1), ChunkData(lo, size, i))
    <2>1. 2 * n \in Nat
      OBVIOUS
    <2>2. PICK twice \in Nat : twice = 2 * n
      BY <2>1, Zenon
    <2>3. /\ WriteChunks(twice, lo, size) \in Seq(Seq(UnitOK))
          /\ Len(WriteChunks(twice, lo, size)) = Chunks(size)
          /\ \A l \in 1 .. Chunks(size) : WriteChunks(twice, lo, size)[l] =
                Chunk(twice + 2 * (l - 1), ChunkData(lo, size, l))
      BY WriteChunksType, Zenon
    <2>4. /\ cs \in Seq(Seq(UnitOK)) /\ Len(cs) = Chunks(size)
          /\ \A l \in 1 .. Chunks(size) : cs[l] =
                Chunk(2 * n + 2 * (l - 1), ChunkData(lo, size, l))
      BY <2>2, <2>3, Zenon
    <2> HIDE DEF cs
    <2> QED
      BY <1>4, <1>5, <2>4, Zenon
  <1> DEFINE v == w \o FlattenSeq(SubSeq(cs, 1, k))
  <1>11. /\ Frames(j, S2, P2) /\ Extending(S2, S, n) /\ Extending(P2, P, n)
         /\ P2[j] = lo + done
         /\ Holding(v, j, S2, P2, t)
    BY <1>1, <1>4, <1>7, Zenon DEF Wrote
  <1>12. PICK S3 \in [Nat -> Nat], P3 \in [Nat -> Nat] :
            /\ Frames(m, S3, P3) /\ Extending(S3, S2, j) /\ Extending(P3, P2, j)
            /\ P3[m] = P2[j] + z
    <2>1. Frames(j, S2, P2)
      BY <1>11
    <2>2. PICK S3, P3 : OneMore(j, S2, P2, z, S3, P3)
      BY <2>1, OneMoreFrame
    <2> QED
      BY <1>3, <2>2, Zenon DEF OneMore
  <1>13. P3[j] = P2[j] /\ S3[j] = S2[j] /\ P2[j] \in Nat /\ P3[m] \in Nat
    BY <1>12 DEF Extending
  <1>14. Extending(S3, S, n) /\ Extending(P3, P, n)
    <2>1. \A c \in 0 .. n : c \in 0 .. j
      BY <1>1
    <2> QED
      BY <1>11, <1>12, <2>1, Zenon DEF Extending
  <1>15. cs[i] = Chunk(2 * j, DataOf(P3, j))
    <2>1. 2 * n + 2 * (i - 1) = 2 * j /\ i - 1 = k
      BY <1>1, <1>2
    <2>2. DataSize(P3, j) = z
      BY <1>3, <1>9, <1>12, <1>13 DEF DataSize
    <2>3. ChunkData(lo, size, i) = [l \in 1 .. z |-> lo + done + l]
      BY <1>4, <1>6, <1>8, <2>1, Zenon DEF ChunkData
    <2>4. DataOf(P3, j) = [l \in 1 .. z |-> lo + done + l]
      BY <1>11, <1>13, <2>2, Zenon DEF DataOf
    <2> HIDE DEF cs
    <2> QED
      BY <1>10, <2>1, <2>3, <2>4, Zenon
  <1>16. w \o FlattenSeq(SubSeq(cs, 1, i)) = v \o Chunk(2 * j, DataOf(P3, j))
    <2> HIDE DEF cs
    <2>1. FlattenSeq(SubSeq(cs, 1, i)) = FlattenSeq(SubSeq(cs, 1, k)) \o cs[i]
      BY <1>2, <1>5, <1>10, FlattenNext
    <2>2. PICK f \in Seq(UnitOK) : f = FlattenSeq(SubSeq(cs, 1, k))
      <3>1. k <= Len(cs)
        BY <1>2, <1>5, <1>10
      <3>2. SubSeq(cs, 1, k) \in Seq(Seq(UnitOK))
        BY <1>10, <3>1, PrefixType
      <3>3. FlattenSeq(SubSeq(cs, 1, k)) \in Seq(UnitOK)
        BY <3>2, FlattenType
      <3> QED
        BY <3>3, Zenon
    <2>3. PICK g \in Seq(UnitOK) : g = cs[i]
      <3>1. cs[i] \in Seq(UnitOK)
        BY <1>5, <1>10, ElementOfSeq
      <3> QED
        BY <3>1, Zenon
    <2>4. (w \o f) \o g = w \o (f \o g)
      <3>1. Cat(Cat(w, f), g) = Cat(w, Cat(f, g))
        BY Associative
      <3> QED
        BY <3>1, Zenon DEF Cat
    <2> QED
      BY <1>15, <2>1, <2>2, <2>3, <2>4, Zenon
  <1>17. PICK u \in Seq(UnitOK) : u = v
    BY <1>11, Zenon DEF Holding
  <1>18. Holding(u, j, S2, P2, t)
    BY <1>11, <1>17, Zenon
  <1>19. Holding(u \o Chunk(2 * j, DataOf(P3, j)), m, S3, P3, t)
    <2>1. /\ m = j + 1 /\ Frames(j, S2, P2) /\ Frames(m, S3, P3)
          /\ Extending(S3, S2, j) /\ Extending(P3, P2, j)
          /\ Holding(u, j, S2, P2, t)
      BY <1>3, <1>11, <1>12, <1>18, Zenon
    <2> QED
      BY <2>1, LaidMore
  <1>20. P3[m] = lo + Least(i * len, size)
    <2>1. P3[m] = lo + done + z
      BY <1>11, <1>12, Zenon
    <2>2. lo + done + z = lo + (done + z)
      BY <1>9
    <2> QED
      BY <1>7, <1>8, <2>1, <2>2, Zenon
  <1>21. Wrote(i, w, lo, size, n, S, P, t, S3, P3)
    BY <1>4, <1>5, <1>12, <1>14, <1>16, <1>17, <1>19, <1>20, Zenon DEF Wrote
  <1> QED
    BY <1>21, Zenon

\* A whole write, behind what the stream holds.
LEMMA WroteAll ==
    ASSUME NEW n, NEW S, NEW P, NEW w, NEW t, NEW lo, NEW size,
           n \in Nat, S \in [Nat -> Nat], P \in [Nat -> Nat],
           w \in Seq(UnitOK), t \in BOOLEAN,
           lo \in Nat, size \in Nat, size >= 1,
           Frames(n, S, P), Holding(w, n, S, P, t), P[n] = lo
    PROVE  \E S2, P2 \in [Nat -> Nat] :
              Wrote(Chunks(size), w, lo, size, n, S, P, t, S2, P2)
  <1>1. PICK r \in Nat : r = Chunks(size)
    BY Chunking, Zenon
  <1> DEFINE R == {k \in Nat : k <= r =>
                      \E S2, P2 \in [Nat -> Nat] :
                          Wrote(k, w, lo, size, n, S, P, t, S2, P2)}
  <1>2. 0 \in R
    <2>1. Wrote(0, w, lo, size, n, S, P, t, S, P)
      BY WroteNone
    <2> QED
      BY <2>1
  <1>3. ASSUME NEW k \in Nat, k \in R
        PROVE  k + 1 \in R
    <2>1. ASSUME NEW i \in Nat, i = k + 1, i <= r
          PROVE  \E S3, P3 \in [Nat -> Nat] :
                            Wrote(i, w, lo, size, n, S, P, t, S3, P3)
      <3>1. k <= r /\ k < r
        BY <2>1
      <3>2. k < Chunks(size)
        BY <1>1, <3>1, Zenon
      <3>3. PICK S2 \in [Nat -> Nat], P2 \in [Nat -> Nat] :
                  Wrote(k, w, lo, size, n, S, P, t, S2, P2)
        BY <1>3, <3>1, Zenon
      <3> QED
        BY <2>1, <3>2, <3>3, WroteNext
    <2>2. k + 1 \in Nat
      OBVIOUS
    <2> QED
      BY <2>1, <2>2, Zenon
  <1> HIDE DEF R
  <1>4. Nat \subseteq R
    BY <1>2, <1>3, Inductive
  <1>5. r \in R /\ r <= r
    BY <1>4
  <1> QED
    BY <1>1, <1>5, Zenon DEF R

-----------------------------------------------------------------------------
(* The inductive invariant. *)

\* The first k units of the plaintext.
Upto(k) == [i \in 1 .. k |-> i]

\* What the stream holds is what has been written.
Written(n, S, P) ==
    /\ Frames(n, S, P) /\ send_nonce = 2 * n /\ put = P[n]
    /\ n = 0 => wire = <<>>
    /\ n # 0 => Holding(wire, n, S, P, tampered)

\* The reader has been through c chunks; what it has of them, all of which it
\* hands over or keeps, is the plaintext up to there.  Until a block has failed
\* to open it counts nonces as the writer does and knows where it stands.
Reading(n, S, P, c) ==
    /\ Cat(Cat(got, user_buffer), decrypted_buffer) = Upto(P[c])
    /\ read_state = "Salt" => c = 0 /\ taken = 0 /\ nonce = 0
    /\ read_state = "Length" /\ error # "bad_message" =>
          nonce = 2 * c /\ taken = S[c]
    /\ read_state = "Payload" /\ error # "bad_message" =>
          /\ c < n /\ nonce = 2 * c + 1 /\ taken = S[c] + LengthSize
          /\ current_payload_len = DataSize(P, c)

\* Both together, for n chunks written and c read.
Shape(n, S, P, c) == Written(n, S, P) /\ c <= n /\ Reading(n, S, P, c)

\* Where the caller stands, what it has been told and why.
Caller ==
    /\ reading # "posted" => user_buffer = <<>>
    /\ reading = "pending" => decrypted_buffer = <<>>
    /\ reading # "none" => error = "none"
    /\ error = "bad_message" => tampered
    /\ error = "eof" => /\ ~open /\ user_buffer = <<>>
                        /\ decrypted_buffer = <<>> /\ arrived - taken < Wanted
    /\ read_state # "Salt" /\ ~tampered => subkey = "right"

\* The inductive invariant.
IInv ==
    /\ TypeOK /\ Caller
    /\ \E n \in Nat, S, P \in [Nat -> Nat], c \in Nat : Shape(n, S, P, c)

-----------------------------------------------------------------------------
(* The steps of the writer and of the stream. *)

\* Nothing has been written at first.
LEMMA InitShape == Init => IInv
  <1> SUFFICES ASSUME Init
               PROVE  IInv
    OBVIOUS
  <1>1. SaltSize \in Nat /\ MaxChunk \in Nat
    BY EncryptedConnectionAssumption
  <1>2. TypeOK
    <2>1. wire \in Seq(UnitOK) /\ Len(wire) = 0
      <3>1. <<>> \in Seq(UnitOK) /\ Len(<<>>) = 0
        OBVIOUS
      <3> QED
        BY <3>1, Zenon DEF Init
    <2>2. decrypted_buffer \in Seq(Nat) /\ user_buffer \in Seq(Nat) /\ got \in Seq(Nat)
      <3>1. <<>> \in Seq(Nat)
        OBVIOUS
      <3> QED
        BY <3>1, Zenon DEF Init
    <2>3. arrived \in 0 .. Len(wire) /\ taken \in 0 .. arrived
      BY <2>1 DEF Init
    <2>4. current_payload_len \in 0 .. MaxChunk
      BY <1>1 DEF Init
    <2> QED
      BY <2>1, <2>2, <2>3, <2>4 DEF Init, TypeOK
  <1>3. Caller
    BY DEF Init, Caller
  <1>4. PICK S \in [Nat -> Nat], P \in [Nat -> Nat] : S[0] = SaltSize /\ P[0] = 0
    <2>1. /\ [i \in Nat |-> SaltSize] \in [Nat -> Nat]
          /\ [i \in Nat |-> SaltSize][0] = SaltSize
          /\ [i \in Nat |-> 0] \in [Nat -> Nat] /\ [i \in Nat |-> 0][0] = 0
      BY <1>1
    <2> QED
      BY <2>1
  <1>5. Starts(S, 0) /\ Starts(P, 0)
    BY <1>4 DEF Starts
  <1>6. Written(0, S, P)
    BY <1>4, <1>5 DEF Init, Written, Frames
  <1>7. Reading(0, S, P, 0)
    <2>1. Cat(Cat(<<>>, <<>>), <<>>) = Upto(0)
      <3>1. <<>> \in Seq(Nat) /\ Upto(0) = <<>>
        BY DEF Upto
      <3>2. <<>> \o <<>> = <<>>
        BY <3>1, ConcatEmptySeq
      <3> QED
        BY <3>1, <3>2, Zenon DEF Cat
    <2>2. Cat(Cat(got, user_buffer), decrypted_buffer) = Upto(P[0])
      BY <1>4, <2>1, Zenon DEF Init
    <2> QED
      BY <2>2, Zenon DEF Init, Reading
  <1>8. Shape(0, S, P, 0)
    BY <1>6, <1>7 DEF Shape
  <1> QED
    BY <1>2, <1>3, <1>8 DEF IInv

\* The salt goes before the first chunk and nowhere else.
LEMMA Greeted ==
    ASSUME NEW n \in Nat, NEW S \in [Nat -> Nat], NEW P \in [Nat -> Nat],
           TypeOK, Written(n, S, P)
    PROVE  /\ wire \o Greeting \in Seq(UnitOK)
           /\ Len(wire) <= Len(wire \o Greeting)
           /\ Holding(wire \o Greeting, n, S, P, tampered)
  <1>1. wire \in Seq(UnitOK) /\ Len(wire) \in Nat
    BY DEF TypeOK
  <1>2. CASE n = 0
    <2>1. wire = <<>> /\ send_nonce = 0 /\ S[n] = SaltSize /\ Frames(0, S, P)
      BY <1>2 DEF Written, Frames
    <2>2. /\ Block("salt", 0, <<>>) \in Seq(UnitOK)
          /\ Len(Block("salt", 0, <<>>)) = SaltSize
          /\ \A a \in 1 .. SaltSize : Block("salt", 0, <<>>)[a] = SaltUnit(a)
      BY SaltUnits
    <2>3. PICK b \in Seq(UnitOK) : b = Block("salt", 0, <<>>)
      BY <2>2, Zenon
    <2>4. wire \o Greeting = b
      <3>1. <<>> \o b = b
        BY ConcatEmptySeq
      <3> QED
        BY <2>1, <2>3, <3>1, Zenon DEF Greeting
    <2>5. Laid(b, n, S, P, tampered)
      <3>1. SaltLaid(b, tampered)
        BY <2>2, <2>3, Zenon DEF SaltLaid, IsUnit
      <3>2. 0 .. n - 1 = {}
        BY <1>2
      <3> QED
        BY <3>1, <3>2, Zenon DEF Laid
    <2>6. Len(b) \in Nat /\ Len(wire) = 0
      BY <2>1
    <2> QED
      BY <2>1, <2>2, <2>3, <2>4, <2>5, <2>6 DEF Holding
  <1>3. CASE n # 0
    <2>1. send_nonce # 0 /\ Holding(wire, n, S, P, tampered)
      BY <1>3 DEF Written
    <2>2. wire \o Greeting = wire
      <3>1. wire \o <<>> = wire
        BY <1>1, ConcatEmptySeq
      <3> QED
        BY <2>1, <3>1, Zenon DEF Greeting
    <2>3. Len(wire) <= Len(wire)
      BY <1>1
    <2> QED
      BY <1>1, <2>1, <2>2, <2>3, Zenon
  <1> QED
    BY <1>2, <1>3

\* What is written behind what the reader has been through is nothing to it.
LEMMA WrittenOn ==
    ASSUME NEW n, NEW S, NEW P, NEW c, NEW m, NEW S2, NEW P2,
           n \in Nat, S \in [Nat -> Nat], P \in [Nat -> Nat], c \in Nat,
           m \in Nat, S2 \in [Nat -> Nat], P2 \in [Nat -> Nat],
           n <= m, c <= n, Extending(S2, S, n), Extending(P2, P, n),
           UNCHANGED <<readerVars, userVars>>, Reading(n, S, P, c)
    PROVE  Reading(m, S2, P2, c)'
  <1>1. S2[c] = S[c] /\ P2[c] = P[c]
    BY DEF Extending
  <1>2. ASSUME c < n
        PROVE  c < m /\ DataSize(P2, c) = DataSize(P, c)
    <2>1. SameUnits(c, P2, P)
      BY <1>2, SameChunk
    <2>2. c < m
      BY <1>2
    <2> QED
      BY <2>1, <2>2, Zenon DEF SameUnits
  <1> QED
    BY <1>1, <1>2, Zenon DEF Reading, readerVars, userVars

\* A write puts its chunks behind the others.
LEMMA WriteStep ==
    ASSUME IInv, NEW size \in 1 .. MaxWrite, Write(size)
    PROVE  IInv'
  <1>1. PICK n \in Nat, S \in [Nat -> Nat], P \in [Nat -> Nat], c \in Nat :
            Shape(n, S, P, c)
    BY DEF IInv
  <1>2. TypeOK /\ Caller /\ Written(n, S, P) /\ c <= n /\ Reading(n, S, P, c)
    BY <1>1 DEF IInv, Shape
  <1>3. size \in Nat /\ size >= 1
    BY EncryptedConnectionAssumption
  <1>4. PICK w \in Seq(UnitOK) :
            /\ w = wire \o Greeting /\ Len(wire) <= Len(w)
            /\ Holding(w, n, S, P, tampered)
    BY <1>2, Greeted, Zenon
  <1>5. PICK r \in Nat : r = Chunks(size) /\ r >= 1
    BY <1>3, Chunking
  <1>6. /\ Frames(n, S, P) /\ P[n] = put /\ put \in Nat /\ tampered \in BOOLEAN
        /\ send_nonce = 2 * n
    BY <1>2 DEF Written, TypeOK
  <1>7. PICK S2 \in [Nat -> Nat], P2 \in [Nat -> Nat] :
            Wrote(r, w, put, size, n, S, P, tampered, S2, P2)
    <2>1. \E S2, P2 \in [Nat -> Nat] :
              Wrote(Chunks(size), w, put, size, n, S, P, tampered, S2, P2)
      BY <1>3, <1>4, <1>6, WroteAll
    <2> QED
      BY <1>5, <2>1, Zenon
  <1>8. PICK m \in Nat : m = n + r /\ m # 0 /\ n <= m
    <2>1. n + r \in Nat /\ n + r # 0 /\ n <= n + r
      <3>1. r >= 1
        BY <1>5
      <3> QED
        BY <3>1
    <2> QED
      BY <2>1, Zenon
  <1>9. PICK f \in Seq(UnitOK) :
            /\ f = FlattenSeq(WriteChunks(2 * n, put, size))
            /\ f = FlattenSeq(SubSeq(WriteChunks(2 * n, put, size), 1, r))
    <2>1. 2 * n \in Nat
      OBVIOUS
    <2>2. /\ WriteChunks(2 * n, put, size) \in Seq(Seq(UnitOK))
          /\ Len(WriteChunks(2 * n, put, size)) = r
      BY <1>3, <1>5, <1>6, <2>1, WriteChunksType
    <2>3. SubSeq(WriteChunks(2 * n, put, size), 1, r) = WriteChunks(2 * n, put, size)
      BY <2>2, SubSeqFull
    <2>4. FlattenSeq(WriteChunks(2 * n, put, size)) \in Seq(UnitOK)
      BY <2>2, FlattenType
    <2> QED
      BY <2>3, <2>4, Zenon
  <1>10. PICK v \in Seq(UnitOK) : v = w \o f
    BY ConcatProperties
  <1>11. wire' = v
    <2>1. wire' = (wire \o Greeting) \o FlattenSeq(WriteChunks(2 * n, put, size))
      BY <1>6, Zenon DEF Write, WriteChunks, Chunks
    <2> QED
      BY <1>4, <1>9, <1>10, <2>1, Zenon
  <1>12. /\ Frames(m, S2, P2) /\ Extending(S2, S, n) /\ Extending(P2, P, n)
         /\ P2[m] = put + Least(r * ChunkLen(size), size)
         /\ Holding(v, m, S2, P2, tampered)
    BY <1>7, <1>8, <1>9, <1>10, Zenon DEF Wrote
  <1>13. P2[m] = put + size
    BY <1>3, <1>5, <1>12, Chunking, Zenon
  <1>14. /\ put' = put + size /\ send_nonce' = 2 * n + 2 * Chunks(size)
         /\ UNCHANGED <<arrived, open, tampered>>
         /\ UNCHANGED <<readerVars, userVars>>
    BY <1>6, Zenon DEF Write, Chunks
  <1>15. send_nonce' = 2 * m
    BY <1>5, <1>8, <1>14
  <1>16. Written(m, S2, P2)'
    BY <1>8, <1>11, <1>12, <1>13, <1>14, <1>15, Zenon DEF Written
  <1>17. Reading(m, S2, P2, c)'
    BY <1>2, <1>8, <1>12, <1>14, WrittenOn
  <1>18. c <= m
    BY <1>2, <1>8
  <1>19. TypeOK'
    <2>1. Len(v) = Len(w) + Len(f)
      <3>1. Len(w \o f) = Len(w) + Len(f)
        BY ConcatProperties
      <3> QED
        BY <1>10, <3>1, Zenon
    <2>2. Len(v) \in Nat /\ Len(f) \in Nat /\ Len(w) \in Nat /\ Len(wire) \in Nat
          /\ arrived \in 0 .. Len(wire)
      <3>1. wire \in Seq(UnitOK) /\ arrived \in 0 .. Len(wire)
        BY <1>2 DEF TypeOK
      <3>2. Len(wire) \in Nat
        BY <3>1, LenProperties
      <3>3. Len(v) \in Nat /\ Len(f) \in Nat /\ Len(w) \in Nat
        BY LenProperties
      <3> QED
        BY <3>1, <3>2, <3>3, Zenon
    <2>3. arrived \in 0 .. Len(v)
      BY <1>4, <2>1, <2>2
    <2>4. 2 * m \in Nat /\ put + size \in Nat
      BY <1>3, <1>6
    <2>5. /\ wire' \in Seq(UnitOK) /\ send_nonce' \in Nat /\ put' \in Nat
          /\ arrived' \in 0 .. Len(wire')
      BY <1>11, <1>14, <1>15, <2>3, <2>4, Zenon
    <2> QED
      BY <1>2, <1>14, <2>5, Zenon DEF TypeOK, readerVars, userVars
  <1>20. Caller'
    BY <1>2, <1>14, Zenon DEF Caller, Wanted, readerVars, userVars
  <1> QED
    BY <1>16, <1>17, <1>18, <1>19, <1>20 DEF IInv, Shape

\* What arrives leaves the chunks where they are.
LEMMA ArriveStep ==
    ASSUME IInv, Arrive
    PROVE  IInv'
  <1>1. TypeOK'
    <2>1. /\ arrived \in 0 .. Len(wire) /\ wire \in Seq(UnitOK)
          /\ taken \in 0 .. arrived
      BY DEF IInv, TypeOK
    <2>2. Len(wire) \in Nat
      BY <2>1
    <2>3. PICK n \in arrived + 1 .. Len(wire) : arrived' = n
      BY DEF Arrive
    <2>4. arrived' \in 0 .. Len(wire) /\ taken \in 0 .. arrived'
      BY <2>1, <2>2, <2>3
    <2> QED
      BY <2>4, Zenon DEF IInv, TypeOK, Arrive, readerVars, userVars, writerVars
  <1>2. Caller'
    <2>1. open
      BY DEF Arrive
    <2> QED
      BY <2>1, Zenon DEF IInv, Caller, Arrive, readerVars, userVars
  <1>3. PICK n \in Nat, S \in [Nat -> Nat], P \in [Nat -> Nat], c \in Nat :
            Shape(n, S, P, c)
    BY Zenon DEF IInv
  <1>4. Shape(n, S, P, c)'
    BY <1>3, Zenon DEF Shape, Written, Reading, Arrive, readerVars, userVars, writerVars
  <1>5. \E m \in Nat, s \in [Nat -> Nat], p \in [Nat -> Nat], d \in Nat :
            Shape(m, s, p, d)'
    BY <1>4, Zenon
  <1> QED
    BY <1>1, <1>2, <1>5, Zenon DEF IInv

\* The end of the connection leaves the stream as it is.
LEMMA CutStep ==
    ASSUME IInv, Cut
    PROVE  IInv'
  <1>1. TypeOK'
    BY Zenon DEF IInv, TypeOK, Cut, readerVars, userVars, writerVars
  <1>2. Caller'
    BY Zenon DEF IInv, Caller, Wanted, Cut, readerVars, userVars
  <1>3. PICK n \in Nat, S \in [Nat -> Nat], P \in [Nat -> Nat], c \in Nat :
            Shape(n, S, P, c)
    BY Zenon DEF IInv
  <1>4. Shape(n, S, P, c)'
    BY <1>3, Zenon DEF Shape, Written, Reading, Cut, readerVars, userVars, writerVars
  <1>5. \E m \in Nat, s \in [Nat -> Nat], p \in [Nat -> Nat], d \in Nat :
            Shape(m, s, p, d)'
    BY <1>4, Zenon
  <1> QED
    BY <1>1, <1>2, <1>5, Zenon DEF IInv

\* A unit that is altered stays a unit, and where it is the stream is tampered.
LEMMA TamperedUnit ==
    ASSUME NEW w \in Seq(UnitOK), NEW i \in 1 .. Len(w)
    PROVE  /\ [w EXCEPT ![i] = Garbage] \in Seq(UnitOK)
           /\ Len([w EXCEPT ![i] = Garbage]) = Len(w)
           /\ \A j, unit, t : j \in 1 .. Len(w) /\ IsUnit(w, j, unit, t) =>
                  IsUnit([w EXCEPT ![i] = Garbage], j, unit, TRUE)
  <1>1. Garbage \in UnitOK
    BY DEF Garbage, UnitOK
  <1>2. PICK g \in UnitOK : g = Garbage
    BY <1>1, Zenon
  <1>3. /\ [w EXCEPT ![i] = g] \in Seq(UnitOK)
        /\ Len([w EXCEPT ![i] = g]) = Len(w)
        /\ \A j \in 1 .. Len(w) :
              [w EXCEPT ![i] = g][j] = IF j = i THEN g ELSE w[j]
    BY ExceptSeq
  <1> QED
    BY <1>2, <1>3, Zenon DEF IsUnit

\* Altering a unit leaves every other where it is.
LEMMA TamperStep ==
    ASSUME IInv, Tamper
    PROVE  IInv'
  <1>1. PICK n \in Nat, S \in [Nat -> Nat], P \in [Nat -> Nat], c \in Nat :
            Shape(n, S, P, c)
    BY DEF IInv
  <1>2. TypeOK /\ Caller /\ Written(n, S, P) /\ c <= n /\ Reading(n, S, P, c)
    BY <1>1 DEF IInv, Shape
  <1>3. PICK i \in arrived + 1 .. Len(wire) : wire' = [wire EXCEPT ![i] = Garbage]
    BY DEF Tamper
  <1>4. wire \in Seq(UnitOK) /\ Len(wire) \in Nat /\ i \in 1 .. Len(wire)
    BY <1>2, <1>3 DEF TypeOK
  <1>5. PICK w \in Seq(UnitOK) :
          /\ w = wire' /\ Len(w) = Len(wire)
          /\ \A j, unit, t : j \in 1 .. Len(wire) /\ IsUnit(wire, j, unit, t) =>
                  IsUnit(w, j, unit, TRUE)
    BY <1>3, <1>4, TamperedUnit, Zenon
  <1>6. n # 0
    <2>1. wire # <<>>
      BY <1>4
    <2> QED
      BY <1>2, <2>1 DEF Written
  <1>7. /\ Frames(n, S, P) /\ Len(wire) = S[n] /\ Laid(wire, n, S, P, tampered)
    BY <1>2, <1>6 DEF Written, Holding
  <1>8. SaltLaid(w, TRUE)
    <2>1. SaltSize \in Nat
      BY EncryptedConnectionAssumption
    <2>2. \A j \in 1 .. SaltSize : j <= Len(wire) => j \in 1 .. Len(wire)
      BY <1>4, <2>1
    <2> QED
      BY <1>5, <1>7, <2>2, Zenon DEF Laid, SaltLaid
  <1>9. ASSUME NEW d \in 0 .. n - 1
        PROVE  LengthLaid(w, d, S, P, TRUE) /\ PayloadLaid(w, d, S, P, TRUE)
    <2>1. d \in Nat /\ d < n
      OBVIOUS
    <2>2. /\ \A a \in 1 .. LengthSize : S[d] + a \in 1 .. S[n]
          /\ \A a \in 1 .. DataSize(P, d) + TagSize :
                 S[d] + LengthSize + a \in 1 .. S[n]
      BY <1>7, <2>1, Places
    <2>3. LengthLaid(wire, d, S, P, tampered) /\ PayloadLaid(wire, d, S, P, tampered)
      BY <1>7, Zenon DEF Laid
    <2> QED
      BY <1>5, <1>7, <2>2, <2>3, Zenon DEF LengthLaid, PayloadLaid
  <1>10. Holding(w, n, S, P, TRUE)
    BY <1>5, <1>7, <1>8, <1>9, Zenon DEF Holding, Laid
  <1>11. /\ tampered' = TRUE
         /\ UNCHANGED <<writerVars, arrived, open, readerVars, userVars>>
    BY DEF Tamper
  <1>12. Shape(n, S, P, c)'
    BY <1>2, <1>5, <1>6, <1>10, <1>11, Zenon
       DEF Shape, Written, Reading, readerVars, userVars, writerVars
  <1>13. TypeOK'
    BY <1>2, <1>5, <1>11, Zenon DEF TypeOK, readerVars, userVars, writerVars
  <1>14. Caller'
    BY <1>2, <1>11, Zenon DEF Caller, Wanted, readerVars, userVars
  <1> QED
    BY <1>12, <1>13, <1>14, Zenon DEF IInv

-----------------------------------------------------------------------------
(* The steps of the reader. *)

\* What async_read has asked for is there, and its handler finds it.
LEMMA ReadUnits ==
    ASSUME TypeOK, Ready
    PROVE  /\ Wanted \in Nat /\ Wanted >= 1
           /\ taken \in Nat /\ taken + Wanted \in 0 .. arrived
           /\ Read \in Seq(UnitOK) /\ Len(Read) = Wanted
           /\ \A i \in 1 .. Wanted : /\ taken + i \in 1 .. Len(wire)
                                     /\ Read[i] = wire[taken + i]
  <1>1. Wanted \in Nat /\ Wanted >= 1
    <2>1. /\ SaltSize \in Nat /\ SaltSize >= 1 /\ TagSize \in Nat /\ TagSize >= 1
          /\ MaxChunk \in Nat
      BY EncryptedConnectionAssumption
    <2>2. /\ read_state \in {"Salt", "Length", "Payload"}
          /\ current_payload_len \in 0 .. MaxChunk
      BY DEF TypeOK
    <2>3. current_payload_len \in Nat
      BY <2>1, <2>2
    <2> QED
      BY <2>1, <2>2, <2>3 DEF Wanted
  <1>2. PICK z \in Nat : z = Wanted /\ z >= 1
    BY <1>1
  <1>3. /\ wire \in Seq(UnitOK) /\ arrived \in 0 .. Len(wire) /\ taken \in 0 .. arrived
    BY DEF TypeOK
  <1>4. Len(wire) \in Nat
    BY <1>3, LenProperties
  <1>5. arrived - taken >= z
    BY <1>2, Zenon DEF Ready
  <1>6. /\ arrived \in Nat /\ taken \in Nat /\ taken + z \in 0 .. arrived
        /\ taken + z <= Len(wire)
    BY <1>3, <1>4, <1>5
  <1>7. \A i \in 1 .. z : taken + i \in 1 .. Len(wire)
    BY <1>4, <1>6
  <1>8. PICK a \in Nat, b \in Nat : a = taken + 1 /\ b = taken + z
    BY <1>6
  <1>9. \A i \in a .. b : wire[i] \in UnitOK
    <2>1. \A i \in a .. b : i \in 1 .. Len(wire)
      BY <1>4, <1>6, <1>8
    <2> QED
      BY <1>3, <2>1, ElementOfSeq
  <1>10. /\ SubSeq(wire, a, b) \in Seq(UnitOK)
         /\ Len(SubSeq(wire, a, b)) = IF a <= b THEN b - a + 1 ELSE 0
         /\ \A i \in 1 .. b - a + 1 : SubSeq(wire, a, b)[i] = wire[a + i - 1]
    <2>1. a \in Int /\ b \in Int
      OBVIOUS
    <2> QED
      BY <1>9, <2>1, SubSeqProperties
  <1>11. a <= b /\ b - a + 1 = z /\ \A i \in 1 .. z : a + i - 1 = taken + i
    BY <1>2, <1>6, <1>8
  <1>12. Read = SubSeq(wire, a, b)
    BY <1>2, <1>8, Zenon DEF Read
  <1> QED
    BY <1>1, <1>2, <1>6, <1>7, <1>10, <1>11, <1>12, Zenon

\* The units of a block, unless somebody has altered one.
Sealed(u, kind, m, data, t) ==
    /\ kind \in {"length", "payload"} /\ m \in Nat /\ data \in Seq(Nat)
    /\ u \in Seq(UnitOK) /\ Len(u) = BlockSize(kind, data)
    /\ \A i \in 1 .. BlockSize(kind, data) : IsUnit(u, i,
            [kind |-> kind, nonce |-> m, data |-> data, at |-> i], t)

\* It opens if nobody has, and if it opens it is the one that was sealed.
Opened(u, kind, m, data, t) ==
    /\ ~t => u = Block(kind, m, u[1].data)
    /\ u = Block(kind, m, u[1].data) => u[1].data = data

\* What a chunk is made of: a length or a payload, under a nonce.
Sealable(kind, m, data) ==
    kind \in {"length", "payload"} /\ m \in Nat /\ data \in Seq(Nat)

\* The units of a block, one after the other.
InOrder(kind, m, data) ==
    /\ BlockSize(kind, data) \in Nat \ {0}
    /\ \A i \in 1 .. BlockSize(kind, data) : Block(kind, m, data)[i] =
            [kind |-> kind, nonce |-> m, data |-> data, at |-> i]

\* The lemma on the units of a block, as opening one uses it.
LEMMA BlockTells ==
    ASSUME NEW kind, NEW m, NEW data, Sealable(kind, m, data)
    PROVE  InOrder(kind, m, data)
  BY BlockUnits DEF InOrder, Sealable

\* Opening a block.
LEMMA Opens ==
    ASSUME NEW kind, NEW m, NEW data, NEW u, NEW t,
           Sealed(u, kind, m, data, t)
    PROVE  Opened(u, kind, m, data, t)
  <1> USE DEF Sealed
  <1>1. /\ Block(kind, m, data) \in Seq(UnitOK)
        /\ BlockSize(kind, data) \in Nat \ {0}
        /\ Len(Block(kind, m, data)) = BlockSize(kind, data)
        /\ \A i \in 1 .. BlockSize(kind, data) : Block(kind, m, data)[i] =
                [kind |-> kind, nonce |-> m, data |-> data, at |-> i]
    BY BlockUnits
  <1>2. Len(u) = BlockSize(kind, data) /\ 1 \in 1 .. Len(u)
    BY <1>1
  <1>3. IsUnit(u, 1, [kind |-> kind, nonce |-> m, data |-> data, at |-> 1], t)
    BY <1>2, Zenon
  <1>4. ASSUME ~t
        PROVE  u = Block(kind, m, u[1].data)
    <2>1. u[1] = [kind |-> kind, nonce |-> m, data |-> data, at |-> 1]
      BY <1>3, <1>4, Zenon DEF IsUnit
    <2>2. u[1].data = data
      BY <2>1
    <2>3. ASSUME NEW i \in 1 .. Len(u)
          PROVE  u[i] = Block(kind, m, data)[i]
      <3>1. IsUnit(u, i, [kind |-> kind, nonce |-> m, data |-> data, at |-> i], t)
        BY <1>2, Zenon
      <3> QED
        BY <1>1, <1>2, <1>4, <3>1, Zenon DEF IsUnit
    <2>4. u = Block(kind, m, data)
      <3>1. PICK b \in Seq(UnitOK) : b = Block(kind, m, data)
        BY <1>1, Zenon
      <3>2. Len(u) = Len(b) /\ \A i \in 1 .. Len(u) : u[i] = b[i]
        BY <1>1, <1>2, <2>3, <3>1, Zenon
      <3>3. u = b
        BY <3>2, SeqEqual
      <3> QED
        BY <3>1, <3>3, Zenon
    <2> QED
      BY <2>2, <2>4, Zenon
  <1>5. ASSUME u = Block(kind, m, u[1].data)
        PROVE  u[1].data = data
    <2>1. u[1] \in UnitOK
      BY <1>2, ElementOfSeq
    <2>2. u[1].data \in Seq(Nat)
      BY <2>1 DEF UnitOK
    <2>3. PICK x \in Seq(Nat) : x = u[1].data
      BY <2>2, Zenon
    <2>4. InOrder(kind, m, x)
      <3>1. Sealable(kind, m, x)
        BY DEF Sealable
      <3> QED
        BY <3>1, BlockTells, Zenon
    <2>5. /\ BlockSize(kind, x) \in Nat \ {0}
          /\ \A i \in 1 .. BlockSize(kind, x) : Block(kind, m, x)[i] =
                [kind |-> kind, nonce |-> m, data |-> x, at |-> i]
      BY <2>4, Zenon DEF InOrder
    <2>6. 1 \in 1 .. BlockSize(kind, x)
      BY <2>5
    <2>7. u[1] = [kind |-> kind, nonce |-> m, data |-> x, at |-> 1]
      BY <1>5, <2>3, <2>5, <2>6, Zenon
    <2>8. u[1].kind # "none"
      BY <2>7
    <2>9. u[1] # Garbage
      BY <2>8 DEF Garbage
    <2>10. u[1] = [kind |-> kind, nonce |-> m, data |-> data, at |-> 1]
      BY <1>3, <2>9, Zenon DEF IsUnit
    <2> QED
      BY <2>10
  <1> QED
    BY <1>4, <1>5 DEF Opened

\* The reader of a salt is in front of it.
LEMMA AtSalt ==
    ASSUME NEW n \in Nat, NEW S \in [Nat -> Nat], NEW P \in [Nat -> Nat],
           NEW c \in Nat, TypeOK, Shape(n, S, P, c), read_state = "Salt", Ready
    PROVE  /\ n # 0 /\ Wanted = SaltSize /\ c = 0 /\ taken = 0 /\ nonce = 0
           /\ ~tampered => Read = Block("salt", 0, <<>>)
  <1>1. /\ Wanted \in Nat /\ Wanted >= 1 /\ Read \in Seq(UnitOK) /\ Len(Read) = Wanted
        /\ \A i \in 1 .. Wanted : /\ taken + i \in 1 .. Len(wire)
                                  /\ Read[i] = wire[taken + i]
    BY ReadUnits
  <1>2. Wanted = SaltSize /\ c = 0 /\ taken = 0 /\ nonce = 0
    BY DEF Wanted, Shape, Reading
  <1>3. \A i \in 1 .. Wanted : taken + i = i /\ i \in Nat
    BY <1>1, <1>2
  <1>4. \A i \in 1 .. SaltSize : i \in 1 .. Len(wire) /\ Read[i] = wire[i]
    BY <1>1, <1>2, <1>3, Zenon
  <1>5. n # 0
    <2>1. 1 \in 1 .. SaltSize
      BY EncryptedConnectionAssumption
    <2>2. Len(wire) # 0
      BY <1>4, <2>1
    <2>3. wire # <<>>
      BY <2>2
    <2> QED
      BY <2>3 DEF Shape, Written
  <1>6. ASSUME ~tampered
        PROVE  Read = Block("salt", 0, <<>>)
    <2>1. SaltLaid(wire, tampered)
      BY <1>5, Zenon DEF Shape, Written, Holding, Laid
    <2>2. wire \in Seq(UnitOK)
      BY DEF TypeOK
    <2>3. Len(wire) \in Nat
      BY <2>2, LenProperties
    <2>4. \A i \in 1 .. SaltSize : i <= Len(wire)
      BY <1>4, <2>3
    <2>5. \A i \in 1 .. SaltSize : Read[i] = SaltUnit(i)
      BY <1>4, <1>6, <2>1, <2>4, Zenon DEF SaltLaid, IsUnit
    <2>6. /\ Block("salt", 0, <<>>) \in Seq(UnitOK)
          /\ Len(Block("salt", 0, <<>>)) = SaltSize
          /\ \A a \in 1 .. SaltSize : Block("salt", 0, <<>>)[a] = SaltUnit(a)
      BY SaltUnits
    <2>7. PICK b \in Seq(UnitOK), z \in Seq(UnitOK) :
              b = Block("salt", 0, <<>>) /\ z = Read
      BY <1>1, <2>6, Zenon
    <2>8. Len(z) = Len(b) /\ \A i \in 1 .. Len(z) : z[i] = b[i]
      BY <1>1, <1>2, <2>5, <2>6, <2>7, Zenon
    <2>9. z = b
      BY <2>8, SeqEqual
    <2> QED
      BY <2>7, <2>9, Zenon
  <1> QED
    BY <1>2, <1>5, <1>6

\* The reader of a length is in front of the chunk it has not been through.
LEMMA AtLength ==
    ASSUME NEW n \in Nat, NEW S \in [Nat -> Nat], NEW P \in [Nat -> Nat],
           NEW c \in Nat, TypeOK, Caller, Shape(n, S, P, c),
           read_state = "Length", Ready
    PROVE  /\ Wanted = LengthSize /\ c < n /\ nonce = 2 * c /\ taken = S[c]
           /\ DataSize(P, c) \in Nat
           /\ Decrypts("length", Read) => Read[1].data = <<DataSize(P, c)>>
           /\ ~tampered => Decrypts("length", Read)
  <1>1. /\ Wanted \in Nat /\ Wanted >= 1 /\ Read \in Seq(UnitOK) /\ Len(Read) = Wanted
        /\ \A i \in 1 .. Wanted : /\ taken + i \in 1 .. Len(wire)
                                  /\ Read[i] = wire[taken + i]
    BY ReadUnits
  <1>2. error = "none"
    BY DEF Caller, Ready
  <1>3. Wanted = LengthSize /\ nonce = 2 * c /\ taken = S[c] /\ c <= n
    BY <1>2 DEF Wanted, LengthSize, Shape, Reading
  <1>4. 1 \in 1 .. Wanted
    BY <1>1
  <1>5. n # 0
    <2>1. wire # <<>>
      <3>1. taken + 1 \in 1 .. Len(wire)
        BY <1>1, <1>4, Zenon
      <3> QED
        BY <3>1
    <2> QED
      BY <2>1 DEF Shape, Written
  <1>6. Frames(n, S, P) /\ Len(wire) = S[n] /\ Laid(wire, n, S, P, tampered)
    BY <1>5, Zenon DEF Shape, Written, Holding
  <1>7. c # n
    <2>1. S[c] + 1 \in 1 .. S[n]
      BY <1>1, <1>3, <1>4, <1>6, Zenon
    <2> QED
      BY <2>1
  <1>8. c < n /\ c \in 0 .. n - 1
    BY <1>3, <1>7
  <1>9. DataSize(P, c) \in Nat
    <2>1. OneFrame(c, n, S, P)
      BY <1>6, <1>8, FrameAt
    <2> QED
      BY <2>1 DEF OneFrame
  <1>10. PICK y \in Nat, m \in Nat, u \in Seq(UnitOK) :
            y = DataSize(P, c) /\ m = 2 * c /\ u = Read
    <2>1. 2 * c \in Nat
      OBVIOUS
    <2> QED
      BY <1>1, <1>9, <2>1, Zenon
  <1>11. <<y>> \in Seq(Nat) /\ BlockSize("length", <<y>>) = LengthSize
    <2>1. <<y>> \in Seq(Nat)
      OBVIOUS
    <2> QED
      BY <2>1, BlockSizes
  <1>12. \A i \in 1 .. LengthSize : IsUnit(u, i,
            [kind |-> "length", nonce |-> m, data |-> <<y>>, at |-> i], tampered)
    BY <1>1, <1>3, <1>6, <1>8, <1>10, Zenon DEF Laid, LengthLaid, IsUnit, LengthUnit
  <1>13. /\ ~tampered => u = Block("length", m, u[1].data)
         /\ u = Block("length", m, u[1].data) => u[1].data = <<y>>
    <2>1. PICK data \in Seq(Nat) : data = <<y>>
      BY <1>11, Zenon
    <2>2. Sealed(u, "length", m, data, tampered)
      BY <1>1, <1>3, <1>10, <1>11, <1>12, <2>1, Zenon DEF Sealed
    <2>3. Opened(u, "length", m, data, tampered)
      BY <2>2, Opens
    <2> QED
      BY <2>1, <2>3, Zenon DEF Opened
  <1>14. ~tampered => subkey = "right"
    BY DEF Caller
  <1> QED
    BY <1>3, <1>8, <1>9, <1>10, <1>13, <1>14, Zenon DEF Decrypts

\* The reader of a payload is behind its length.
LEMMA AtPayload ==
    ASSUME NEW n \in Nat, NEW S \in [Nat -> Nat], NEW P \in [Nat -> Nat],
           NEW c \in Nat, TypeOK, Caller, Shape(n, S, P, c),
           read_state = "Payload", Ready
    PROVE  /\ Wanted = DataSize(P, c) + TagSize /\ c < n /\ nonce = 2 * c + 1
           /\ taken = S[c] + LengthSize /\ Frames(n, S, P)
           /\ Decrypts("payload", Read) => Read[1].data = DataOf(P, c)
           /\ ~tampered => Decrypts("payload", Read)
  <1>1. /\ Wanted \in Nat /\ Wanted >= 1 /\ Read \in Seq(UnitOK) /\ Len(Read) = Wanted
        /\ \A i \in 1 .. Wanted : /\ taken + i \in 1 .. Len(wire)
                                  /\ Read[i] = wire[taken + i]
    BY ReadUnits
  <1>2. error = "none"
    BY DEF Caller, Ready
  <1>3. /\ Wanted = DataSize(P, c) + TagSize /\ nonce = 2 * c + 1
        /\ taken = S[c] + LengthSize /\ c < n
    BY <1>2 DEF Wanted, Shape, Reading
  <1>4. n # 0 /\ c \in 0 .. n - 1
    BY <1>3
  <1>5. Frames(n, S, P) /\ Laid(wire, n, S, P, tampered)
    BY <1>4, Zenon DEF Shape, Written, Holding
  <1>6. DataSize(P, c) \in Nat
    <2>1. OneFrame(c, n, S, P)
      BY <1>3, <1>5, FrameAt
    <2> QED
      BY <2>1 DEF OneFrame
  <1>7. DataOf(P, c) \in Seq(Nat) /\ Len(DataOf(P, c)) = DataSize(P, c)
    BY <1>6, DataUnits
  <1>8. PICK data \in Seq(Nat), m \in Nat, u \in Seq(UnitOK) :
            data = DataOf(P, c) /\ m = 2 * c + 1 /\ u = Read
    <2>1. 2 * c + 1 \in Nat
      OBVIOUS
    <2> QED
      BY <1>1, <1>7, <2>1, Zenon
  <1>9. BlockSize("payload", data) = DataSize(P, c) + TagSize
    BY <1>7, <1>8, BlockSizes
  <1>10. \A i \in 1 .. BlockSize("payload", data) : IsUnit(u, i,
            [kind |-> "payload", nonce |-> m, data |-> data, at |-> i], tampered)
    BY <1>1, <1>3, <1>4, <1>5, <1>8, <1>9, Zenon
       DEF Laid, PayloadLaid, IsUnit, PayloadUnit
  <1>11. /\ ~tampered => u = Block("payload", m, u[1].data)
         /\ u = Block("payload", m, u[1].data) => u[1].data = data
    <2>1. Sealed(u, "payload", m, data, tampered)
      BY <1>1, <1>3, <1>8, <1>9, <1>10, Zenon DEF Sealed
    <2>2. Opened(u, "payload", m, data, tampered)
      BY <2>1, Opens
    <2> QED
      BY <2>2, Zenon DEF Opened
  <1>12. ~tampered => subkey = "right"
    BY DEF Caller
  <1> QED
    BY <1>3, <1>5, <1>8, <1>11, <1>12, Zenon DEF Decrypts

\* Handing over some of a buffer keeps what there is.
LEMMA HandingOver ==
    ASSUME NEW s, NEW b, NEW m,
           s \in Seq(Nat), b \in Seq(Nat), m \in 0 .. Len(b)
    PROVE  /\ SubSeq(b, 1, m) \in Seq(Nat)
           /\ SubSeq(b, m + 1, Len(b)) \in Seq(Nat)
           /\ Cat(s, SubSeq(b, 1, m)) \in Seq(Nat)
           /\ Cat(Cat(s, SubSeq(b, 1, m)), SubSeq(b, m + 1, Len(b))) = Cat(s, b)
  <1>1. Len(b) \in Nat
    BY LenProperties
  <1>2. SubSeq(b, 1, m) \in Seq(Nat) /\ SubSeq(b, m + 1, Len(b)) \in Seq(Nat)
    <2>1. \A i \in 1 .. Len(b) : b[i] \in Nat
      BY ElementOfSeq
    <2>2. \A i \in 1 .. m : b[i] \in Nat
      BY <1>1, <2>1
    <2>3. \A i \in m + 1 .. Len(b) : b[i] \in Nat
      BY <1>1, <2>1
    <2>4. m \in Int /\ m + 1 \in Int /\ Len(b) \in Int /\ 1 \in Int
      BY <1>1
    <2> QED
      BY <2>2, <2>3, <2>4, SubSeqProperties
  <1>3. PICK x \in Seq(Nat), y \in Seq(Nat) :
            x = SubSeq(b, 1, m) /\ y = SubSeq(b, m + 1, Len(b))
    BY <1>2, Zenon
  <1>4. SubSeq(b, 1, m) \o SubSeq(b, m + 1, Len(b)) = b
    BY SplitSeq
  <1>5. Cat(x, y) = b
    BY <1>3, <1>4, Zenon DEF Cat
  <1>6. Cat(Cat(s, x), y) = Cat(s, Cat(x, y))
    BY Associative
  <1>7. s \o x \in Seq(Nat)
    BY ConcatProperties
  <1> QED
    BY <1>2, <1>3, <1>5, <1>6, <1>7, Zenon DEF Cat

\* The empty sequence adds nothing.
LEMMA CatEmpty ==
    ASSUME NEW T, NEW s, s \in Seq(T)
    PROVE  Cat(s, <<>>) = s /\ Cat(<<>>, s) = s
  <1>1. s \o <<>> = s /\ <<>> \o s = s
    BY ConcatEmptySeq
  <1> QED
    BY <1>1, Zenon DEF Cat

\* A read takes from what is left over, or waits with nothing left over.
LEMMA AsyncReadSomeStep ==
    ASSUME IInv, AsyncReadSome
    PROVE  IInv'
  <1>1. PICK n \in Nat, S \in [Nat -> Nat], P \in [Nat -> Nat], c \in Nat :
            Shape(n, S, P, c)
    BY DEF IInv
  <1>2. TypeOK /\ Caller /\ Written(n, S, P) /\ c <= n /\ Reading(n, S, P, c)
    BY <1>1 DEF IInv, Shape
  <1>3. /\ reading = "none" /\ error = "none" /\ user_buffer = <<>>
        /\ UNCHANGED <<writerVars, streamVars, read_state, subkey, nonce,
                       current_payload_len, taken, error, got>>
    BY <1>2, Zenon DEF AsyncReadSome, Caller
  <1>4. got \in Seq(Nat) /\ decrypted_buffer \in Seq(Nat)
    BY <1>2 DEF TypeOK
  <1>5. CASE decrypted_buffer = <<>>
    <2>1. /\ reading' = "pending" /\ user_buffer' = user_buffer
          /\ decrypted_buffer' = decrypted_buffer
      BY <1>5, Zenon DEF AsyncReadSome
    <2>2. TypeOK'
      BY <1>2, <1>3, <2>1, Zenon DEF TypeOK, writerVars, streamVars
    <2>3. Caller'
      BY <1>2, <1>3, <1>5, <2>1 DEF Caller, Wanted, writerVars, streamVars
    <2>4. Shape(n, S, P, c)'
      BY <1>2, <1>3, <2>1, Zenon DEF Shape, Written, Reading, writerVars, streamVars
    <2> QED
      BY <2>2, <2>3, <2>4, Zenon DEF IInv
  <1>6. CASE decrypted_buffer # <<>>
    <2>1. PICK m : m = Least(BufferSize, Len(decrypted_buffer))
      OBVIOUS
    <2>2. /\ user_buffer' = SubSeq(decrypted_buffer, 1, m)
          /\ decrypted_buffer' =
                SubSeq(decrypted_buffer, m + 1, Len(decrypted_buffer))
          /\ reading' = "posted"
      BY <1>6, <2>1, Zenon DEF AsyncReadSome
    <2>3. m \in 0 .. Len(decrypted_buffer)
      <3>1. Len(decrypted_buffer) \in Nat
        BY <1>4, LenProperties
      <3> QED
        BY <2>1, <3>1, EncryptedConnectionAssumption DEF Least
    <2>4. /\ user_buffer' \in Seq(Nat) /\ decrypted_buffer' \in Seq(Nat)
          /\ Cat(Cat(got, user_buffer'), decrypted_buffer') = Cat(got, decrypted_buffer)
      BY <1>4, <2>2, <2>3, HandingOver, Zenon
    <2>5. Cat(Cat(got, user_buffer), decrypted_buffer) = Cat(got, decrypted_buffer)
      BY <1>3, <1>4, CatEmpty, Zenon
    <2>6. TypeOK'
      BY <1>2, <1>3, <2>2, <2>4 DEF TypeOK, writerVars, streamVars
    <2>7. Caller'
      BY <1>2, <1>3, <2>2 DEF Caller, Wanted, writerVars, streamVars
    <2>8. Shape(n, S, P, c)'
      <3>1. Reading(n, S, P, c)'
        BY <1>2, <1>3, <2>4, <2>5, Zenon DEF Reading
      <3> QED
        BY <1>2, <1>3, <3>1, Zenon DEF Shape, Written, writerVars, streamVars
    <2> QED
      BY <2>6, <2>7, <2>8, Zenon DEF IInv
  <1> QED
    BY <1>5, <1>6

\* The posted handler hands over what the read has put aside.
LEMMA PostedStep ==
    ASSUME IInv, Posted
    PROVE  IInv'
  <1>1. PICK n \in Nat, S \in [Nat -> Nat], P \in [Nat -> Nat], c \in Nat :
            Shape(n, S, P, c)
    BY DEF IInv
  <1>2. TypeOK /\ Caller /\ Written(n, S, P) /\ c <= n /\ Reading(n, S, P, c)
    BY <1>1 DEF IInv, Shape
  <1>3. /\ reading = "posted" /\ reading' = "none" /\ got' = Cat(got, user_buffer)
        /\ user_buffer' = <<>>
        /\ UNCHANGED <<writerVars, streamVars, readerVars, error>>
    BY Zenon DEF Posted, Cat
  <1>4. got \in Seq(Nat) /\ user_buffer \in Seq(Nat) /\ <<>> \in Seq(Nat)
    BY <1>2 DEF TypeOK
  <1>5. Cat(got, user_buffer) \in Seq(Nat)
    <2>1. got \o user_buffer \in Seq(Nat)
      BY <1>4, ConcatProperties
    <2> QED
      BY <2>1, Zenon DEF Cat
  <1>6. Cat(got', user_buffer') = Cat(got, user_buffer)
    BY <1>3, <1>5, CatEmpty, Zenon
  <1>7. TypeOK'
    BY <1>2, <1>3, <1>4, <1>5, Zenon DEF TypeOK, writerVars, streamVars, readerVars
  <1>8. Caller'
    <2>1. error = "none"
      BY <1>2, <1>3 DEF Caller
    <2> QED
      BY <1>2, <1>3, <2>1 DEF Caller, Wanted, writerVars, streamVars, readerVars
  <1>9. Shape(n, S, P, c)'
    BY <1>2, <1>3, <1>6, Zenon
       DEF Shape, Written, Reading, writerVars, streamVars, readerVars
  <1> QED
    BY <1>7, <1>8, <1>9, Zenon DEF IInv

\* At the end of the stream the reader stays where it is.
LEMMA ReadFailsStep ==
    ASSUME IInv, ReadFails
    PROVE  IInv'
  <1>1. /\ reading = "pending" /\ ~open /\ arrived - taken < Wanted
        /\ error' = "eof" /\ reading' = "none" /\ UNCHANGED <<user_buffer, got>>
        /\ UNCHANGED <<writerVars, streamVars, readerVars>>
    BY DEF ReadFails, Fail
  <1>2. TypeOK /\ Caller
    BY DEF IInv
  <1>3. error = "none" /\ user_buffer = <<>> /\ decrypted_buffer = <<>>
    BY <1>1, <1>2 DEF Caller
  <1>4. TypeOK'
    BY <1>1, <1>2, Zenon DEF TypeOK, writerVars, streamVars, readerVars
  <1>5. Caller'
    <2>1. Wanted' = Wanted
      BY <1>1, Zenon DEF Wanted, readerVars
    <2> QED
      BY <1>1, <1>2, <1>3, <2>1, Zenon DEF Caller, writerVars, streamVars, readerVars
  <1>6. PICK n \in Nat, S \in [Nat -> Nat], P \in [Nat -> Nat], c \in Nat :
            Shape(n, S, P, c)
    BY Zenon DEF IInv
  <1>7. Shape(n, S, P, c)'
    <2>1. error # "bad_message"
      BY <1>3
    <2> QED
      BY <1>1, <1>6, <2>1, Zenon
         DEF Shape, Written, Reading, writerVars, streamVars, readerVars
  <1>8. \E m \in Nat, s \in [Nat -> Nat], p \in [Nat -> Nat], d \in Nat :
            Shape(m, s, p, d)'
    BY <1>7, Zenon
  <1> QED
    BY <1>4, <1>5, <1>8, Zenon DEF IInv

\* The salt gives the subkey, and brings the reader to the first chunk.
LEMMA SaltReadStep ==
    ASSUME IInv, SaltRead
    PROVE  IInv'
  <1>1. PICK n \in Nat, S \in [Nat -> Nat], P \in [Nat -> Nat], c \in Nat :
            Shape(n, S, P, c)
    BY DEF IInv
  <1>2. TypeOK /\ Caller /\ Written(n, S, P) /\ c <= n /\ Reading(n, S, P, c)
    BY <1>1 DEF IInv, Shape
  <1>3. /\ read_state = "Salt" /\ Ready /\ read_state' = "Length"
        /\ subkey' = IF Read = Block("salt", 0, <<>>) THEN "right" ELSE "wrong"
        /\ taken' = taken + Wanted
        /\ UNCHANGED <<writerVars, streamVars, nonce, current_payload_len,
                       decrypted_buffer, userVars>>
    BY DEF SaltRead
  <1>4. /\ Wanted = SaltSize /\ c = 0 /\ taken = 0 /\ nonce = 0
        /\ ~tampered => Read = Block("salt", 0, <<>>)
    BY <1>1, <1>2, <1>3, AtSalt
  <1>5. taken' \in 0 .. arrived
    BY <1>2, <1>3, ReadUnits
  <1>6. TypeOK'
    <2>1. subkey' \in {"none", "right", "wrong"}
      BY <1>3
    <2>2. read_state' \in {"Salt", "Length", "Payload"}
      BY <1>3
    <2> QED
      BY <1>2, <1>3, <1>5, <2>1, <2>2, Zenon
         DEF TypeOK, writerVars, streamVars, userVars
  <1>7. reading = "pending" /\ error = "none"
    BY <1>2, <1>3 DEF Ready, Caller
  <1>8. Caller'
    BY <1>2, <1>3, <1>4, <1>7 DEF Caller, streamVars, userVars
  <1>9. Shape(n, S, P, c)'
    <2>1. nonce' = 2 * c /\ taken' = S[c]
      <3>1. S[0] = SaltSize /\ S[0] \in Nat
        BY <1>2 DEF Written, Frames
      <3> QED
        BY <1>3, <1>4, <3>1
    <2>2. Reading(n, S, P, c)'
      BY <1>2, <1>3, <2>1 DEF Reading, userVars
    <2> QED
      BY <1>2, <1>3, <2>2, Zenon DEF Shape, Written, writerVars, streamVars
  <1> QED
    BY <1>6, <1>8, <1>9, Zenon DEF IInv

\* A length tells the reader how much its payload has, or is not opened.
LEMMA LengthReadStep ==
    ASSUME IInv, LengthRead
    PROVE  IInv'
  <1>1. PICK n \in Nat, S \in [Nat -> Nat], P \in [Nat -> Nat], c \in Nat :
            Shape(n, S, P, c)
    BY DEF IInv
  <1>2. TypeOK /\ Caller /\ Written(n, S, P) /\ c <= n /\ Reading(n, S, P, c)
    BY <1>1 DEF IInv, Shape
  <1>3. /\ read_state = "Length" /\ Ready
        /\ taken' = taken + Wanted /\ nonce' = nonce + 1
        /\ UNCHANGED <<writerVars, streamVars, subkey, decrypted_buffer>>
    BY DEF LengthRead
  <1>4. /\ Wanted = LengthSize /\ c < n /\ nonce = 2 * c /\ taken = S[c]
        /\ DataSize(P, c) \in Nat
        /\ Decrypts("length", Read) => Read[1].data = <<DataSize(P, c)>>
        /\ ~tampered => Decrypts("length", Read)
    BY <1>1, <1>2, <1>3, AtLength
  <1>5. taken' \in 0 .. arrived
    BY <1>2, <1>3, ReadUnits
  <1>6. nonce' = 2 * c + 1 /\ taken' = S[c] + LengthSize /\ nonce' \in Nat
    BY <1>3, <1>4
  <1>7. /\ reading = "pending" /\ error = "none" /\ user_buffer = <<>>
        /\ decrypted_buffer = <<>>
    BY <1>2, <1>3 DEF Ready, Caller
  <1>8. Written(n, S, P)'
    BY <1>2, <1>3, Zenon DEF Written, writerVars, streamVars
  <1>9. CASE Decrypts("length", Read)
    <2>1. /\ current_payload_len' = Read[1].data[1] % (MaxChunk + 1)
          /\ read_state' = "Payload" /\ UNCHANGED userVars
      BY <1>9, Zenon DEF LengthRead
    <2>2. DataSize(P, c) <= MaxChunk
      <3>1. c \in 0 .. n - 1
        BY <1>4
      <3> QED
        BY <1>2, <3>1 DEF Written, Frames
    <2>3. current_payload_len' = DataSize(P, c) /\ DataSize(P, c) \in 0 .. MaxChunk
      <3>1. MaxChunk \in Nat
        BY EncryptedConnectionAssumption
      <3>2. PICK y \in Nat : y = DataSize(P, c)
        BY <1>4
      <3>3. <<y>>[1] = y
        OBVIOUS
      <3>4. PICK max \in Nat : max = MaxChunk
        BY <3>1, Zenon
      <3>5. y <= max
        BY <2>2, <3>1, <3>2, <3>4
      <3>6. y \in 0 .. max /\ y % (max + 1) = y
        BY <3>5
      <3>7. y \in 0 .. MaxChunk /\ y % (MaxChunk + 1) = y
        BY <3>4, <3>6, Zenon
      <3> QED
        BY <1>4, <1>9, <2>1, <3>2, <3>3, <3>7, Zenon
    <2>4. TypeOK'
      <3>1. read_state' \in {"Salt", "Length", "Payload"}
        BY <2>1
      <3> QED
        BY <1>2, <1>3, <1>5, <1>6, <2>1, <2>3, <3>1, Zenon
           DEF TypeOK, writerVars, streamVars, userVars
    <2>5. Caller'
      <3>1. read_state # "Salt"
        BY <1>3
      <3>2. error # "eof"
        BY <1>7
      <3> QED
        BY <1>2, <1>3, <2>1, <3>1, <3>2, Zenon DEF Caller, streamVars, userVars
    <2>6. Reading(n, S, P, c)'
      BY <1>2, <1>3, <1>4, <1>6, <2>1, <2>3 DEF Reading, userVars
    <2> QED
      BY <1>2, <1>8, <2>4, <2>5, <2>6, Zenon DEF IInv, Shape
  <1>10. CASE ~Decrypts("length", Read)
    <2>1. /\ error' = "bad_message" /\ reading' = "none"
          /\ UNCHANGED <<user_buffer, got, current_payload_len, read_state>>
      BY <1>10, Zenon DEF LengthRead, Fail
    <2>2. tampered
      BY <1>4, <1>10
    <2>3. TypeOK'
      <3>1. error' \in {"none", "eof", "bad_message"}
        BY <2>1
      <3>2. reading' \in {"none", "posted", "pending"}
        BY <2>1
      <3> QED
        BY <1>2, <1>3, <1>5, <1>6, <2>1, <3>1, <3>2, Zenon
           DEF TypeOK, writerVars, streamVars
    <2>4. Caller'
      BY <1>3, <1>7, <2>1, <2>2 DEF Caller, streamVars
    <2>5. Reading(n, S, P, c)'
      <3>1. read_state' # "Salt"
        BY <1>3, <2>1
      <3> QED
        BY <1>2, <1>3, <2>1, <3>1, Zenon DEF Reading
    <2> QED
      BY <1>2, <1>8, <2>3, <2>4, <2>5, Zenon DEF IInv, Shape
  <1> QED
    BY <1>9, <1>10

\* y units of the plaintext behind the first p.
LEMMA UptoPlus ==
    ASSUME NEW p \in Nat, NEW y \in Nat
    PROVE  /\ Upto(p) \in Seq(Nat) /\ Len(Upto(p)) = p
           /\ Cat(Upto(p), [i \in 1 .. y |-> p + i]) = Upto(p + y)
  <1>1. ASSUME NEW k \in Nat
        PROVE  /\ Upto(k) \in Seq(Nat) /\ Len(Upto(k)) = k
               /\ \A i \in 1 .. k : Upto(k)[i] = i
    <2>1. [i \in 1 .. k |-> i] \in [1 .. k -> Nat]
      OBVIOUS
    <2>2. [i \in 1 .. k |-> i] \in Seq(Nat) /\ Len([i \in 1 .. k |-> i]) = k
      BY <2>1, FunctionIsSeq
    <2> QED
      BY <2>2 DEF Upto
  <1>2. PICK q \in Nat : q = p + y
    OBVIOUS
  <1>3. PICK u \in Seq(Nat) :
            /\ u = Upto(p) /\ Len(u) = p /\ \A i \in 1 .. p : u[i] = i
    BY <1>1, Zenon
  <1>4. PICK v \in Seq(Nat) :
            /\ v = Upto(q) /\ Len(v) = q /\ \A i \in 1 .. q : v[i] = i
    BY <1>1, Zenon
  <1>5. PICK d \in Seq(Nat) :
            /\ d = [i \in 1 .. y |-> p + i] /\ Len(d) = y
            /\ \A i \in 1 .. y : d[i] = p + i
    <2> DEFINE f == [i \in 1 .. y |-> p + i]
    <2>1. f \in [1 .. y -> Nat] /\ \A i \in 1 .. y : f[i] = p + i
      OBVIOUS
    <2>2. f \in Seq(Nat) /\ Len(f) = y
      BY <2>1, FunctionIsSeq
    <2> QED
      BY <2>1, <2>2, Zenon
  <1>6. PICK w \in Seq(Nat) :
          /\ w = u \o d /\ Len(w) = p + y
          /\ \A i \in 1 .. p + y : w[i] = IF i <= p THEN u[i] ELSE d[i - p]
    <2>1. /\ u \o d \in Seq(Nat) /\ Len(u \o d) = Len(u) + Len(d)
          /\ \A i \in 1 .. Len(u) + Len(d) :
                (u \o d)[i] = IF i <= Len(u) THEN u[i] ELSE d[i - Len(u)]
      BY ConcatProperties
    <2>2. Len(u) = p /\ Len(d) = y
      BY <1>3, <1>5
    <2> QED
      BY <2>1, <2>2, Zenon
  <1>7. ASSUME NEW i \in 1 .. q
        PROVE  w[i] = v[i]
    <2>1. CASE i <= p
      <3>1. i \in 1 .. p /\ i \in 1 .. p + y
        BY <1>2, <2>1
      <3> QED
        BY <1>3, <1>4, <1>6, <2>1, <3>1, Zenon
    <2>2. CASE ~(i <= p)
      <3>1. i - p \in 1 .. y /\ p + (i - p) = i /\ i \in 1 .. p + y
        BY <1>2, <2>2
      <3> QED
        BY <1>4, <1>5, <1>6, <2>2, <3>1, Zenon
    <2> QED
      BY <2>1, <2>2
  <1>8. w = v
    <2>1. Len(w) = q /\ Len(w) = Len(v)
      BY <1>2, <1>4, <1>6
    <2> QED
      BY <1>7, <2>1, SeqEqual
  <1> QED
    BY <1>2, <1>3, <1>4, <1>5, <1>6, <1>8, Zenon DEF Cat

\* The data of a chunk is what follows that of the chunks before it.
LEMMA UptoNext ==
    ASSUME NEW P \in [Nat -> Nat], NEW c \in Nat, DataSize(P, c) \in Nat
    PROVE  Cat(Upto(P[c]), DataOf(P, c)) = Upto(P[c + 1])
  <1>1. PICK y \in Nat, p \in Nat : y = DataSize(P, c) /\ p = P[c]
    OBVIOUS
  <1>2. P[c + 1] = p + y
    BY <1>1 DEF DataSize
  <1>3. DataOf(P, c) = [i \in 1 .. y |-> p + i]
    BY <1>1, Zenon DEF DataOf
  <1> QED
    BY <1>1, <1>2, <1>3, UptoPlus, Zenon

\* A payload brings the reader to the next chunk, or is not opened.
LEMMA PayloadReadStep ==
    ASSUME IInv, PayloadRead
    PROVE  IInv'
  <1>1. PICK n \in Nat, S \in [Nat -> Nat], P \in [Nat -> Nat], c \in Nat :
            Shape(n, S, P, c)
    BY DEF IInv
  <1>2. TypeOK /\ Caller /\ Written(n, S, P) /\ c <= n /\ Reading(n, S, P, c)
    BY <1>1 DEF IInv, Shape
  <1>3. /\ read_state = "Payload" /\ Ready
        /\ taken' = taken + Wanted /\ nonce' = nonce + 1
        /\ UNCHANGED <<writerVars, streamVars, subkey, current_payload_len>>
    BY DEF PayloadRead
  <1>4. /\ Wanted = DataSize(P, c) + TagSize /\ c < n /\ nonce = 2 * c + 1
        /\ taken = S[c] + LengthSize /\ Frames(n, S, P)
        /\ Decrypts("payload", Read) => Read[1].data = DataOf(P, c)
        /\ ~tampered => Decrypts("payload", Read)
    BY <1>1, <1>2, <1>3, AtPayload
  <1>5. taken' \in 0 .. arrived
    BY <1>2, <1>3, ReadUnits
  <1>6. PICK e \in Nat : e = c + 1 /\ e <= n
    BY <1>4
  <1>7. DataSize(P, c) \in Nat /\ S[e] = S[c] + LengthSize + DataSize(P, c) + TagSize
    <2>1. OneFrame(c, n, S, P)
      BY <1>4, FrameAt
    <2> QED
      BY <1>6, <2>1 DEF OneFrame
  <1>8. nonce' = 2 * e /\ taken' = S[e] /\ nonce' \in Nat
    <2>1. nonce' = 2 * e /\ nonce' \in Nat
      BY <1>3, <1>4, <1>6
    <2>2. LengthSize \in Nat /\ TagSize \in Nat
      BY EncryptedConnectionAssumption DEF LengthSize
    <2>3. PICK y \in Nat, h \in Nat, d \in Nat, k \in Nat :
              y = DataSize(P, c) /\ h = LengthSize /\ d = TagSize /\ k = S[c]
      BY <1>7, <2>2
    <2>4. k + h + y + d = (k + h) + (y + d)
      OBVIOUS
    <2>5. taken' = (k + h) + (y + d)
      BY <1>3, <1>4, <2>3, Zenon
    <2> QED
      BY <1>7, <2>1, <2>3, <2>4, <2>5, Zenon
  <1>9. /\ reading = "pending" /\ error = "none" /\ user_buffer = <<>>
        /\ decrypted_buffer = <<>>
    BY <1>2, <1>3 DEF Ready, Caller
  <1>10. Written(n, S, P)'
    BY <1>2, <1>3, Zenon DEF Written, writerVars, streamVars
  <1>11. got \in Seq(Nat)
    BY <1>2 DEF TypeOK
  <1>12. CASE Decrypts("payload", Read)
    <2>1. PICK b \in Seq(Nat) : b = DataOf(P, c)
      BY <1>7, DataUnits, Zenon
    <2>2. decrypted_buffer \o Read[1].data = b
      <3>1. <<>> \o b = b
        BY ConcatEmptySeq
      <3> QED
        BY <1>4, <1>9, <1>12, <2>1, <3>1, Zenon
    <2>3. PICK m : m = Least(BufferSize, Len(b))
      OBVIOUS
    <2>4. m \in 0 .. Len(b)
      <3>1. Len(b) \in Nat
        BY LenProperties
      <3> QED
        BY <2>3, <3>1, EncryptedConnectionAssumption DEF Least
    <2>5. HandOver(b) /\ read_state' = "Length" /\ reading' = "none"
          /\ UNCHANGED <<user_buffer, error>>
      BY <1>12, <2>2, Zenon DEF PayloadRead
    <2>6. /\ got' = Cat(got, SubSeq(b, 1, m))
          /\ decrypted_buffer' = SubSeq(b, m + 1, Len(b))
      BY <2>3, <2>5, Zenon DEF HandOver, Cat
    <2>7. /\ got' \in Seq(Nat) /\ decrypted_buffer' \in Seq(Nat)
          /\ Cat(got', decrypted_buffer') = Cat(got, b)
      BY <1>11, <2>4, <2>6, HandingOver, Zenon
    <2>8. TypeOK'
      <3>1. read_state' \in {"Salt", "Length", "Payload"}
        BY <2>5
      <3>2. reading' \in {"none", "posted", "pending"}
        BY <2>5
      <3> QED
        BY <1>2, <1>3, <1>5, <1>8, <2>5, <2>7, <3>1, <3>2, Zenon
           DEF TypeOK, writerVars, streamVars
    <2>9. Caller'
      BY <1>2, <1>3, <1>9, <2>5 DEF Caller, streamVars
    <2>10. Cat(Cat(got', user_buffer'), decrypted_buffer') = Upto(P[e])
      <3>1. Cat(got', user_buffer') = got'
        BY <1>9, <2>5, <2>7, CatEmpty, Zenon
      <3>2. Cat(Cat(got, user_buffer), decrypted_buffer) = got
        BY <1>9, <1>11, CatEmpty, Zenon
      <3>3. got = Upto(P[c])
        BY <1>2, <3>2, Zenon DEF Reading
      <3>4. Cat(Upto(P[c]), DataOf(P, c)) = Upto(P[e])
        BY <1>6, <1>7, UptoNext, Zenon
      <3> QED
        BY <2>1, <2>7, <3>1, <3>3, <3>4, Zenon
    <2>11. Reading(n, S, P, e)'
      BY <1>8, <2>5, <2>10 DEF Reading
    <2> QED
      BY <1>6, <1>10, <2>8, <2>9, <2>11, Zenon DEF IInv, Shape
  <1>13. CASE ~Decrypts("payload", Read)
    <2>1. /\ error' = "bad_message" /\ reading' = "none"
          /\ UNCHANGED <<user_buffer, got, decrypted_buffer, read_state>>
      BY <1>13, Zenon DEF PayloadRead, Fail
    <2>2. tampered
      BY <1>4, <1>13
    <2>3. TypeOK'
      <3>1. error' \in {"none", "eof", "bad_message"}
        BY <2>1
      <3>2. reading' \in {"none", "posted", "pending"}
        BY <2>1
      <3> QED
        BY <1>2, <1>3, <1>5, <1>8, <2>1, <3>1, <3>2, Zenon
           DEF TypeOK, writerVars, streamVars
    <2>4. Caller'
      BY <1>3, <1>9, <2>1, <2>2 DEF Caller, streamVars
    <2>5. Reading(n, S, P, c)'
      <3>1. read_state' # "Salt"
        BY <1>3, <2>1
      <3> QED
        BY <1>2, <1>3, <2>1, <3>1, Zenon DEF Reading
    <2> QED
      BY <1>2, <1>10, <2>3, <2>4, <2>5, Zenon DEF IInv, Shape
  <1> QED
    BY <1>12, <1>13

\* Every step keeps the invariant.
LEMMA StepShape == IInv /\ [Next]_vars => IInv'
  <1> SUFFICES ASSUME IInv, [Next]_vars
               PROVE  IInv'
    OBVIOUS
  <1>1. CASE UNCHANGED vars
    <2>1. UNCHANGED <<writerVars, streamVars, readerVars, userVars>>
      BY <1>1 DEF vars
    <2>2. TypeOK' /\ Caller'
      BY <2>1, Zenon DEF IInv, TypeOK, Caller, Wanted, writerVars, streamVars,
                         readerVars, userVars
    <2>3. ASSUME NEW n, NEW S, NEW P, NEW c, Shape(n, S, P, c)
          PROVE  Shape(n, S, P, c)'
      BY <2>1, <2>3, Zenon DEF Shape, Written, Reading, writerVars, streamVars,
                               readerVars, userVars
    <2> QED
      BY <2>2, <2>3, Zenon DEF IInv
  <1>2. ASSUME NEW size \in 1 .. MaxWrite, Write(size)
        PROVE  IInv'
    BY <1>2, WriteStep
  <1> QED
    BY <1>1, <1>2, ArriveStep, CutStep, TamperStep, AsyncReadSomeStep,
       PostedStep, SaltReadStep, LengthReadStep, PayloadReadStep, ReadFailsStep
       DEF Next

\* The invariant holds at every moment.
LEMMA Inductiveness == Spec => []IInv
  BY InitShape, StepShape, PTL DEF Spec

-----------------------------------------------------------------------------
(* What the stream's units are. *)

\* The i-th unit is one of the salt, or of the length or payload of a chunk.
OfSalt(w, i, t) == i <= SaltSize /\ IsUnit(w, i, SaltUnit(i), t)
OfLength(w, i, c, a, n, S, P, t) ==
    /\ c \in Nat /\ c < n /\ a \in Nat /\ a >= 1 /\ a <= LengthSize
    /\ i = S[c] + a /\ IsUnit(w, i, LengthUnit(P, c, a), t)
OfPayload(w, i, c, a, n, S, P, t) ==
    /\ c \in Nat /\ c < n /\ a \in Nat /\ a >= 1 /\ a <= DataSize(P, c) + TagSize
    /\ i = S[c] + LengthSize + a /\ IsUnit(w, i, PayloadUnit(P, c, a), t)

\* There is no other unit in the stream.
LEMMA UnitAt ==
    ASSUME NEW n, NEW S, NEW P, NEW w, NEW t, NEW i,
           n \in Nat, S \in [Nat -> Nat], P \in [Nat -> Nat],
           Frames(n, S, P), Holding(w, n, S, P, t), i \in 1 .. Len(w)
    PROVE  \/ OfSalt(w, i, t)
           \/ \E c, a : OfLength(w, i, c, a, n, S, P, t)
           \/ \E c, a : OfPayload(w, i, c, a, n, S, P, t)
  <1>1. /\ SaltSize \in Nat /\ LengthSize \in Nat /\ TagSize \in Nat
    BY EncryptedConnectionAssumption DEF LengthSize
  <1>2. Len(w) = S[n] /\ S[0] = SaltSize /\ S[n] \in Nat /\ S[0] \in Nat
    BY DEF Holding, Frames
  <1>3. Laid(w, n, S, P, t)
    BY DEF Holding
  <1>4. i \in Nat /\ i >= 1 /\ i <= S[n] /\ i <= Len(w)
    BY <1>2
  <1>5. CASE i <= SaltSize
    <2>1. i \in 1 .. SaltSize
      BY <1>1, <1>4, <1>5
    <2> QED
      BY <1>3, <1>4, <1>5, <2>1, Zenon DEF Laid, SaltLaid, OfSalt
  <1>6. CASE ~(i <= SaltSize)
    <2>1. i \in S[0] + 1 .. S[n]
      BY <1>1, <1>2, <1>4, <1>6
    <2>2. PICK c \in 0 .. n - 1 : S[c] < i /\ i <= S[c + 1]
      BY <2>1, Zenon DEF Frames, Starts
    <2>3. c \in Nat /\ c < n
      OBVIOUS
    <2>4. OneFrame(c, n, S, P)
      BY <2>3, FrameAt
    <2>5. LengthLaid(w, c, S, P, t) /\ PayloadLaid(w, c, S, P, t)
      BY <1>3, Zenon DEF Laid
    <2>6. DataSize(P, c) \in Nat /\ S[c] \in Nat
          /\ S[c + 1] = S[c] + LengthSize + DataSize(P, c) + TagSize
      BY <2>3, <2>4, Zenon DEF OneFrame
    <2>7. PICK h \in Nat, d \in Nat, y \in Nat, k \in Nat :
              h = LengthSize /\ d = TagSize /\ y = DataSize(P, c) /\ k = S[c]
      BY <1>1, <2>6, Zenon
    <2>8. k < i /\ i <= k + h + y + d
      BY <2>2, <2>6, <2>7, Zenon
    <2>9. CASE i <= k + h
      <3>1. PICK a \in Nat : i = k + a /\ a >= 1 /\ a <= h /\ a \in 1 .. h
        <4>1. i - k \in Nat /\ i = k + (i - k) /\ i - k >= 1 /\ i - k <= h
          BY <1>4, <2>8, <2>9
        <4> QED
          BY <4>1
      <3>2. IsUnit(w, i, LengthUnit(P, c, a), t)
        BY <2>5, <2>7, <3>1, Zenon DEF LengthLaid
      <3>3. OfLength(w, i, c, a, n, S, P, t)
        BY <2>3, <2>7, <3>1, <3>2, Zenon DEF OfLength
      <3> QED
        BY <3>3
    <2>10. CASE ~(i <= k + h)
      <3>1. PICK a \in Nat : i = k + h + a /\ a >= 1 /\ a <= y + d /\ a \in 1 .. y + d
        <4>1. /\ i - (k + h) \in Nat /\ i = k + h + (i - (k + h))
              /\ i - (k + h) >= 1 /\ i - (k + h) <= y + d
          BY <1>4, <2>8, <2>10
        <4> QED
          BY <4>1
      <3>2. IsUnit(w, i, PayloadUnit(P, c, a), t)
        BY <2>5, <2>7, <3>1, Zenon DEF PayloadLaid
      <3>3. OfPayload(w, i, c, a, n, S, P, t)
        BY <2>3, <2>7, <3>1, <3>2, Zenon DEF OfPayload
      <3> QED
        BY <3>3
    <2> QED
      BY <2>9, <2>10
  <1> QED
    BY <1>5, <1>6

\* A length and a payload say by their nonce which chunk they are of.
Fixed(u, c, P) ==
    \/ u.kind = "length" /\ u.nonce = 2 * c /\ u.data = <<DataSize(P, c)>>
    \/ u.kind = "payload" /\ u.nonce = 2 * c + 1 /\ u.data = DataOf(P, c)

\* Every length and every payload in the stream is one of a chunk.
LEMMA UnitFixed ==
    ASSUME NEW n, NEW S, NEW P, NEW w, NEW t, NEW i,
           n \in Nat, S \in [Nat -> Nat], P \in [Nat -> Nat],
           Frames(n, S, P), Holding(w, n, S, P, t), i \in 1 .. Len(w),
           w[i].kind \in {"length", "payload"}
    PROVE  \E c \in Nat : Fixed(w[i], c, P)
  <1>1. w[i] # Garbage /\ w[i] # SaltUnit(i)
    <2>1. /\ Garbage.kind \notin {"length", "payload"}
          /\ SaltUnit(i).kind \notin {"length", "payload"}
      BY DEF Garbage, SaltUnit
    <2> QED
      BY <2>1, Zenon
  <1>2. ~OfSalt(w, i, t)
    BY <1>1, Zenon DEF OfSalt, IsUnit
  <1>3. ASSUME NEW c, NEW a, OfLength(w, i, c, a, n, S, P, t)
        PROVE  \E d \in Nat : Fixed(w[i], d, P)
    <2>1. w[i] = LengthUnit(P, c, a) /\ c \in Nat
      BY <1>1, <1>3, Zenon DEF OfLength, IsUnit
    <2>2. /\ LengthUnit(P, c, a).kind = "length" /\ LengthUnit(P, c, a).nonce = 2 * c
          /\ LengthUnit(P, c, a).data = <<DataSize(P, c)>>
      BY DEF LengthUnit
    <2> QED
      BY <2>1, <2>2, Zenon DEF Fixed
  <1>4. ASSUME NEW c, NEW a, OfPayload(w, i, c, a, n, S, P, t)
        PROVE  \E d \in Nat : Fixed(w[i], d, P)
    <2>1. w[i] = PayloadUnit(P, c, a) /\ c \in Nat
      BY <1>1, <1>4, Zenon DEF OfPayload, IsUnit
    <2>2. /\ PayloadUnit(P, c, a).kind = "payload"
          /\ PayloadUnit(P, c, a).nonce = 2 * c + 1
          /\ PayloadUnit(P, c, a).data = DataOf(P, c)
      BY DEF PayloadUnit
    <2> QED
      BY <2>1, <2>2, Zenon DEF Fixed
  <1> QED
    BY <1>2, <1>3, <1>4, UnitAt

\* Whatever is on the wire, a nonce has sealed one block only.
LEMMA Nonces == IInv => NonceOnce
  <1> SUFFICES ASSUME IInv,
                      NEW i \in DOMAIN wire, NEW j \in DOMAIN wire,
                      {wire[i].kind, wire[j].kind} \subseteq {"length", "payload"},
                      wire[i].nonce = wire[j].nonce
               PROVE  wire[i].kind = wire[j].kind /\ wire[i].data = wire[j].data
    BY Zenon DEF NonceOnce
  <1>1. PICK n \in Nat, S \in [Nat -> Nat], P \in [Nat -> Nat], c \in Nat :
            Shape(n, S, P, c)
    BY DEF IInv
  <1>2. wire \in Seq(UnitOK)
    BY DEF IInv, TypeOK
  <1>3. i \in 1 .. Len(wire) /\ j \in 1 .. Len(wire)
    BY <1>2, LenProperties
  <1>4. n # 0
    <2>1. wire # <<>>
      BY <1>3
    <2> QED
      BY <1>1, <2>1 DEF Shape, Written
  <1>5. Frames(n, S, P) /\ Holding(wire, n, S, P, tampered)
    BY <1>1, <1>4, Zenon DEF Shape, Written
  <1>6. wire[i].kind \in {"length", "payload"} /\ wire[j].kind \in {"length", "payload"}
    OBVIOUS
  <1>7. PICK d \in Nat : Fixed(wire[i], d, P)
    BY <1>3, <1>5, <1>6, UnitFixed
  <1>8. PICK e \in Nat : Fixed(wire[j], e, P)
    BY <1>3, <1>5, <1>6, UnitFixed
  <1>9. /\ 2 * d = 2 * e => d = e
        /\ 2 * d + 1 = 2 * e + 1 => d = e
        /\ 2 * d # 2 * e + 1 /\ 2 * d + 1 # 2 * e
    OBVIOUS
  <1> QED
    BY <1>7, <1>8, <1>9, Zenon DEF Fixed

\* The types of the variables of both ends, of the stream and of the caller.
THEOREM TypeCorrect == Spec => []TypeOK
  <1>1. IInv => TypeOK
    BY DEF IInv
  <1> QED
    BY <1>1, Inductiveness, PTL

\* No nonce seals two blocks, however often and however much is written.
THEOREM NonceIsFresh == Spec => []NonceOnce
  BY Nonces, Inductiveness, PTL

-----------------------------------------------------------------------------
(* What the caller gets. *)

\* What it has is where the plaintext starts, and no more of it than was put.
GotPrefix == /\ got = Upto(Len(got)) /\ Len(got) \in Nat
             /\ put \in Nat /\ Len(got) <= put

\* The invariant says so.
LEMMA GotIsPrefix == IInv => GotPrefix
  <1> SUFFICES ASSUME IInv
               PROVE  GotPrefix
    OBVIOUS
  <1>1. PICK n \in Nat, S \in [Nat -> Nat], P \in [Nat -> Nat], c \in Nat :
            Shape(n, S, P, c)
    BY DEF IInv
  <1>2. TypeOK /\ Written(n, S, P) /\ c <= n /\ Reading(n, S, P, c)
    BY <1>1 DEF IInv, Shape
  <1>3. /\ got \in Seq(Nat) /\ user_buffer \in Seq(Nat)
        /\ decrypted_buffer \in Seq(Nat) /\ put \in Nat
    BY <1>2 DEF TypeOK
  <1>4. PICK x \in Seq(Nat) : x = Cat(user_buffer, decrypted_buffer)
    <2>1. user_buffer \o decrypted_buffer \in Seq(Nat)
      BY <1>3, ConcatProperties
    <2> QED
      BY <2>1, Zenon DEF Cat
  <1>5. PICK g \in Seq(Nat) : g = got
    BY <1>3, Zenon
  <1>6. Cat(g, x) = Upto(P[c])
    <2>1. Cat(Cat(got, user_buffer), decrypted_buffer)
            = Cat(got, Cat(user_buffer, decrypted_buffer))
      BY <1>3, Associative
    <2> QED
      BY <1>2, <1>4, <1>5, <2>1, Zenon DEF Reading
  <1>7. P[c] <= put /\ P[c] \in Nat
    <2>1. c \in 0 .. n /\ n \in 0 .. n
      BY <1>2
    <2>2. P[c] <= P[n]
      BY <1>2, <2>1 DEF Written, Frames, Starts
    <2> QED
      BY <1>2, <2>2 DEF Written
  <1>8. PICK p \in Nat, k \in Nat : p = P[c] /\ k = Len(g)
    <2>1. Len(g) \in Nat
      BY LenProperties
    <2> QED
      BY <1>7, <2>1
  <1>9. ASSUME NEW m \in Nat
        PROVE  /\ Upto(m) \in Seq(Nat) /\ Len(Upto(m)) = m
               /\ \A i \in 1 .. m : Upto(m)[i] = i
    <2>1. Upto(m) \in Seq(Nat) /\ Len(Upto(m)) = m
      BY UptoPlus
    <2> QED
      BY <2>1 DEF Upto
  <1>10. k <= p
    <2>1. Len(g \o x) = Len(g) + Len(x) /\ Len(x) \in Nat
      BY ConcatProperties, LenProperties
    <2>2. p = Len(g) + Len(x)
      BY <1>6, <1>8, <1>9, <2>1, Zenon DEF Cat
    <2> QED
      BY <1>8, <2>1, <2>2
  <1>11. g = Upto(k)
    <2>1. PICK u \in Seq(Nat) : u = Upto(k) /\ Len(u) = k /\ \A i \in 1 .. k : u[i] = i
      BY <1>9, Zenon
    <2>2. ASSUME NEW i \in 1 .. k
          PROVE  g[i] = i
      <3>1. i \in 1 .. Len(g) /\ i \in 1 .. p
        BY <1>8, <1>10
      <3>2. (g \o x)[i] = g[i]
        BY <3>1, ConcatFirst
      <3>3. Upto(p)[i] = i
        BY <1>9, <3>1, Zenon
      <3> QED
        BY <1>6, <1>8, <3>2, <3>3, Zenon DEF Cat
    <2>3. \A i \in 1 .. Len(g) : g[i] = u[i]
      BY <1>8, <2>1, <2>2, Zenon
    <2>4. g = u
      BY <1>8, <2>1, <2>3, SeqEqual
    <2> QED
      BY <2>1, <2>4, Zenon
  <1>12. k <= put
    BY <1>3, <1>7, <1>8, <1>10
  <1> QED
    BY <1>3, <1>5, <1>8, <1>11, <1>12, Zenon DEF GotPrefix

\* No step takes back what the caller has got.
LEMMA GotGrows ==
    ASSUME IInv, Next
    PROVE  \/ put' \in Nat /\ put' > put /\ UNCHANGED got
           \/ UNCHANGED put /\ \E x \in Seq(Nat) : got' = Cat(got, x)
  <1>1. got \in Seq(Nat) /\ user_buffer \in Seq(Nat) /\ put \in Nat /\ <<>> \in Seq(Nat)
    BY DEF IInv, TypeOK
  <1>2. ASSUME UNCHANGED put, UNCHANGED got
        PROVE  UNCHANGED put /\ \E x \in Seq(Nat) : got' = Cat(got, x)
    <2>1. Cat(got, <<>>) = got
      BY <1>1, CatEmpty
    <2> QED
      BY <1>1, <1>2, <2>1, Zenon
  <1>3. ASSUME NEW size \in 1 .. MaxWrite, Write(size)
        PROVE  put' \in Nat /\ put' > put /\ UNCHANGED got
    <2>1. put' = put + size /\ UNCHANGED got
      BY <1>3, Zenon DEF Write, userVars
    <2>2. size \in Nat /\ size >= 1
      BY EncryptedConnectionAssumption
    <2> QED
      BY <1>1, <2>1, <2>2
  <1>4. CASE Posted
    <2>1. got' = Cat(got, user_buffer) /\ UNCHANGED put
      BY <1>4, Zenon DEF Posted, Cat, writerVars
    <2> QED
      BY <1>1, <2>1, Zenon
  <1>5. CASE PayloadRead
    <2>1. UNCHANGED put
      BY <1>5, Zenon DEF PayloadRead, writerVars
    <2>2. CASE ~Decrypts("payload", Read)
      <3>1. UNCHANGED got
        BY <1>5, <2>2, Zenon DEF PayloadRead, Fail
      <3> QED
        BY <1>2, <2>1, <3>1, Zenon
    <2>3. CASE Decrypts("payload", Read)
      <3>1. TypeOK /\ Ready
        BY <1>5 DEF IInv, PayloadRead
      <3>2. /\ Read \in Seq(UnitOK) /\ Len(Read) = Wanted
            /\ Wanted \in Nat /\ Wanted >= 1
        BY <3>1, ReadUnits
      <3>3. Read[1] \in UnitOK
        <4>1. 1 \in 1 .. Len(Read)
          BY <3>2
        <4> QED
          BY <3>2, <4>1, ElementOfSeq
      <3>4. PICK b \in Seq(Nat) : b = decrypted_buffer \o Read[1].data
        <4>1. Read[1].data \in Seq(Nat) /\ decrypted_buffer \in Seq(Nat)
          BY <3>1, <3>3 DEF UnitOK, TypeOK
        <4>2. decrypted_buffer \o Read[1].data \in Seq(Nat)
          BY <4>1, ConcatProperties
        <4> QED
          BY <4>2, Zenon
      <3>5. PICK m : m = Least(BufferSize, Len(b))
        OBVIOUS
      <3>6. m \in 0 .. Len(b)
        <4>1. Len(b) \in Nat
          BY LenProperties
        <4> QED
          BY <3>5, <4>1, EncryptedConnectionAssumption DEF Least
      <3>7. got' = Cat(got, SubSeq(b, 1, m))
        BY <1>5, <2>3, <3>4, <3>5, Zenon DEF PayloadRead, HandOver, Cat
      <3>8. SubSeq(b, 1, m) \in Seq(Nat)
        BY <1>1, <3>6, HandingOver, Zenon
      <3> QED
        BY <2>1, <3>7, <3>8, Zenon
    <2> QED
      BY <2>2, <2>3
  <1>6. ASSUME \/ Arrive \/ Cut \/ Tamper \/ AsyncReadSome
               \/ SaltRead \/ LengthRead \/ ReadFails
        PROVE  UNCHANGED put /\ UNCHANGED got
    BY <1>6, Zenon DEF Arrive, Cut, Tamper, AsyncReadSome, SaltRead, LengthRead,
                       ReadFails, Fail, writerVars, userVars
  <1> QED
    BY <1>2, <1>3, <1>4, <1>5, <1>6, Zenon DEF Next

\* A step puts units in, brings out the next of them, or does neither.
LEMMA StreamStep ==
    ASSUME IInv, GotPrefix, GotPrefix', Next
    PROVE  AsStream!Put \/ AsStream!Deliver
  <1>1. /\ got = Upto(Len(got)) /\ Len(got) \in Nat /\ put \in Nat /\ Len(got) <= put
    BY DEF GotPrefix
  <1>2. /\ got' = Upto(Len(got')) /\ Len(got') \in Nat /\ put' \in Nat
        /\ Len(got') <= put'
    BY DEF GotPrefix
  <1>3. CASE put' \in Nat /\ put' > put /\ UNCHANGED got
    BY <1>3, Zenon DEF AsStream!Put
  <1>4. CASE UNCHANGED put /\ \E x \in Seq(Nat) : got' = Cat(got, x)
    <2>1. PICK x \in Seq(Nat) : got' = Cat(got, x)
      BY <1>4
    <2>2. PICK k \in Nat, q \in Nat : k = Len(got) /\ q = Len(got')
      BY <1>1, <1>2
    <2>3. Len(x) \in Nat /\ q = k + Len(x)
      <3>1. got \in Seq(Nat)
        BY DEF IInv, TypeOK
      <3>2. Len(got \o x) = Len(got) + Len(x) /\ Len(x) \in Nat
        BY <3>1, ConcatProperties, LenProperties
      <3> QED
        BY <2>1, <2>2, <3>2, Zenon DEF Cat
    <2>4. PICK y \in Nat : q = k + y /\ y \in 0 .. put - k
      <3>1. k + Len(x) <= put /\ put \in Nat
        BY <1>1, <1>2, <1>4, <2>2, <2>3, Zenon
      <3>2. Len(x) \in 0 .. put - k
        BY <2>3, <3>1
      <3> QED
        BY <2>3, <3>2, Zenon
    <2>5. Cat(Upto(k), [i \in 1 .. y |-> k + i]) = Upto(k + y)
      BY UptoPlus
    <2>6. got' = got \o [i \in 1 .. y |-> k + i]
      BY <1>1, <1>2, <2>2, <2>4, <2>5, Zenon DEF Cat
    <2> QED
      BY <1>4, <2>2, <2>4, <2>6, Zenon DEF AsStream!Deliver
  <1> QED
    BY <1>3, <1>4, GotGrows

\* The two ends and what is between them are a stream of bytes: what comes out
\* is what was put in, in order and with nothing missing before it.
THEOREM KeepsStream == Spec => IsStream
  <1>1. Init => AsStream!StreamInit
    BY DEF Init, AsStream!StreamInit
  <1>2. IInv /\ GotPrefix /\ GotPrefix' /\ [Next]_vars
          => [AsStream!StreamNext]_(AsStream!streamVars)
    <2>1. ASSUME IInv, GotPrefix, GotPrefix', Next
          PROVE  AsStream!StreamNext
      BY <2>1, StreamStep DEF AsStream!StreamNext
    <2>2. ASSUME UNCHANGED vars
          PROVE  UNCHANGED AsStream!streamVars
      BY <2>2, Zenon DEF vars, writerVars, userVars, AsStream!streamVars
    <2> QED
      BY <2>1, <2>2
  <1> QED
    BY <1>1, <1>2, GotIsPrefix, Inductiveness, PTL DEF Spec, IsStream

-----------------------------------------------------------------------------
(* What the caller is told. *)

\* The units of data of the chunks that have come whole.
WholeUnits(w, come) ==
    {i \in 1 .. come :
        LET u == w[i]
        IN  /\ u.kind = "payload" /\ u.at <= Len(u.data)
            /\ i - u.at + BlockSize(u.kind, u.data) <= come}

\* The i-th unit is the a-th of the data of chunk d, one of the first c.
Datum(i, d, a, c, S, P) ==
    /\ d \in Nat /\ d < c /\ a \in Nat /\ a >= 1 /\ a <= DataSize(P, d)
    /\ i = S[d] + LengthSize + a

\* The first c chunks have come whole, the next has not.
Come(come, c, n, S) ==
    /\ come \in 0 .. S[n] /\ c \in 0 .. n
    /\ c # 0 => S[c] <= come
    /\ c < n => come < S[c + 1]

\* The stream w, of n chunks untouched, has come so far that c are whole.
Stands(n, S, P, c, w, come) ==
    /\ n \in Nat /\ S \in [Nat -> Nat] /\ P \in [Nat -> Nat]
    /\ Frames(n, S, P) /\ Holding(w, n, S, P, FALSE) /\ Come(come, c, n, S)

\* The i-th unit has come with its whole chunk and brings one of the plaintext.
WholeAt(i, d, a, P, w, come) ==
    i \in WholeUnits(w, come) /\ w[i].data[w[i].at] = P[d] + a

\* The payload of a chunk, as numbers.
PayloadAt(d, n, S, P) ==
    /\ DataSize(P, d) \in Nat /\ S[d] \in Nat /\ P[d] \in Nat
    /\ P[d + 1] = P[d] + DataSize(P, d)
    /\ S[d + 1] = S[d] + LengthSize + DataSize(P, d) + TagSize

\* The frames say so of every chunk.
LEMMA PayloadIsAt ==
    ASSUME NEW d, NEW n, NEW S, NEW P,
           n \in Nat, d \in Nat, d < n, S \in [Nat -> Nat], P \in [Nat -> Nat],
           Frames(n, S, P)
    PROVE  PayloadAt(d, n, S, P)
  <1>1. OneFrame(d, n, S, P)
    BY FrameAt
  <1>2. S[d] \in Nat /\ P[d] \in Nat
    OBVIOUS
  <1> QED
    BY <1>1, <1>2, Zenon DEF OneFrame, PayloadAt

\* Starts come one behind the other.
LEMMA StartsInOrder ==
    ASSUME NEW F, NEW n, NEW d, NEW e,
           F \in [Nat -> Nat], n \in Nat, d \in Nat, e \in Nat,
           d < e, e <= n, Starts(F, n)
    PROVE  F[d + 1] <= F[e]
  <1>1. d + 1 \in 0 .. n /\ e \in 0 .. n /\ d + 1 <= e
    OBVIOUS
  <1> QED
    BY <1>1 DEF Starts

\* A unit of a whole chunk's data is one of those of the first c.
LEMMA WholeIsDatum ==
    ASSUME NEW n, NEW S, NEW P, NEW c, NEW w, NEW come, NEW i,
           Stands(n, S, P, c, w, come), i \in WholeUnits(w, come)
    PROVE  \E d, a : Datum(i, d, a, c, S, P) /\ WholeAt(i, d, a, P, w, come)
  <1> USE DEF Stands
  <1>1. /\ i \in 1 .. come /\ w[i].kind = "payload" /\ w[i].at <= Len(w[i].data)
        /\ i - w[i].at + BlockSize("payload", w[i].data) <= come
    BY DEF WholeUnits
  <1>2. i \in 1 .. Len(w)
    <2>1. come \in 0 .. Len(w) /\ Len(w) \in Nat
      BY LenProperties DEF Come, Holding
    <2> QED
      BY <1>1, <2>1
  <1>3. \/ OfSalt(w, i, FALSE)
        \/ \E d, a : OfLength(w, i, d, a, n, S, P, FALSE)
        \/ \E d, a : OfPayload(w, i, d, a, n, S, P, FALSE)
    BY <1>2, UnitAt
  <1>4. ~OfSalt(w, i, FALSE)
    <2>1. SaltUnit(i).kind # "payload"
      BY DEF SaltUnit
    <2> QED
      BY <1>1, <2>1, Zenon DEF OfSalt, IsUnit
  <1>5. ASSUME NEW d, NEW a, OfLength(w, i, d, a, n, S, P, FALSE)
        PROVE  FALSE
    <2>1. LengthUnit(P, d, a).kind # "payload"
      BY DEF LengthUnit
    <2> QED
      BY <1>1, <1>5, <2>1, Zenon DEF OfLength, IsUnit
  <1>6. PICK d, a : OfPayload(w, i, d, a, n, S, P, FALSE)
    BY <1>3, <1>4, <1>5, Zenon
  <1>7. /\ d \in Nat /\ d < n /\ a \in Nat /\ a >= 1
        /\ a <= DataSize(P, d) + TagSize /\ i = S[d] + LengthSize + a
        /\ w[i] = PayloadUnit(P, d, a)
    BY <1>6, Zenon DEF OfPayload, IsUnit
  <1>8. w[i].at = a /\ w[i].data = DataOf(P, d)
    <2>1. PayloadUnit(P, d, a).at = a /\ PayloadUnit(P, d, a).data = DataOf(P, d)
      BY DEF PayloadUnit
    <2> QED
      BY <1>7, <2>1, Zenon
  <1>9. PayloadAt(d, n, S, P)
    BY <1>7, PayloadIsAt
  <1>10. PICK y \in Nat, k \in Nat, p \in Nat, h \in Nat, t \in Nat :
            /\ y = DataSize(P, d) /\ k = S[d] /\ p = P[d]
            /\ h = LengthSize /\ t = TagSize
    <2>1. LengthSize \in Nat /\ TagSize \in Nat
      BY EncryptedConnectionAssumption DEF LengthSize
    <2> QED
      BY <1>9, <2>1, Zenon DEF PayloadAt
  <1>11. /\ DataOf(P, d) \in Seq(Nat) /\ Len(DataOf(P, d)) = y
         /\ \A j \in 1 .. y : DataOf(P, d)[j] = p + j
    <2>1. DataSize(P, d) \in Nat /\ d \in Nat
      BY <1>7, <1>9 DEF PayloadAt
    <2>2. /\ DataOf(P, d) \in Seq(Nat) /\ Len(DataOf(P, d)) = DataSize(P, d)
          /\ \A j \in 1 .. DataSize(P, d) : DataOf(P, d)[j] = P[d] + j
      BY <2>1, DataUnits
    <2> QED
      BY <1>10, <2>2, Zenon
  <1>12. BlockSize("payload", DataOf(P, d)) = y + t
    BY <1>10, <1>11, BlockSizes
  <1>13. a \in 1 .. y
    <2>1. a <= y
      BY <1>1, <1>8, <1>11, Zenon
    <2> QED
      BY <1>7, <2>1
  <1>14. S[d + 1] <= come
    <2>1. i - a + (y + t) <= come
      BY <1>1, <1>8, <1>12, Zenon
    <2>2. i = k + h + a
      BY <1>7, <1>10, Zenon
    <2>3. a \in Nat
      BY <1>7
    <2>4. k + h + y + t = i - a + (y + t)
      BY <2>2, <2>3
    <2>5. S[d + 1] = k + h + y + t
      BY <1>9, <1>10, Zenon DEF PayloadAt
    <2> QED
      BY <2>1, <2>4, <2>5, Zenon
  <1>15. d < c
    <2> SUFFICES ASSUME ~(d < c)
                 PROVE  FALSE
      OBVIOUS
    <2>1. c \in Nat /\ c < n /\ c <= d
      BY <1>7 DEF Come
    <2>2. c + 1 \in 0 .. n /\ d + 1 \in 0 .. n /\ c + 1 <= d + 1
      BY <1>7, <2>1
    <2>3. S[c + 1] <= S[d + 1] /\ S[c + 1] \in Nat /\ S[d + 1] \in Nat
      BY <2>2 DEF Frames, Starts
    <2>4. come < S[c + 1] /\ come \in Nat
      BY <2>1 DEF Come
    <2> QED
      BY <1>14, <2>3, <2>4
  <1>16. Datum(i, d, a, c, S, P)
    BY <1>7, <1>10, <1>13, <1>15 DEF Datum
  <1>17. w[i].data[w[i].at] = P[d] + a
    BY <1>8, <1>10, <1>11, <1>13, Zenon
  <1> QED
    BY <1>16, <1>17 DEF WholeAt

\* The data of the first c chunks have come whole.
LEMMA DatumIsWhole ==
    ASSUME NEW n, NEW S, NEW P, NEW c, NEW w, NEW come, NEW i, NEW d, NEW a,
           Stands(n, S, P, c, w, come), Datum(i, d, a, c, S, P)
    PROVE  WholeAt(i, d, a, P, w, come)
  <1> USE DEF Stands
  <1>1. /\ d \in Nat /\ c \in Nat /\ d < c /\ c <= n /\ d < n /\ a \in Nat
        /\ a >= 1 /\ a <= DataSize(P, d) /\ i = S[d] + LengthSize + a
    BY DEF Datum, Come
  <1>2. PayloadAt(d, n, S, P)
    BY <1>1, PayloadIsAt
  <1>3. PICK y \in Nat, k \in Nat, p \in Nat, h \in Nat, t \in Nat :
            /\ y = DataSize(P, d) /\ k = S[d] /\ p = P[d]
            /\ h = LengthSize /\ t = TagSize
    <2>1. LengthSize \in Nat /\ TagSize \in Nat
      BY EncryptedConnectionAssumption DEF LengthSize
    <2> QED
      BY <1>2, <2>1, Zenon DEF PayloadAt
  <1>4. a <= y /\ i = k + h + a /\ S[d + 1] = k + h + y + t
    BY <1>1, <1>2, <1>3, Zenon DEF PayloadAt
  <1>5. S[d + 1] <= come /\ come \in Nat
    <2>1. S[d + 1] <= S[c] /\ S[d + 1] \in Nat /\ S[c] \in Nat
      <3>1. Starts(S, n) /\ S \in [Nat -> Nat] /\ n \in Nat
        BY DEF Frames
      <3>2. S[d + 1] \in Nat /\ S[c] \in Nat
        BY <1>1, <3>1
      <3> HIDE DEF Stands
      <3>3. S[d + 1] <= S[c]
        BY <1>1, <3>1, StartsInOrder
      <3> QED
        BY <3>2, <3>3
    <2>2. S[c] <= come /\ come \in Nat
      BY <1>1 DEF Come
    <2> QED
      BY <2>1, <2>2
  <1>6. i \in 1 .. come /\ i - a + (y + t) <= come
    <2>1. k + h + y + t <= come
      BY <1>4, <1>5, Zenon
    <2> QED
      BY <1>1, <1>4, <1>5, <2>1
  <1>7. w[i] = PayloadUnit(P, d, a)
    <2>1. d \in 0 .. n - 1 /\ a \in 1 .. y + t
      BY <1>1, <1>4
    <2>2. PayloadLaid(w, d, S, P, FALSE)
      BY <2>1, Zenon DEF Holding, Laid
    <2> QED
      BY <1>1, <1>3, <2>1, <2>2, Zenon DEF PayloadLaid, IsUnit
  <1>8. w[i].kind = "payload" /\ w[i].at = a /\ w[i].data = DataOf(P, d)
    <2>1. /\ PayloadUnit(P, d, a).kind = "payload" /\ PayloadUnit(P, d, a).at = a
          /\ PayloadUnit(P, d, a).data = DataOf(P, d)
      BY DEF PayloadUnit
    <2> QED
      BY <1>7, <2>1, Zenon
  <1>9. /\ DataOf(P, d) \in Seq(Nat) /\ Len(DataOf(P, d)) = y
        /\ \A j \in 1 .. y : DataOf(P, d)[j] = p + j
    <2>1. DataSize(P, d) \in Nat /\ d \in Nat
      BY <1>1, <1>2 DEF PayloadAt
    <2>2. /\ DataOf(P, d) \in Seq(Nat) /\ Len(DataOf(P, d)) = DataSize(P, d)
          /\ \A j \in 1 .. DataSize(P, d) : DataOf(P, d)[j] = P[d] + j
      BY <2>1, DataUnits
    <2> QED
      BY <1>3, <2>2, Zenon
  <1>10. BlockSize("payload", DataOf(P, d)) = y + t
    BY <1>3, <1>9, BlockSizes
  <1>11. a \in 1 .. y
    BY <1>1, <1>4
  <1>12. i \in WholeUnits(w, come)
    BY <1>4, <1>6, <1>8, <1>9, <1>10, Zenon DEF WholeUnits
  <1> QED
    BY <1>3, <1>8, <1>9, <1>11, <1>12, Zenon DEF WholeAt

\* The data that has come with its whole chunk is that of the first c.
Counted(w, come, P, c) == Cardinality(WholeUnits(w, come)) = P[c]

\* As many units of data have come whole as the first c chunks hold.
LEMMA WholeCount ==
    ASSUME NEW n, NEW S, NEW P, NEW c, NEW w, NEW come,
           Stands(n, S, P, c, w, come)
    PROVE  Counted(w, come, P, c)
  <1>1. /\ n \in Nat /\ S \in [Nat -> Nat] /\ P \in [Nat -> Nat]
        /\ Frames(n, S, P) /\ Holding(w, n, S, P, FALSE) /\ Come(come, c, n, S)
    BY DEF Stands
  <1>2. n \in Nat /\ c \in Nat /\ c <= n /\ come \in Nat
    BY <1>1 DEF Come
  <1>3. PICK q \in Nat : q = P[c]
    BY <1>1, <1>2
  <1> DEFINE U == WholeUnits(w, come)
             f == [i \in U |-> w[i].data[w[i].at]]
  <1>4. \A i \in U : f[i] = w[i].data[w[i].at]
    OBVIOUS
  <1>5. ASSUME NEW i \in U
        PROVE  \E d, a : Datum(i, d, a, c, S, P) /\ f[i] = P[d] + a
    <2>1. PICK d, a : Datum(i, d, a, c, S, P) /\ WholeAt(i, d, a, P, w, come)
      BY WholeIsDatum
    <2> QED
      BY <1>4, <2>1, Zenon DEF WholeAt
  <1>6. ASSUME NEW i, NEW d, NEW a, Datum(i, d, a, c, S, P)
        PROVE  /\ d \in Nat /\ d < n /\ d < c /\ a \in Nat /\ a >= 1
               /\ P[d] \in Nat /\ P[d + 1] \in Nat
               /\ P[d] + a <= P[d + 1] /\ P[d + 1] <= q
    <2>1. /\ d \in Nat /\ d < c /\ d < n /\ a \in Nat /\ a >= 1 /\ a <= DataSize(P, d)
      BY <1>2, <1>6 DEF Datum
    <2>2. PayloadAt(d, n, S, P)
      BY <1>1, <2>1, PayloadIsAt
    <2>3. P[d + 1] = P[d] + DataSize(P, d) /\ DataSize(P, d) \in Nat /\ P[d] \in Nat
      BY <2>2 DEF PayloadAt
    <2>4. P[d + 1] <= P[c]
      BY <1>1, <1>2, <2>1, StartsInOrder DEF Frames
    <2>5. P[d] + a <= P[d + 1] /\ P[d + 1] \in Nat
      BY <1>1, <2>1, <2>3
    <2> QED
      BY <1>3, <2>1, <2>3, <2>4, <2>5, Zenon
  <1>7. f \in [U -> 1 .. q]
    <2>1. ASSUME NEW i \in U
          PROVE  f[i] \in 1 .. q
      <3>1. PICK d, a : Datum(i, d, a, c, S, P) /\ f[i] = P[d] + a
        BY <1>5
      <3>2. /\ a \in Nat /\ a >= 1 /\ P[d] \in Nat /\ P[d + 1] \in Nat
            /\ P[d] + a <= P[d + 1] /\ P[d + 1] <= q
        BY <1>6, <3>1, Zenon
      <3>3. P[d] + a \in 1 .. q
        BY <3>2
      <3> QED
        BY <3>1, <3>3, Zenon
    <2>2. f = [i \in U |-> f[i]]
      OBVIOUS
    <2> HIDE DEF f
    <2>3. [i \in U |-> f[i]] \in [U -> 1 .. q]
      BY <2>1
    <2> QED
      BY <2>2, <2>3, Zenon
  <1> HIDE DEF f, U
  <1>8. ASSUME NEW i \in U, NEW j \in U, f[i] = f[j]
        PROVE  i = j
    <2>1. PICK d, a : Datum(i, d, a, c, S, P) /\ f[i] = P[d] + a
      BY <1>5
    <2>2. PICK e, b : Datum(j, e, b, c, S, P) /\ f[j] = P[e] + b
      BY <1>5
    <2>3. /\ d \in Nat /\ d < n /\ a \in Nat /\ a >= 1 /\ P[d] \in Nat
          /\ P[d + 1] \in Nat /\ P[d] + a <= P[d + 1]
      BY <1>6, <2>1, Zenon
    <2>4. /\ e \in Nat /\ e < n /\ b \in Nat /\ b >= 1 /\ P[e] \in Nat
          /\ P[e + 1] \in Nat /\ P[e] + b <= P[e + 1]
      BY <1>6, <2>2, Zenon
    <2>5. P[d] + a = P[e] + b
      BY <1>8, <2>1, <2>2, Zenon
    <2>6. ~(d < e)
      <3>1. ASSUME d < e
            PROVE  P[d + 1] <= P[e]
        <4>1. e <= n
          BY <1>2, <2>4
        <4> QED
          BY <1>1, <2>3, <2>4, <3>1, <4>1, StartsInOrder DEF Frames
      <3> QED
        BY <2>3, <2>4, <2>5, <3>1
    <2>7. ~(e < d)
      <3>1. ASSUME e < d
            PROVE  P[e + 1] <= P[d]
        <4>1. d <= n
          BY <1>2, <2>3
        <4> QED
          BY <1>1, <2>3, <2>4, <3>1, <4>1, StartsInOrder DEF Frames
      <3> QED
        BY <2>3, <2>4, <2>5, <3>1
    <2>8. d = e
      BY <2>3, <2>4, <2>6, <2>7
    <2>9. a = b
      BY <2>3, <2>4, <2>5, <2>8
    <2> QED
      BY <2>1, <2>2, <2>8, <2>9, Zenon DEF Datum
  <1>9. ASSUME NEW v \in 1 .. q
        PROVE  \E i \in U : f[i] = v
    <2>1. v \in P[0] + 1 .. P[n]
      <3>1. c \in 0 .. n /\ n \in 0 .. n
        BY <1>2
      <3>2. P[c] <= P[n] /\ P[0] = 0 /\ P[n] \in Nat
        BY <1>1, <3>1 DEF Frames, Starts
      <3> QED
        BY <1>3, <3>2
    <2>2. PICK d \in 0 .. n - 1 : P[d] < v /\ v <= P[d + 1]
      BY <1>1, <2>1, Zenon DEF Frames, Starts
    <2>3. d \in Nat /\ d < n /\ P[d] \in Nat /\ v \in Nat
      BY <1>1
    <2>4. d < c
      <3> SUFFICES ASSUME ~(d < c)
                   PROVE  FALSE
        OBVIOUS
      <3>1. c \in 0 .. n /\ d \in 0 .. n /\ c <= d
        BY <1>2, <2>3
      <3>2. P[c] <= P[d]
        BY <1>1, <3>1 DEF Frames, Starts
      <3> QED
        BY <1>3, <2>2, <2>3, <3>2
    <2>5. PICK a \in Nat : a >= 1 /\ v = P[d] + a
      <3>1. v - P[d] \in Nat /\ v - P[d] >= 1 /\ v = P[d] + (v - P[d])
        BY <2>2, <2>3
      <3> QED
        BY <3>1
    <2>6. a <= DataSize(P, d)
      BY <1>1, <2>2, <2>3, <2>5 DEF DataSize
    <2>7. PICK i : i = S[d] + LengthSize + a
      OBVIOUS
    <2>8. Datum(i, d, a, c, S, P)
      BY <2>3, <2>4, <2>5, <2>6, <2>7, Zenon DEF Datum
    <2>9. WholeAt(i, d, a, P, w, come)
      BY <2>8, DatumIsWhole
    <2> QED
      BY <1>4, <2>5, <2>9, Zenon DEF U, WholeAt
  <1>10. f \in Bijection(U, 1 .. q)
    BY <1>7, <1>8, <1>9, Fun_IsBij
  <1>11. IsFiniteSet(U)
    <2>1. IsFiniteSet(1 .. come)
      BY <1>2, FS_Interval
    <2>2. U \in SUBSET (1 .. come)
      BY DEF U, WholeUnits
    <2> QED
      BY <2>1, <2>2, FS_Subset
  <1>12. Cardinality(1 .. q) = Cardinality(U)
    <2>1. ExistsBijection(U, 1 .. q)
      BY <1>10, Zenon DEF ExistsBijection
    <2> QED
      BY <1>11, <2>1, FS_Bijection
  <1>13. Cardinality(1 .. q) = q
    <2>1. 1 \in Int /\ q \in Int
      OBVIOUS
    <2>2. Cardinality(1 .. q) = IF 1 > q THEN 0 ELSE q - 1 + 1
      BY <2>1, FS_Interval
    <2> QED
      BY <2>2
  <1> QED
    BY <1>3, <1>12, <1>13, Zenon DEF U, Counted

\* When a read has ended the stream, the chunks before it are all that came whole.
LEMMA Errors == IInv => ErrorsAreTrue
  <1> SUFFICES ASSUME IInv, error = "eof", ~tampered
               PROVE  Len(got) = Cardinality(WholeUnits(wire, arrived))
    BY Zenon DEF ErrorsAreTrue, WholeUnits, IInv, Caller
  <1>1. PICK n \in Nat, S \in [Nat -> Nat], P \in [Nat -> Nat], c \in Nat :
            Shape(n, S, P, c)
    BY DEF IInv
  <1>2. TypeOK /\ Caller /\ Written(n, S, P) /\ c <= n /\ Reading(n, S, P, c)
    BY <1>1 DEF IInv, Shape
  <1>3. /\ user_buffer = <<>> /\ decrypted_buffer = <<>>
        /\ arrived - taken < Wanted
    BY <1>2 DEF Caller
  <1>4. got \in Seq(Nat) /\ wire \in Seq(UnitOK)
        /\ arrived \in 0 .. Len(wire) /\ taken \in 0 .. arrived
        /\ read_state \in {"Salt", "Length", "Payload"}
    BY <1>2 DEF TypeOK
  <1>5. Len(got) = P[c]
    <2>1. Cat(Cat(got, user_buffer), decrypted_buffer) = got
      BY <1>3, <1>4, CatEmpty, Zenon
    <2>2. Len(Upto(P[c])) = P[c]
      BY UptoPlus
    <2> QED
      BY <1>2, <2>1, <2>2, Zenon DEF Reading
  <1>6. CASE n = 0
    <2>1. wire = <<>> /\ c = 0 /\ P[0] = 0
      BY <1>2, <1>6 DEF Written, Frames
    <2>2. arrived = 0
      BY <1>4, <2>1
    <2>3. WholeUnits(wire, arrived) = {}
      BY <2>2 DEF WholeUnits
    <2> QED
      BY <1>5, <2>1, <2>3, FS_EmptySet
  <1>7. CASE n # 0
    <2>1. Frames(n, S, P) /\ Holding(wire, n, S, P, FALSE)
      BY <1>2, <1>7, Zenon DEF Written, Holding, Laid, SaltLaid, LengthLaid,
                               PayloadLaid, IsUnit
    <2>2. Len(wire) = S[n] /\ S[n] \in Nat /\ S[c] \in Nat /\ arrived \in 0 .. S[n]
          /\ taken \in 0 .. arrived
      BY <1>4, <2>1 DEF Holding
    <2>3. c < n => PayloadAt(c, n, S, P)
      BY <2>1, PayloadIsAt
    <2>4. PICK h \in Nat, t \in Nat, b \in Nat :
              h = LengthSize /\ t = TagSize /\ b = SaltSize
      BY EncryptedConnectionAssumption DEF LengthSize
    <2>5. Come(arrived, c, n, S)
      <3>1. CASE read_state = "Salt"
        <4>1. c = 0 /\ taken = 0 /\ Wanted = b
          BY <1>2, <2>4, <3>1 DEF Reading, Wanted
        <4>2. S[0] = b
          BY <2>1, <2>4, Zenon DEF Frames
        <4>3. arrived < b
          BY <1>3, <2>2, <4>1
        <4>4. S[0] < S[1] /\ S[1] \in Nat
          <5>1. 0 \in 0 .. n - 1
            BY <1>7
          <5> QED
            BY <2>1, <5>1 DEF Frames, Starts
        <4> QED
          BY <2>2, <4>1, <4>2, <4>3, <4>4 DEF Come
      <3>2. CASE read_state = "Length"
        <4>1. taken = S[c] /\ Wanted = h
          BY <1>2, <2>4, <3>2 DEF Reading, Wanted, LengthSize
        <4>2. PICK k \in Nat : k = S[c]
          BY <2>2
        <4>3. arrived \in Nat /\ k <= arrived /\ arrived < k + h
          BY <1>3, <2>2, <4>1, <4>2
        <4>4. ASSUME c < n
              PROVE  arrived < S[c + 1]
          <5>1. PICK y \in Nat : y = DataSize(P, c)
            BY <2>3, <4>4 DEF PayloadAt
          <5>2. S[c + 1] = k + h + y + t
            BY <2>3, <2>4, <4>2, <4>4, <5>1, Zenon DEF PayloadAt
          <5>3. arrived < k + h + y + t
            BY <4>3
          <5> QED
            BY <5>2, <5>3, Zenon
        <4> QED
          BY <1>2, <2>2, <4>2, <4>3, <4>4 DEF Come
      <3>3. CASE read_state = "Payload"
        <4>1. c < n /\ taken = S[c] + LengthSize /\ Wanted = DataSize(P, c) + TagSize
          BY <1>2, <3>3 DEF Reading, Wanted
        <4>2. PICK k \in Nat, y \in Nat : k = S[c] /\ y = DataSize(P, c)
          BY <2>2, <2>3, <4>1, Zenon DEF PayloadAt
        <4>3. taken = k + h /\ Wanted = y + t /\ S[c + 1] = k + h + y + t
          BY <2>3, <2>4, <4>1, <4>2, Zenon DEF PayloadAt
        <4>4. arrived \in Nat /\ k <= arrived /\ arrived < k + h + y + t
          BY <1>3, <2>2, <4>3
        <4> QED
          BY <1>2, <2>2, <4>2, <4>3, <4>4 DEF Come
      <3> QED
        BY <1>4, <3>1, <3>2, <3>3
    <2>6. Stands(n, S, P, c, wire, arrived)
      BY <2>1, <2>5, Zenon DEF Stands
    <2>7. Counted(wire, arrived, P, c)
      BY <2>6, WholeCount, Zenon
    <2> QED
      BY <1>5, <2>7, Zenon DEF Counted
  <1> QED
    BY <1>6, <1>7

\* An error means what it says: the caller is told of a bad message only when
\* somebody has touched the stream, and of its end, if nobody has, only when it
\* has been given all the data of every chunk that came whole.
THEOREM ErrorsTrue == Spec => []ErrorsAreTrue
  BY Errors, Inductiveness, PTL
=============================================================================
