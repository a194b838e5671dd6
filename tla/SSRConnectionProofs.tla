------------------------ MODULE SSRConnectionProofs ------------------------
(***************************************************************************)
(* Proofs about SSRConnection, for all sizes, and about the layout of its  *)
(* packets.  The invariant IInv has a part for each direction.             *)
(*                                                                         *)
(* UpInv: all parts sent so far follow one another without a gap, are of   *)
(* the kinds and numbers the server counts, and the sum of their lengths   *)
(* is where the key stream is; Remembered ties the four fields of the      *)
(* protocol objects to what was sent.                                      *)
(*                                                                         *)
(* DownInv: there are numbers B[k] and E[k], how much data the first k     *)
(* packets of the server hold and where in the stream they end, such that  *)
(* every unit of the stream is the one that belongs at its place, or the   *)
(* altered one.  With authentication the reader's buffer has only units of *)
(* that stream that were read, or garbage; the packets it has counted have *)
(* come whole and before the altered unit; and its caller was handed their *)
(* data, with gaps only where a read has filled the buffer.  Without, the  *)
(* caller has as many units as were read behind the IV, each its own.      *)
(***************************************************************************)
EXTENDS SSRConnection, SequenceLemmas

-----------------------------------------------------------------------------
(* The layout of packets. *)

\* The random part is at most as long as what the segment of 1460 bytes leaves,
\* except behind data longer than two of them.
LEMMA RandBound ==
    ASSUME NEW d \in 1 .. ChunkSize, NEW f \in Nat, NEW r \in RandLens(d, f)
    PROVE  r \in Nat /\ (r <= 31 \/ r + d <= 2911)
  <1> DEFINE rev == 1460 - d - 9
  <1> USE DEF ChunkSize
  <1>1. CASE r \in {0}
    BY <1>1
  <1>2. CASE rev <= -1460 /\ r \in 0 .. 31
    BY <1>2
  <1>3. CASE rev < 0 /\ r \in 0 .. rev + 1460
    BY <1>3
  <1>4. CASE rev >= 0 /\ (r \in 0 .. rev - 1 \/ r \in 0 .. rev)
    BY <1>4
  <1> QED
    BY <1>1, <1>2, <1>3, <1>4 DEF RandLens

\* What pack_data makes of a chunk is a packet client_post_decrypt accepts by its
\* length, and fits the two bytes the length has: for every chunk, every length
\* of the write it is cut from, and every random length.
THEOREM PacketsFit ==
    ASSUME NEW d \in 1 .. ChunkSize, NEW f \in Nat, NEW r \in RandLens(d, f)
    PROVE  PackedLen(r, d) \in Nat /\ PackedLen(r, d) < MaxPacket
  <1>1. r \in Nat /\ (r <= 31 \/ r + d <= 2911)
    BY RandBound
  <1> QED
    BY <1>1 DEF PackedLen, MaxPacket, ChunkSize

\* The data is found where it was put: the one or three bytes before the random
\* part hold its length unshortened, and the two sides agree on which of the two
\* forms it has.
THEOREM DataFound ==
    ASSUME NEW d \in 1 .. ChunkSize, NEW f \in Nat, NEW r \in RandLens(d, f)
    PROVE  /\ DataStart(RandHead(r)) + d = PackedLen(r, d) - 4
           /\ DataLen(PackedLen(r, d), RandHead(r)) = d
  <1>1. r \in Nat /\ r <= 2911
    <2>1. r \in Nat /\ (r <= 31 \/ r + d <= 2911)
      BY RandBound
    <2>2. d \in Nat
      BY DEF ChunkSize
    <2>3. r <= 2911
      BY <2>1, <2>2
    <2> QED
      BY <2>1, <2>3
  <1>2. CASE r < 128
    <2>1. (r + 1) % 256 = r + 1
      BY <1>1, <1>2
    <2>2. RandHead(r)[1] = r + 1 /\ RandHead(r)[1] # 255
      BY <1>1, <1>2, <2>1 DEF RandHead
    <2> QED
      BY <1>1, <1>2, <2>2 DEF DataStart, DataLen, PackedLen, ChunkSize
  <1>3. CASE ~(r < 128)
    <2>1. 2^16 = 65536
      OBVIOUS
    <2>2. (r + 3) % 2^16 = r + 3
      BY <1>1, <2>1
    <2>3. RandHead(r)[1] = 255 /\ RandHead(r)[2] = r + 3
      BY <1>3, <2>2 DEF RandHead
    <2> QED
      BY <1>1, <1>3, <2>3 DEF DataStart, DataLen, PackedLen, ChunkSize
  <1> QED
    BY <1>2, <1>3

\* The authenticating packet of a handshake: its length and that of its random
\* part fit the two bytes each has in the encrypted header.
THEOREM AuthFits ==
    ASSUME NEW d \in 1 .. 300, NEW r \in AuthRandLens(d)
    PROVE  AuthLen(r, d) <= 65535 /\ r <= 65535
  <1>1. r \in Nat /\ r <= 1023
    BY DEF AuthRandLens
  <1>2. AuthLen(r, d) \in Nat /\ AuthLen(r, d) <= 1358
    BY <1>1 DEF AuthLen
  <1> QED
    BY <1>1, <1>2

-----------------------------------------------------------------------------
(* Up: the parts of what is sent. *)

\* The lengths a random part may have.
Rands == 0 .. 1460

\* The parts of what is sent, not empty.
PartOK == [kind : {"data", "auth", "packet"}, id : Nat,
           rand : Rands, from : Nat, to : Nat]
Span == {p \in PartOK : p.from >= 1 /\ p.from <= p.to}

\* The fields of a part, and how much it carries.
LEMMA PartFields ==
    ASSUME NEW p \in Span
    PROVE  /\ p.kind \in {"data", "auth", "packet"} /\ p.rand \in Nat
           /\ p.from \in Nat /\ p.to \in Nat /\ p.from <= p.to
           /\ Carried(p) \in Nat
  <1>1. p \in PartOK /\ p.from <= p.to
    BY DEF Span
  <1>2. p.kind \in {"data", "auth", "packet"}
    BY <1>1 DEF PartOK
  <1>3. p.rand \in Nat
    <2>1. p.rand \in Rands
      BY <1>1 DEF PartOK
    <2>2. \A x \in Rands : x \in Nat
      BY DEF Rands
    <2> QED
      BY <2>1, <2>2, Zenon
  <1>4. p.from \in Nat /\ p.to \in Nat
    BY <1>1 DEF PartOK
  <1>5. PICK x \in Nat, y \in Nat : x = p.from /\ y = p.to
    BY <1>4, Zenon
  <1>6. x <= y
    BY <1>1, <1>5, Zenon
  <1>7. y - x + 1 \in Nat
    BY <1>6
  <1>8. Carried(p) \in Nat
    BY <1>5, <1>7, Zenon DEF Carried
  <1> QED
    BY <1>1, <1>2, <1>3, <1>4, <1>8, Zenon

\* A part has a length.
LEMMA PartLenNat ==
    ASSUME NEW p \in Span
    PROVE  PartLen(p) \in Nat
  <1>1. p.rand \in Nat /\ Carried(p) \in Nat
    BY PartFields
  <1>2. PICK r \in Nat, c \in Nat : r = p.rand /\ c = Carried(p)
    BY <1>1, Zenon
  <1>3. p.kind \in {"data", "auth", "packet"}
    BY PartFields
  <1>4. AuthLen(r, c) \in Nat /\ PackedLen(r, c) \in Nat
    BY DEF AuthLen, PackedLen
  <1> QED
    BY <1>2, <1>3, <1>4, Zenon DEF PartLen

\* A part has what it is made of.
Makes(kind, id, r, lo, hi, p) ==
    /\ kind \in {"data", "auth", "packet"} /\ id \in Nat /\ r \in Rands
    /\ lo \in Nat /\ hi \in Nat /\ 1 <= lo /\ lo <= hi
    /\ p = Part(kind, id, r, lo, hi)

Is(p, kind, id, r, lo, hi) ==
    /\ p \in Span /\ p.kind = kind /\ p.id = id /\ p.rand = r
    /\ p.from = lo /\ p.to = hi /\ Carried(p) = hi - lo + 1

LEMMA PartMade ==
    ASSUME NEW kind, NEW id, NEW r, NEW lo, NEW hi, NEW p,
           Makes(kind, id, r, lo, hi, p)
    PROVE  Is(p, kind, id, r, lo, hi)
  <1>1. p \in PartOK
    BY DEF Part, PartOK, Makes
  <1>2. /\ p.kind = kind /\ p.id = id /\ p.rand = r
        /\ p.from = lo /\ p.to = hi
    BY DEF Part, Makes
  <1>3. lo >= 1 /\ lo <= hi
    BY DEF Makes
  <1>4. p.from >= 1 /\ p.from <= p.to
    BY <1>2, <1>3, Zenon
  <1>5. p \in Span
    BY <1>1, <1>4 DEF Span
  <1>6. Carried(p) = hi - lo + 1
    BY <1>2, Zenon DEF Carried
  <1> QED
    BY <1>2, <1>5, <1>6, Zenon DEF Is

\* f adds up the lengths of the parts.
Sums(f, ps) == /\ f[0] = 0 /\ f[Len(ps)] = PartsLen(ps)
               /\ \A i \in 0 .. Len(ps) : f[i] \in Nat
               /\ \A i \in 1 .. Len(ps) : f[i] = f[i - 1] + PartLen(ps[i])

\* PartsLen is where such a function ends.
LEMMA PartsAdded ==
    ASSUME NEW ps \in Seq(Span)
    PROVE  \E f : Sums(f, ps)
  <1> DEFINE n == Len(ps)
             Body(h) == [s \in SUBSET DOMAIN ps |->
                            IF s = {} THEN 0
                            ELSE LET x == Max(s) IN h[s \ {x}] + PartLen(ps[x])]
             g == CHOOSE h : h = Body(h)
  <1>1. PartsLen(ps) = g[DOMAIN ps]
    BY Zenon DEF PartsLen, FoldLeft, MapThenFoldSet
  <1>2. n \in Nat /\ DOMAIN ps = 1 .. n
    BY LenProperties
  <1>3. \A i \in 1 .. n : PartLen(ps[i]) \in Nat
    BY PartLenNat, ElementOfSeq
  <1> DEFINE F == [q \in Nat \X (1 .. n) |-> q[1] + PartLen(ps[q[2]])]
  <1>4. F \in [Nat \X (1 .. n) -> Nat]
    BY <1>3
  <1>5. \A v \in Nat, i \in 1 .. n : F[<<v, i>>] = v + PartLen(ps[i])
    OBVIOUS
  <1> HIDE DEF F, n
  <1>6. PICK h \in [SUBSET (1 .. n) -> Nat] : Folds(h, F, 0, n)
    BY <1>2, <1>4, FoldExists
  <1>7. h = Body(h)
    <2>1. ASSUME NEW s \in SUBSET (1 .. n)
          PROVE  h[s] = Body(h)[s]
      <3>1. CASE s = {}
        <4>1. Body(h)[s] = 0
          BY <1>2, <3>1
        <4> QED
          BY <1>6, <3>1, <4>1, Zenon DEF Folds
      <3>2. CASE s # {}
        <4>1. Max(s) \in 1 .. n
          BY <1>2, <3>2, GreatestIn
        <4>2. h[s \ {Max(s)}] \in Nat
          OBVIOUS
        <4>3. h[s] = F[<<h[s \ {Max(s)}], Max(s)>>]
          BY <1>6, <3>2, Zenon DEF Folds
        <4>4. Body(h)[s] = h[s \ {Max(s)}] + PartLen(ps[Max(s)])
          BY <1>2, <3>2, Zenon
        <4> HIDE DEF Body
        <4> QED
          BY <1>5, <4>1, <4>2, <4>3, <4>4, Zenon
      <3> QED
        BY <3>1, <3>2
    <2> QED
      BY <1>2, <2>1
  <1>8. g = Body(g)
    BY <1>7, Zenon
  <1> HIDE DEF g
  <1>9. \A s \in SUBSET (1 .. n) : g[s] =
            IF s = {} THEN 0 ELSE g[s \ {Max(s)}] + PartLen(ps[Max(s)])
    BY <1>2, <1>8, Zenon
  <1> HIDE DEF Body
  <1>10. g[1 .. 0] = 0
    <2>1. 1 .. 0 = {} /\ 1 .. 0 \in SUBSET (1 .. n)
      OBVIOUS
    <2> QED
      BY <1>9, <2>1, Zenon
  <1>11. ASSUME NEW i \in 1 .. n
         PROVE  g[1 .. i] = g[1 .. i - 1] + PartLen(ps[i])
    <2>1. 1 .. i \in SUBSET (1 .. n) /\ 1 .. i # {} /\ i \in 1 .. i /\ i \in Nat
      <3>1. i \in Nat /\ i <= n
        BY <1>2
      <3>2. i \in 1 .. i
        BY <1>2
      <3>3. \A j \in 1 .. i : j \in 1 .. n
        BY <1>2, <3>1
      <3> QED
        BY <3>1, <3>2, <3>3, Zenon
    <2>2. Max(1 .. i) = i
      BY <2>1, GreatestUpto
    <2>3. (1 .. i) \ {i} = 1 .. i - 1
      BY <2>1
    <2> QED
      BY <1>9, <2>1, <2>2, <2>3, Zenon
  <1> DEFINE f == [i \in 0 .. n |-> g[1 .. i]]
             P == {i \in Nat : i <= n => f[i] \in Nat}
  <1>12. \A i \in 1 .. n : f[i] = f[i - 1] + PartLen(ps[i])
    BY <1>2, <1>11
  <1>13. f[0] = 0
    BY <1>2, <1>10
  <1>14. f[n] = PartsLen(ps)
    BY <1>1, <1>2
  <1> HIDE DEF f
  <1>15. \A i \in 0 .. n : f[i] \in Nat
    <2>1. 0 \in P
      BY <1>13
    <2>2. ASSUME NEW i \in Nat, i \in P
          PROVE  i + 1 \in P
      <3> SUFFICES ASSUME NEW j \in 1 .. n, j = i + 1
                   PROVE  f[j] \in Nat
        BY <1>2
      <3>1. f[j] = f[j - 1] + PartLen(ps[j]) /\ PartLen(ps[j]) \in Nat
        BY <1>3, <1>12
      <3>2. j - 1 = i /\ f[i] \in Nat
        BY <1>2, <2>2
      <3> QED
        BY <3>1, <3>2
    <2> HIDE DEF P
    <2>3. Nat \subseteq P
      BY <2>1, <2>2, Inductive
    <2> QED
      BY <1>2, <2>3 DEF P
  <1> QED
    BY <1>12, <1>13, <1>14, <1>15, Zenon DEF Sums, n

\* Nothing has no length.
LEMMA NoPartsLen == PartsLen(<<>>) = 0
  <1>1. <<>> \in Seq(Span) /\ Len(<<>>) = 0
    OBVIOUS
  <1>2. PICK f : Sums(f, <<>>)
    BY <1>1, PartsAdded
  <1> QED
    BY <1>1, <1>2, Zenon DEF Sums

\* What is put behind adds its length.
LEMMA PartsLenCat ==
    ASSUME NEW ps \in Seq(Span), NEW qs \in Seq(Span)
    PROVE  /\ PartsLen(ps) \in Nat /\ PartsLen(qs) \in Nat
           /\ PartsLen(ps \o qs) = PartsLen(ps) + PartsLen(qs)
  <1>1. PICK us \in Seq(Span) : us = ps \o qs
    BY ConcatProperties
  <1>2. PICK n \in Nat, m \in Nat : n = Len(ps) /\ m = Len(qs)
    BY LenProperties
  <1>3. /\ Len(us) = n + m
        /\ \A i \in 1 .. n : us[i] = ps[i]
        /\ \A i \in 1 .. m : us[n + i] = qs[i]
    BY <1>1, <1>2, ConcatProperties, ConcatFirst, ConcatSecond
  <1>4. PICK f : Sums(f, ps)
    BY PartsAdded
  <1>5. PICK g : Sums(g, qs)
    BY PartsAdded
  <1>6. PICK h : Sums(h, us)
    BY PartsAdded
  <1>7. /\ f[0] = 0 /\ g[0] = 0 /\ h[0] = 0
        /\ f[n] \in Nat /\ g[m] \in Nat
        /\ \A i \in 1 .. n : f[i] = f[i - 1] + PartLen(ps[i])
        /\ \A i \in 1 .. m : g[i] = g[i - 1] + PartLen(qs[i])
        /\ \A i \in 1 .. n + m : h[i] = h[i - 1] + PartLen(us[i])
        /\ \A i \in 1 .. m : PartLen(qs[i]) \in Nat
        /\ \A i \in 0 .. m : g[i] \in Nat
    <2>1. n \in 0 .. n /\ m \in 0 .. m
      OBVIOUS
    <2>2. \A i \in 1 .. m : PartLen(qs[i]) \in Nat
      BY <1>2, PartLenNat, ElementOfSeq
    <2> QED
      BY <1>2, <1>3, <1>4, <1>5, <1>6, <2>1, <2>2, Zenon DEF Sums
  <1> DEFINE P == {i \in Nat : i <= n => h[i] = f[i]}
             Q == {i \in Nat : i <= m => h[n + i] = f[n] + g[i]}
  <1>8. h[n] = f[n]
    <2>1. 0 \in P
      BY <1>7
    <2>2. ASSUME NEW i \in Nat, i \in P
          PROVE  i + 1 \in P
      <3> SUFFICES ASSUME NEW j \in 1 .. n, j = i + 1
                   PROVE  h[j] = f[j]
        OBVIOUS
      <3>1. j \in 1 .. n + m /\ j - 1 = i /\ h[i] = f[i]
        BY <2>2
      <3>2. h[j] = h[i] + PartLen(us[j])
        BY <1>7, <3>1, Zenon
      <3>3. f[j] = f[i] + PartLen(ps[j])
        BY <1>7, <3>1, Zenon
      <3>4. us[j] = ps[j]
        BY <1>3
      <3> QED
        BY <3>1, <3>2, <3>3, <3>4, Zenon
    <2> HIDE DEF P
    <2>3. Nat \subseteq P
      BY <2>1, <2>2, Inductive
    <2> QED
      BY <2>3 DEF P
  <1>9. h[n + m] = f[n] + g[m]
    <2>1. 0 \in Q
      <3>1. n + 0 = n /\ f[n] + 0 = f[n]
        BY <1>7
      <3> QED
        BY <1>7, <1>8, <3>1
    <2>2. ASSUME NEW i \in Nat, i \in Q
          PROVE  i + 1 \in Q
      <3> SUFFICES ASSUME NEW j \in 1 .. m, j = i + 1
                   PROVE  h[n + j] = f[n] + g[j]
        OBVIOUS
      <3>1. /\ n + j \in 1 .. n + m /\ j - 1 = i /\ (n + j) - 1 = n + i
            /\ h[n + i] = f[n] + g[i] /\ i \in 0 .. m
        BY <2>2
      <3>2. h[n + j] = h[n + i] + PartLen(qs[j])
        BY <1>3, <1>7, <3>1, Zenon
      <3>3. g[j] = g[i] + PartLen(qs[j])
        BY <1>7, <3>1, Zenon
      <3>4. PICK x \in Nat, y \in Nat, z \in Nat :
              x = f[n] /\ y = g[i] /\ z = PartLen(qs[j])
        BY <1>7, <3>1, Zenon
      <3>5. (x + y) + z = x + (y + z)
        OBVIOUS
      <3> QED
        BY <3>1, <3>2, <3>3, <3>4, <3>5, Zenon
    <2> HIDE DEF Q
    <2>3. Nat \subseteq Q
      BY <2>1, <2>2, Inductive
    <2> QED
      BY <2>3 DEF Q
  <1>10. PartsLen(us) = h[n + m] /\ PartsLen(ps) = f[n] /\ PartsLen(qs) = g[m]
    BY <1>2, <1>3, <1>4, <1>5, <1>6, Zenon DEF Sums
  <1> QED
    BY <1>1, <1>7, <1>9, <1>10, Zenon

-----------------------------------------------------------------------------
(* Up: what a call sends. *)

\* The parts of a call go on behind lo and end at hi.
Goes(ps, lo, hi) ==
    /\ ps \in Seq(Span) /\ Len(ps) >= 1 /\ ps[Len(ps)].to = hi
    /\ \A k \in 1 .. Len(ps) :
          ps[k].from = IF k = 1 THEN lo + 1 ELSE ps[k - 1].to + 1

\* A packet that the unpacking side accepts, and in which it finds the data.
Fits(p) == /\ PartLen(p) < MaxPacket
           /\ DataLen(PartLen(p), RandHead(p.rand)) = Carried(p)

\* The parts of one kind: one of it, or packets counted from id.
Made(ps, kind, id) ==
    /\ \A k \in 1 .. Len(ps) : ps[k].kind = kind
    /\ kind # "packet" => Len(ps) = 1
    /\ kind = "packet" =>
          \A k \in 1 .. Len(ps) : ps[k].id = id + k - 1 /\ Fits(ps[k])

\* The packets of a write of some size: none empty, none too large, and together
\* the write.
LEMMA Cutting ==
    ASSUME NEW size \in Nat \ {0}, NEW n, n = (size + ChunkSize - 1) \div ChunkSize
    PROVE  /\ n \in Nat \ {0}
           /\ \A k \in 1 .. n :
                /\ Least(ChunkSize, size - (k - 1) * ChunkSize) \in 1 .. ChunkSize
                /\ k < n => (k - 1) * ChunkSize
                        + Least(ChunkSize, size - (k - 1) * ChunkSize) = k * ChunkSize
                /\ k = n => (k - 1) * ChunkSize
                        + Least(ChunkSize, size - (k - 1) * ChunkSize) = size
  <1>1. ChunkSize = 8100
    BY DEF ChunkSize
  <1>2. n \in Nat \ {0} /\ (n - 1) * 8100 < size /\ size <= n * 8100
    <2>1. n = (size + 8099) \div 8100
      BY <1>1
    <2>2. n \in Nat
      BY <2>1
    <2>3. size <= n * 8100
      BY <2>1
    <2>4. n * 8100 <= size + 8099
      BY <2>1
    <2> QED
      BY <2>2, <2>3, <2>4
  <1>3. ASSUME NEW k \in 1 .. n
        PROVE  /\ Least(ChunkSize, size - (k - 1) * ChunkSize) \in 1 .. ChunkSize
               /\ k < n => (k - 1) * ChunkSize
                       + Least(ChunkSize, size - (k - 1) * ChunkSize) = k * ChunkSize
               /\ k = n => (k - 1) * ChunkSize
                       + Least(ChunkSize, size - (k - 1) * ChunkSize) = size
    <2>1. PICK i \in Nat, x \in Int : i = k - 1 /\ k = i + 1 /\ x = size - i * 8100
      BY <1>2
    <2>2. x >= 1 /\ (k < n => x >= 8100) /\ (k = n => x <= 8100)
      BY <1>2, <2>1
    <2>3. PICK y \in Int : y = Least(8100, x)
      BY DEF Least
    <2>4. y \in 1 .. 8100 /\ (k < n => y = 8100) /\ (k = n => y = x)
      BY <2>2, <2>3 DEF Least
    <2>5. Least(ChunkSize, size - (k - 1) * ChunkSize) = y
      BY <1>1, <2>1, <2>3
    <2>6. k < n => i * 8100 + y = k * 8100
      BY <2>1, <2>4
    <2>7. k = n => i * 8100 + y = size
      BY <2>1, <2>4
    <2> QED
      <3>1. (k - 1) * ChunkSize = i * 8100 /\ k * ChunkSize = k * 8100
        BY <1>1, <2>1
      <3>2. y \in 1 .. ChunkSize
        BY <1>1, <2>4
      <3>3. k < n => (k - 1) * ChunkSize + y = k * ChunkSize
        BY <2>6, <3>1
      <3>4. k = n => (k - 1) * ChunkSize + y = size
        BY <2>7, <3>1
      <3> QED
        BY <2>5, <3>2, <3>3, <3>4, Zenon
  <1> QED
    BY <1>2, <1>3

\* A sampled length is one of those it is taken from.
LEMMA SampledIn == \A lens : Sampled(lens) \subseteq lens
  BY DEF Sampled

\* A write as packets.
LEMMA PacketsMade ==
    ASSUME NEW size \in Nat \ {0}, NEW ps \in DataPackets(size),
           given \in Nat, pack_id \in Nat
    PROVE  Goes(ps, given, given + size) /\ Made(ps, "packet", pack_id)
           /\ pack_id + Len(ps) \in Nat
  <1> DEFINE n       == (size + ChunkSize - 1) \div ChunkSize
             Data(k) == Least(ChunkSize, size - (k - 1) * ChunkSize)
             Rand(k) == Sampled(RandLens(Data(k), size))
             At(r, k) == Part("packet", pack_id + k - 1, r[k],
                              given + (k - 1) * ChunkSize + 1,
                              given + (k - 1) * ChunkSize + Data(k))
  <1>1. /\ n \in Nat \ {0}
        /\ \A k \in 1 .. n :
             /\ Data(k) \in 1 .. ChunkSize
             /\ k < n => (k - 1) * ChunkSize + Data(k) = k * ChunkSize
             /\ k = n => (k - 1) * ChunkSize + Data(k) = size
    BY Cutting
  <1>2. PICK r : /\ ps = [k \in 1 .. n |-> At(r, k)]
                 /\ \A k \in 1 .. n : r[k] \in Rand(k)
    BY Zenon DEF DataPackets, Packets
  <1> HIDE DEF n, Data
  <1>3. ASSUME NEW k \in 1 .. n
        PROVE  /\ At(r, k) \in Span /\ Fits(At(r, k))
               /\ At(r, k).id = pack_id + k - 1 /\ At(r, k).kind = "packet"
               /\ At(r, k).from = given + (k - 1) * ChunkSize + 1
               /\ At(r, k).to = given + (k - 1) * ChunkSize + Data(k)
    <2>1. r[k] \in RandLens(Data(k), size)
      BY <1>2, SampledIn
    <2>2. PICK d \in 1 .. ChunkSize, f \in Nat : d = Data(k) /\ f = size
      BY <1>1, Zenon
    <2>3. PICK q \in RandLens(d, f) : q = r[k]
      BY <2>1, <2>2, Zenon
    <2>4. q \in Nat /\ (q <= 31 \/ q + d <= 2911) /\ q <= 1460
      BY DEF RandLens, ChunkSize
    <2>5. /\ PackedLen(q, d) < MaxPacket
          /\ DataLen(PackedLen(q, d), RandHead(q)) = d
      BY PacketsFit, DataFound
    <2>6. PICK lo \in Nat, x \in Nat :
            lo = given + (k - 1) * ChunkSize /\ x = pack_id + k - 1
      <3>1. given + (k - 1) * ChunkSize \in Nat /\ pack_id + k - 1 \in Nat
        BY <1>1 DEF ChunkSize
      <3> QED
        BY <3>1, Zenon
    <2> DEFINE p == Part("packet", x, q, lo + 1, lo + d)
    <2>7. /\ p \in Span /\ p.rand = q /\ p.id = x /\ p.from = lo + 1
          /\ p.to = lo + d /\ p.kind = "packet" /\ Carried(p) = d
      <3>1. PICK kind \in {"data", "auth", "packet"}, a \in Nat, b \in Nat :
              kind = "packet" /\ a = lo + 1 /\ b = lo + d
        BY DEF ChunkSize
      <3>2. 1 <= a /\ a <= b /\ b - a + 1 = d /\ q \in Rands
        BY <2>4, <3>1 DEF ChunkSize, Rands
      <3>3. x \in Nat /\ p = Part(kind, x, q, a, b)
        BY <3>1, Zenon
      <3>4. Is(p, kind, x, q, a, b)
        <4>1. Makes(kind, x, q, a, b, p)
          BY <3>2, <3>3 DEF Makes
        <4> QED
          BY <4>1, PartMade, Zenon
      <3> HIDE DEF p
      <3>5. /\ p \in Span /\ p.rand = q /\ p.id = x /\ p.from = a
            /\ p.to = b /\ p.kind = kind /\ Carried(p) = b - a + 1
        BY <3>4, Zenon DEF Is
      <3> QED
        BY <3>1, <3>2, <3>5
    <2>8. PartLen(p) = PackedLen(q, d)
      BY <2>7, Zenon DEF PartLen
    <2>9. Fits(p)
      BY <2>5, <2>7, <2>8, Zenon DEF Fits
    <2>10. p = At(r, k)
      BY <2>2, <2>3, <2>6, Zenon
    <2> HIDE DEF p
    <2> QED
      BY <2>2, <2>6, <2>7, <2>9, <2>10, Zenon
  <1>4. ps \in Seq(Span) /\ Len(ps) = n
    <2>1. ps \in [1 .. n -> Span]
      BY <1>2, <1>3
    <2> QED
      BY <1>1, <2>1, FunctionIsSeq
  <1>5. \A k \in 1 .. n : ps[k] = At(r, k)
    BY <1>2
  <1> HIDE DEF At
  <1>6. n \in 1 .. n /\ ps[n].to = given + size
    <2>1. n \in 1 .. n
      BY <1>1
    <2>2. ps[n].to = given + (n - 1) * ChunkSize + Data(n)
      BY <1>3, <1>5, <2>1, Zenon
    <2>3. Data(n) \in Nat /\ (n - 1) * ChunkSize + Data(n) = size
      BY <1>1, <2>1
    <2>4. given + (n - 1) * ChunkSize + Data(n) = given + size
      <3>1. (n - 1) * ChunkSize \in Nat
        BY <1>1 DEF ChunkSize
      <3>2. PICK y \in Nat, d \in Nat : y = (n - 1) * ChunkSize /\ d = Data(n)
        BY <2>3, <3>1, Zenon
      <3>3. given + y + d = given + (y + d)
        OBVIOUS
      <3> QED
        BY <2>3, <3>2, <3>3, Zenon
    <2> QED
      BY <2>1, <2>2, <2>4, Zenon
  <1>7. ASSUME NEW k \in 1 .. n
        PROVE  ps[k].from = IF k = 1 THEN given + 1 ELSE ps[k - 1].to + 1
    <2>1. CASE k = 1
      <3>1. given + (1 - 1) * ChunkSize + 1 = given + 1
        BY DEF ChunkSize
      <3> QED
        BY <1>3, <1>5, <2>1, <3>1, Zenon
    <2>2. CASE k # 1
      <3>1. PICK j \in 1 .. n : j = k - 1 /\ j < n /\ k = j + 1
        BY <1>1, <2>2
      <3>2. ps[j].to = given + (j - 1) * ChunkSize + Data(j)
        BY <1>3, <1>5
      <3>3. (j - 1) * ChunkSize + Data(j) = j * ChunkSize
        BY <1>1, <3>1
      <3>4. Data(j) \in Nat
        BY <1>1
      <3>5. given + (j - 1) * ChunkSize + Data(j) = given + j * ChunkSize
        BY <3>3, <3>4 DEF ChunkSize
      <3>6. ps[k].from = given + j * ChunkSize + 1
        BY <1>3, <1>5, <3>1, Zenon
      <3> QED
        BY <2>2, <3>1, <3>2, <3>5, <3>6, Zenon
    <2> QED
      BY <2>1, <2>2
  <1> QED
    <2>1. Goes(ps, given, given + size)
      BY <1>1, <1>4, <1>6, <1>7 DEF Goes
    <2>2. Made(ps, "packet", pack_id)
      BY <1>1, <1>3, <1>4, <1>5 DEF Made
    <2> QED
      BY <2>1, <2>2

\* ps is what a call that sends one part sends.
IsOne(ps, kind, size) == \/ kind = "data" /\ ps \in Plain(size)
                         \/ kind = "auth" /\ ps \in Auth(size)

\* The parts of a call that sends one.
LEMMA OneMade ==
    ASSUME NEW size \in Nat \ {0}, given \in Nat, NEW ps, NEW kind,
           IsOne(ps, kind, size)
    PROVE  Goes(ps, given, given + size) /\ Made(ps, kind, pack_id)
  <1>1. PICK r \in Rands : ps = <<Part(kind, 0, r, given + 1, given + size)>>
    BY SampledIn DEF IsOne, Plain, Auth, AuthRandLens, Rands
  <1>2. kind \in {"data", "auth"}
    BY DEF IsOne
  <1>3. PICK p \in Span : /\ p = Part(kind, 0, r, given + 1, given + size)
                          /\ p.kind = kind /\ p.from = given + 1
                          /\ p.to = given + size
    <2>1. PICK lo \in Nat \ {0}, hi \in Nat : lo = given + 1 /\ hi = given + size
      OBVIOUS
    <2>2. 1 <= lo /\ lo <= hi /\ kind \in {"data", "auth", "packet"} /\ 0 \in Nat
      BY <1>2, <2>1
    <2>3. PICK p : p = Part(kind, 0, r, lo, hi)
      OBVIOUS
    <2>4. Makes(kind, 0, r, lo, hi, p)
      BY <2>1, <2>2, <2>3 DEF Makes
    <2>5. p \in Span /\ p.kind = kind /\ p.from = lo /\ p.to = hi
      <3>1. Is(p, kind, 0, r, lo, hi)
        BY <2>4, PartMade, Zenon
      <3> QED
        BY <3>1, Zenon DEF Is
    <2> QED
      BY <2>1, <2>3, <2>5
  <1>4. ps = <<p>>
    BY <1>1, <1>3, Zenon
  <1> QED
    BY <1>2, <1>3, <1>4 DEF Goes, Made

-----------------------------------------------------------------------------
(* Up: what was sent so far. *)

\* What one call has sent.
Sending == [header : BOOLEAN, iv : BOOLEAN, at : Nat, parts : Seq(Span)]

\* The parts of the first m calls of s, and of all that was sent.
Flat(s, m) == FlattenSeq([l \in 1 .. m |-> s[l].parts])
Parts == Flat(sent, Len(sent))

\* The parts follow one another without a gap, up to hi.
Chained(ps, hi) ==
    /\ ps \in Seq(Span)
    /\ \A k \in 1 .. Len(ps) :
        ps[k].from = IF k = 1 THEN 1 ELSE ps[k - 1].to + 1
    /\ hi = IF ps = <<>> THEN 0 ELSE ps[Len(ps)].to

\* The first has the target, and with authentication it is the one that
\* authenticates and the others are counted from 1.
Kinds(ps, prot) ==
    \A k \in 1 .. Len(ps) :
        /\ k = 1 => ps[k].to = TargetSize
        /\ prot = "auth" => ps[k].kind = IF k = 1 THEN "auth" ELSE "packet"
        /\ ps[k].kind = "packet" => ps[k].id = k - 1 /\ Fits(ps[k])

\* Each call has the key stream from where the calls before have left it, and
\* only the first the header and the IV.
Keyed(s, ks) ==
    /\ \A m \in 1 .. Len(s) :
        /\ s[m].header = (m = 1 /\ obfs = "http_simple")
        /\ s[m].iv = (m = 1)
        /\ s[m].at = PartsLen(Flat(s, m - 1))
    /\ ks = PartsLen(Flat(s, Len(s)))

\* What the two objects that protect the stream remember of it.
Remembered ==
    IF sent = <<>>
    THEN given = 0 /\ pack_id = 1 /\ first_packet /\ obfs_first
    ELSE /\ Parts # <<>>
         /\ first_packet = (protocol = "origin") /\ obfs_first = (obfs = "plain")
         /\ pack_id = IF protocol = "auth" THEN Len(Parts) ELSE 1

\* Types of what the way up has.
UpType ==
    /\ protocol \in {"origin", "auth"} /\ obfs \in {"plain", "http_simple"}
    /\ sent \in Seq(Sending)
    /\ obfs_first \in BOOLEAN /\ first_packet \in BOOLEAN
    /\ pack_id \in Nat \ {0} /\ keystream \in Nat /\ given \in Nat

\* The way up, as it is between two calls.
UpInv == /\ UpType /\ Chained(Parts, given) /\ Kinds(Parts, protocol)
         /\ Keyed(sent, keystream) /\ Remembered

\* The parts of the calls, flattened, are parts, and those of one call more
\* stand behind them.
LEMMA FlatMore ==
    ASSUME NEW s \in Seq(Sending), NEW r \in Sending
    PROVE  /\ Len(Append(s, r)) = Len(s) + 1
           /\ \A m \in 0 .. Len(s) : /\ Flat(s, m) \in Seq(Span)
                                     /\ Flat(Append(s, r), m) = Flat(s, m)
           /\ Flat(Append(s, r), Len(s) + 1) = Flat(s, Len(s)) \o r.parts
  <1>1. PICK n \in Nat, t \in Seq(Sending) : n = Len(s) /\ t = Append(s, r)
    BY AppendProperties, LenProperties
  <1>2. Len(t) = n + 1 /\ t[n + 1] = r /\ \A l \in 1 .. n : t[l] = s[l]
    BY <1>1, AppendProperties
  <1>3. \A l \in 1 .. n : s[l].parts \in Seq(Span)
    <2> SUFFICES ASSUME NEW l \in 1 .. n
                 PROVE  s[l].parts \in Seq(Span)
      OBVIOUS
    <2>1. s[l] \in Sending
      BY <1>1, ElementOfSeq
    <2> QED
      BY <2>1 DEF Sending
  <1> DEFINE a(m) == [l \in 1 .. m |-> s[l].parts]
             b(m) == [l \in 1 .. m |-> t[l].parts]
  <1>4. ASSUME NEW m \in 0 .. n
        PROVE  a(m) \in Seq(Seq(Span)) /\ Len(a(m)) = m /\ a(m) = b(m)
    <2>1. a(m) \in [1 .. m -> Seq(Span)] /\ m \in Nat
      BY <1>3
    <2>2. a(m) = b(m)
      BY <1>2
    <2> HIDE DEF a, b
    <2> QED
      BY <2>1, <2>2, FunctionIsSeq
  <1>5. \A m \in 0 .. n : Flat(s, m) \in Seq(Span) /\ Flat(t, m) = Flat(s, m)
    <2> SUFFICES ASSUME NEW m \in 0 .. n
                 PROVE  Flat(s, m) \in Seq(Span) /\ Flat(t, m) = Flat(s, m)
      OBVIOUS
    <2>1. Flat(s, m) = FlattenSeq(a(m)) /\ Flat(t, m) = FlattenSeq(b(m))
      BY Zenon DEF Flat
    <2> HIDE DEF a, b
    <2> QED
      BY <1>4, <2>1, FlattenType
  <1>6. n \in 0 .. n /\ r.parts \in Seq(Span)
    BY DEF Sending
  <1>7. b(n + 1) = Append(a(n), r.parts)
    <2>1. PICK p \in Seq(Span) : p = r.parts
      BY <1>6, Zenon
    <2>2. PICK c \in Seq(Seq(Span)) : c = a(n) /\ Len(c) = n
      BY <1>4, <1>6, Zenon
    <2>3. /\ Append(c, p) \in Seq(Seq(Span)) /\ Len(Append(c, p)) = n + 1
          /\ Append(c, p)[n + 1] = p
          /\ \A l \in 1 .. n : Append(c, p)[l] = c[l]
      BY <2>2, AppendProperties
    <2>4. PICK d \in Seq(Seq(Span)) : d = Append(c, p)
      BY <2>3, Zenon
    <2>5. /\ b(n + 1) \in Seq(Seq(Span)) /\ Len(b(n + 1)) = n + 1
      <3>1. \A l \in 1 .. n + 1 : t[l].parts \in Seq(Span)
        <4>1. \A l \in 1 .. n + 1 : l = n + 1 \/ l \in 1 .. n
          BY <1>2
        <4> QED
          BY <1>2, <1>3, <1>6, <4>1, Zenon
      <3>2. b(n + 1) \in [1 .. n + 1 -> Seq(Span)] /\ n + 1 \in Nat
        BY <3>1
      <3> HIDE DEF b
      <3>3. PICK m \in Nat : m = n + 1
        BY <3>2, Zenon
      <3>4. PICK g \in [1 .. m -> Seq(Span)] : g = b(n + 1)
        BY <3>2, <3>3, Zenon
      <3>5. g \in Seq(Seq(Span)) /\ Len(g) = m
        BY FunctionIsSeq
      <3> QED
        BY <3>3, <3>4, <3>5, Zenon
    <2>6. \A l \in 1 .. n + 1 : b(n + 1)[l] = d[l]
      <3> SUFFICES ASSUME NEW l \in 1 .. n + 1
                   PROVE  b(n + 1)[l] = d[l]
        OBVIOUS
      <3>1. b(n + 1)[l] = t[l].parts
        OBVIOUS
      <3>2. CASE l = n + 1
        BY <1>2, <2>1, <2>3, <2>4, <3>1, <3>2, Zenon
      <3>3. CASE l # n + 1
        <4>1. l \in 1 .. n
          BY <3>3
        <4>2. a(n)[l] = s[l].parts
          BY <4>1
        <4> QED
          BY <1>2, <2>2, <2>3, <2>4, <3>1, <4>1, <4>2, Zenon
      <3> QED
        BY <3>2, <3>3
    <2>7. PICK e \in Seq(Seq(Span)) : e = b(n + 1)
      BY <2>5, Zenon
    <2> HIDE DEF a, b
    <2>8. Len(e) = Len(d) /\ \A l \in 1 .. Len(e) : e[l] = d[l]
      BY <2>3, <2>4, <2>5, <2>6, <2>7
    <2>9. e = d
      BY <2>8, SeqEqual
    <2> QED
      BY <2>1, <2>2, <2>4, <2>7, <2>9, Zenon
  <1>8. Flat(t, n + 1) = Flat(s, n) \o r.parts
    <2>1. Flat(s, n) = FlattenSeq(a(n)) /\ Flat(t, n + 1) = FlattenSeq(b(n + 1))
      BY Zenon DEF Flat
    <2> HIDE DEF a, b
    <2>2. FlattenSeq(Append(a(n), r.parts)) = FlattenSeq(a(n)) \o r.parts
      BY <1>4, <1>6, FlattenAppend
    <2> QED
      BY <1>7, <2>1, <2>2, Zenon
  <1> QED
    BY <1>1, <1>2, <1>5, <1>8, Zenon

\* What follows what is chained is chained to it.
LEMMA ChainedCat ==
    ASSUME NEW ps, NEW qs, NEW lo \in Nat, NEW hi \in Nat,
           Chained(ps, lo), Goes(qs, lo, hi)
    PROVE  Chained(ps \o qs, hi) /\ Len(ps \o qs) = Len(ps) + Len(qs)
  <1>1. ps \in Seq(Span) /\ qs \in Seq(Span)
    BY DEF Chained, Goes
  <1>2. PICK n \in Nat, m \in Nat \ {0} : n = Len(ps) /\ m = Len(qs)
    BY <1>1, LenProperties DEF Goes
  <1>3. PICK us \in Seq(Span) : us = ps \o qs
    BY <1>1, ConcatProperties
  <1>4. /\ Len(us) = n + m
        /\ \A i \in 1 .. n : us[i] = ps[i]
        /\ \A i \in 1 .. m : us[n + i] = qs[i]
    BY <1>1, <1>2, <1>3, ConcatProperties, ConcatFirst, ConcatSecond
  <1>5. ASSUME NEW k \in 1 .. n + m
        PROVE  us[k].from = IF k = 1 THEN 1 ELSE us[k - 1].to + 1
    <2>1. CASE k <= n
      <3>1. k \in 1 .. n /\ (k # 1 => k - 1 \in 1 .. n)
        BY <2>1
      <3>2. ps[k].from = IF k = 1 THEN 1 ELSE ps[k - 1].to + 1
        BY <1>2, <3>1, Zenon DEF Chained
      <3> QED
        BY <1>4, <3>1, <3>2, Zenon
    <2>2. CASE k > n
      <3>1. PICK i \in 1 .. m : i = k - n /\ k = n + i
        BY <2>2
      <3>2. qs[i].from = IF i = 1 THEN lo + 1 ELSE qs[i - 1].to + 1
        BY <1>2, Zenon DEF Goes
      <3>3. us[k] = qs[i]
        BY <1>4, <3>1, Zenon
      <3>4. CASE i # 1
        <4>1. PICK j \in 1 .. m : j = i - 1
          BY <3>4
        <4>2. k - 1 = n + j /\ k # 1
          BY <3>1, <4>1
        <4> QED
          BY <1>4, <3>2, <3>3, <3>4, <4>1, <4>2, Zenon
      <3>5. CASE i = 1 /\ n = 0
        <4>1. k = 1 /\ ps = <<>>
          <5>1. k = 1 /\ Len(ps) = 0
            BY <1>2, <3>1, <3>5
          <5> QED
            BY <1>1, <5>1, EmptySeq
        <4>2. lo = 0
          BY <4>1, Zenon DEF Chained
        <4>3. lo + 1 = 1
          BY <4>2
        <4> QED
          BY <3>2, <3>3, <3>5, <4>1, <4>3, Zenon
      <3>6. CASE i = 1 /\ n # 0
        <4>1. k - 1 = n /\ k # 1 /\ n \in 1 .. n /\ ps # <<>>
          BY <1>1, <1>2, <3>1, <3>6, EmptySeq
        <4>2. lo = ps[n].to
          BY <1>2, <4>1, Zenon DEF Chained
        <4> QED
          BY <1>4, <3>2, <3>3, <3>6, <4>1, <4>2, Zenon
      <3> QED
        BY <3>4, <3>5, <3>6
    <2> QED
      BY <2>1, <2>2
  <1>6. us # <<>> /\ us[Len(us)].to = hi
    <2>1. m \in 1 .. m /\ Len(us) # 0
      BY <1>4
    <2>2. us[n + m] = qs[m]
      BY <1>4, <2>1, Zenon
    <2>3. qs[m].to = hi
      BY <1>2, Zenon DEF Goes
    <2> QED
      BY <1>4, <2>1, <2>2, <2>3, EmptySeq, Zenon
  <1> QED
    BY <1>2, <1>3, <1>4, <1>5, <1>6, Zenon DEF Chained

\* The kinds of parts that are put behind others.
Suited(ps, qs, prot, kind, id) ==
    /\ kind \in {"data", "auth", "packet"} /\ Made(qs, kind, id)
    /\ prot = "origin" => kind = "data"
    /\ ps = <<>> => /\ kind # "packet" /\ qs[1].to = TargetSize
                    /\ prot = "auth" => kind = "auth"
    /\ ps # <<>> /\ prot = "auth" => kind = "packet" /\ id = Len(ps)

\* The kinds stay in order.
LEMMA KindsCat ==
    ASSUME NEW ps \in Seq(Span), NEW qs \in Seq(Span), NEW prot \in {"origin", "auth"},
           NEW kind, NEW id, Kinds(ps, prot), Suited(ps, qs, prot, kind, id)
    PROVE  Kinds(ps \o qs, prot)
  <1>1. PICK n \in Nat, m \in Nat : n = Len(ps) /\ m = Len(qs)
    BY LenProperties
  <1>2. PICK us \in Seq(Span) : us = ps \o qs
    BY ConcatProperties
  <1>3. /\ Len(us) = n + m
        /\ \A i \in 1 .. n : us[i] = ps[i]
        /\ \A i \in 1 .. m : us[n + i] = qs[i]
    BY <1>1, <1>2, ConcatProperties, ConcatFirst, ConcatSecond
  <1>4. n = 0 <=> ps = <<>>
    BY <1>1, EmptySeq
  <1>5. ASSUME NEW k \in 1 .. n + m
        PROVE  /\ k = 1 => us[k].to = TargetSize
               /\ prot = "auth" => us[k].kind = IF k = 1 THEN "auth" ELSE "packet"
               /\ us[k].kind = "packet" => us[k].id = k - 1 /\ Fits(us[k])
    <2>1. CASE k <= n
      <3>1. k \in 1 .. n
        BY <2>1
      <3> QED
        BY <1>1, <1>3, <3>1, Zenon DEF Kinds
    <2>2. CASE k > n
      <3>1. PICK i \in 1 .. m : i = k - n /\ k = n + i
        BY <2>2
      <3>2. us[k] = qs[i]
        BY <1>3, <3>1, Zenon
      <3>3. /\ qs[i].kind = kind
            /\ kind = "packet" => qs[i].id = id + i - 1 /\ Fits(qs[i])
            /\ kind # "packet" => m = 1
        BY <1>1, Zenon DEF Suited, Made
      <3>4. CASE ps = <<>>
        <4>1. kind # "packet" /\ m = 1 /\ (prot = "auth" => kind = "auth")
          BY <3>3, <3>4 DEF Suited
        <4>2. k = 1 /\ i = 1
          BY <1>4, <3>1, <3>4, <4>1
        <4>3. qs[1].to = TargetSize
          BY <3>4, Zenon DEF Suited
        <4> QED
          BY <3>2, <3>3, <4>1, <4>2, <4>3, Zenon
      <3>5. CASE ps # <<>>
        <4>1. k # 1
          BY <1>4, <3>1, <3>5
        <4>2. prot = "auth" => kind = "packet"
          BY <3>5 DEF Suited
        <4>3. kind = "packet" => prot = "auth"
          BY DEF Suited
        <4>4. kind = "packet" => id = n
          BY <1>1, <3>5, <4>3 DEF Suited
        <4>5. n + i - 1 = k - 1
          BY <3>1
        <4> QED
          BY <3>2, <3>3, <4>1, <4>2, <4>4, <4>5, Zenon
      <3> QED
        BY <3>4, <3>5
    <2> QED
      BY <2>1, <2>2
  <1> QED
    BY <1>2, <1>3, <1>5, Zenon DEF Kinds

\* What a call sends goes on where the calls before have ended, and is of the
\* kind whose turn it is.
LEMMA NewParts ==
    ASSUME UpInv, NEW size \in Nat \ {0}, NEW ps,
           sent = <<>> => size = TargetSize,
           ps \in IF protocol = "origin" THEN Plain(size)
                  ELSE IF first_packet   THEN Auth(size)
                  ELSE DataPackets(size)
    PROVE  /\ Goes(ps, given, given + size)
           /\ \E kind : Suited(Parts, ps, protocol, kind, pack_id)
           /\ protocol = "auth" /\ ~first_packet => pack_id + Len(ps) \in Nat
           /\ protocol = "origin" \/ first_packet => Len(ps) = 1
  <1>1. given \in Nat /\ pack_id \in Nat /\ protocol \in {"origin", "auth"}
    BY DEF UpInv, UpType
  <1>2. /\ sent = <<>> => given = 0 /\ first_packet
        /\ sent # <<>> => Parts # <<>> /\ first_packet = (protocol = "origin")
        /\ sent # <<>> /\ protocol = "auth" => pack_id = Len(Parts)
    BY DEF UpInv, Remembered
  <1>3. Parts = <<>> => sent = <<>>
    BY <1>2
  <1>4. ASSUME NEW kind, kind \in {"data", "auth"},
               Goes(ps, given, given + size), Made(ps, kind, pack_id),
               sent = <<>>
        PROVE  ps[1].to = TargetSize
    <2>1. Len(ps) = 1
      BY <1>4 DEF Made
    <2>2. ps[1].to = given + size
      BY <1>4, <2>1, Zenon DEF Goes
    <2> QED
      BY <1>2, <1>4, <2>2
  <1>5. CASE protocol = "origin"
    <2>1. Goes(ps, given, given + size) /\ Made(ps, "data", pack_id)
      BY <1>1, <1>5, OneMade DEF IsOne
    <2>2. Suited(Parts, ps, protocol, "data", pack_id)
      BY <1>3, <1>4, <1>5, <2>1 DEF Suited
    <2>3. Len(ps) = 1
      BY <2>1 DEF Made
    <2> QED
      BY <1>5, <2>1, <2>2, <2>3
  <1>6. CASE protocol = "auth" /\ first_packet
    <2>1. Goes(ps, given, given + size) /\ Made(ps, "auth", pack_id)
      BY <1>1, <1>6, OneMade DEF IsOne
    <2>2. sent = <<>>
      BY <1>2, <1>6
    <2>3. Len(ps) = 1
      BY <2>1 DEF Made
    <2>4. ps[1].to = TargetSize
      BY <1>4, <2>1, <2>2
    <2>5. Parts = <<>>
      BY <2>2, FlattenEmpty DEF Parts, Flat
    <2>6. Suited(Parts, ps, protocol, "auth", pack_id)
      BY <1>6, <2>1, <2>4, <2>5 DEF Suited
    <2> QED
      BY <1>6, <2>1, <2>3, <2>6
  <1>7. CASE protocol = "auth" /\ ~first_packet
    <2>1. ps \in DataPackets(size) /\ protocol # "origin"
      BY <1>7
    <2>2. /\ Goes(ps, given, given + size) /\ Made(ps, "packet", pack_id)
          /\ pack_id + Len(ps) \in Nat
      BY <1>1, <2>1, PacketsMade
    <2>3. sent # <<>>
      BY <1>2, <1>7
    <2>4. Suited(Parts, ps, protocol, "packet", pack_id)
      BY <1>2, <1>7, <2>1, <2>2, <2>3 DEF Suited
    <2> QED
      BY <1>7, <2>1, <2>2, <2>4
  <1> QED
    BY <1>1, <1>5, <1>6, <1>7

\* A call keeps the way up in order.
LEMMA SendKeeps ==
    ASSUME UpInv, NEW size \in Nat \ {0}, NEW iv \in BOOLEAN, Send(size, iv),
           iv = (sent = <<>>), sent = <<>> => size = TargetSize, UNCHANGED chosen
    PROVE  UpInv'
  <1>1. PICK ps :
          /\ ps \in IF protocol = "origin" THEN Plain(size)
                    ELSE IF first_packet   THEN Auth(size)
                    ELSE DataPackets(size)
          /\ sent' = Append(sent, [header |-> obfs = "http_simple" /\ obfs_first,
                                   iv |-> iv, at |-> keystream, parts |-> ps])
          /\ keystream' = keystream + PartsLen(ps)
          /\ pack_id' = pack_id
                + IF protocol = "auth" /\ ~first_packet THEN Len(ps) ELSE 0
    BY Zenon DEF Send
  <1>2. /\ Goes(ps, given, given + size)
        /\ \E kind : Suited(Parts, ps, protocol, kind, pack_id)
        /\ protocol = "auth" /\ ~first_packet => pack_id + Len(ps) \in Nat
        /\ protocol = "origin" \/ first_packet => Len(ps) = 1
    BY <1>1, NewParts
  <1>3. /\ protocol' = protocol /\ obfs' = obfs
        /\ first_packet' = (first_packet /\ protocol = "origin")
        /\ obfs_first' = (obfs_first /\ obfs = "plain")
        /\ given' = given + size
    BY DEF Send, chosen
  <1>4. /\ UpType /\ Chained(Parts, given) /\ Kinds(Parts, protocol)
        /\ Keyed(sent, keystream) /\ Remembered
    BY DEF UpInv
  <1>5. ps \in Seq(Span) /\ Len(ps) \in Nat \ {0}
    BY <1>2 DEF Goes
  <1>6. PICK r \in Sending :
          /\ r = [header |-> obfs = "http_simple" /\ obfs_first,
                  iv |-> iv, at |-> keystream, parts |-> ps]
          /\ sent' = Append(sent, r)
    <2>1. PICK head \in BOOLEAN : head = (obfs = "http_simple" /\ obfs_first)
      OBVIOUS
    <2>2. PICK at \in Nat : at = keystream
      BY <1>4 DEF UpType
    <2>3. [header |-> head, iv |-> iv, at |-> at, parts |-> ps] \in Sending
      BY <1>5 DEF Sending
    <2> QED
      BY <1>1, <2>1, <2>2, <2>3, Zenon
  <1>7. PICK n \in Nat : n = Len(sent)
    BY <1>4, LenProperties DEF UpType
  <1>8. /\ sent \in Seq(Sending) /\ sent' \in Seq(Sending) /\ Len(sent') = n + 1
        /\ sent'[n + 1] = r /\ \A m \in 1 .. n : sent'[m] = sent[m]
    BY <1>4, <1>6, <1>7, AppendProperties DEF UpType
  <1>9. /\ \A m \in 0 .. n : /\ Flat(sent, m) \in Seq(Span)
                             /\ Flat(sent', m) = Flat(sent, m)
        /\ Flat(sent', n + 1) = Parts \o ps
    <2>1. r.parts = ps
      BY <1>6
    <2>2. /\ \A m \in 0 .. Len(sent) :
              /\ Flat(sent, m) \in Seq(Span)
              /\ Flat(Append(sent, r), m) = Flat(sent, m)
          /\ Flat(Append(sent, r), Len(sent) + 1) = Flat(sent, Len(sent)) \o r.parts
      BY <1>8, FlatMore
    <2> QED
      BY <1>6, <1>7, <2>1, <2>2, Zenon DEF Parts
  <1>10. Parts' = Parts \o ps
    BY <1>8, <1>9, Zenon DEF Parts
  <1>11. Parts \in Seq(Span)
    BY <1>4, Zenon DEF Chained
  <1>12. /\ Chained(Parts \o ps, given + size)
         /\ Len(Parts \o ps) = Len(Parts) + Len(ps)
    <2>1. given \in Nat /\ given + size \in Nat
      BY <1>4 DEF UpType
    <2> QED
      BY <1>2, <1>4, <2>1, ChainedCat
  <1>13. Kinds(Parts \o ps, protocol)
    <2>1. protocol \in {"origin", "auth"}
      BY <1>4 DEF UpType
    <2> QED
      BY <1>2, <1>4, <1>5, <1>11, <2>1, KindsCat
  <1>14. n = 0 <=> sent = <<>>
    BY <1>7, <1>8, EmptySeq
  <1>15. Keyed(sent, keystream)'
    <2>1. keystream' = PartsLen(Parts \o ps)
      <3>1. keystream = PartsLen(Parts)
        BY <1>4, Zenon DEF Keyed, Parts
      <3>2. PartsLen(Parts \o ps) = PartsLen(Parts) + PartsLen(ps)
        BY <1>5, <1>11, PartsLenCat
      <3> QED
        BY <1>1, <3>1, <3>2, Zenon
    <2>2. ASSUME NEW m \in 1 .. n + 1
          PROVE  /\ sent'[m].header = (m = 1 /\ obfs = "http_simple")
                 /\ sent'[m].iv = (m = 1)
                 /\ sent'[m].at = PartsLen(Flat(sent', m - 1))
      <3>1. CASE m \in 1 .. n
        <4>1. /\ sent[m].header = (m = 1 /\ obfs = "http_simple")
              /\ sent[m].iv = (m = 1)
              /\ sent[m].at = PartsLen(Flat(sent, m - 1))
          BY <1>4, <1>7, <3>1, Zenon DEF Keyed
        <4>2. m - 1 \in 0 .. n
          BY <3>1
        <4> QED
          BY <1>8, <1>9, <3>1, <4>1, <4>2, Zenon
      <3>2. CASE m = n + 1
        <4>1. m - 1 = n /\ n \in 0 .. n /\ (m = 1 <=> n = 0)
          BY <3>2
        <4>2. /\ r.header = (obfs = "http_simple" /\ obfs_first) /\ r.iv = iv
              /\ r.at = keystream
          BY <1>6
        <4>3. keystream = PartsLen(Flat(sent, n))
          BY <1>4, <1>7, Zenon DEF Keyed
        <4>4. (obfs = "http_simple" /\ obfs_first) = (m = 1 /\ obfs = "http_simple")
          BY <1>4, <1>14, <4>1 DEF Remembered
        <4>5. iv = (m = 1)
          BY <1>14, <4>1
        <4> QED
          BY <1>8, <1>9, <3>2, <4>1, <4>2, <4>3, <4>4, <4>5, Zenon
      <3> QED
        BY <3>1, <3>2
    <2> QED
      BY <1>3, <1>8, <1>9, <2>1, <2>2, Zenon DEF Keyed
  <1>16. UpType' /\ Remembered'
    <2>1. Len(Parts) \in Nat /\ Len(Parts \o ps) # 0 /\ Parts \o ps # <<>>
      BY <1>5, <1>11, <1>12
    <2>2. sent' # <<>>
      BY <1>8
    <2>3. /\ first_packet' = (protocol = "origin") /\ obfs_first' = (obfs = "plain")
          /\ first_packet' \in BOOLEAN /\ obfs_first' \in BOOLEAN
      BY <1>3, <1>4 DEF Remembered, UpType
    <2>4. /\ pack_id' = IF protocol = "auth" THEN Len(Parts) + Len(ps) ELSE 1
          /\ pack_id' \in Nat \ {0}
      <3>1. CASE protocol = "origin"
        BY <1>1, <1>4, <3>1 DEF Remembered, UpType
      <3>2. CASE protocol = "auth" /\ first_packet
        <4>1. sent = <<>>
          BY <1>4, <3>2 DEF Remembered
        <4>2. Parts = <<>> /\ pack_id = 1
          BY <1>4, <4>1, FlattenEmpty DEF Parts, Flat, Remembered
        <4> QED
          BY <1>1, <1>2, <3>2, <4>2
      <3>3. CASE protocol = "auth" /\ ~first_packet
        <4>1. pack_id = Len(Parts)
          BY <1>4, <3>3 DEF Remembered
        <4> QED
          BY <1>1, <1>4, <1>5, <2>1, <3>3, <4>1 DEF UpType
      <3> QED
        BY <1>4, <3>1, <3>2, <3>3 DEF UpType
    <2>5. keystream' \in Nat /\ given' \in Nat
      <3>1. PartsLen(ps) \in Nat
        BY <1>5, <1>11, PartsLenCat
      <3> QED
        BY <1>1, <1>3, <1>4, <3>1 DEF UpType
    <2>6. UpType'
      BY <1>3, <1>4, <1>8, <2>3, <2>4, <2>5, Zenon DEF UpType
    <2> QED
      BY <1>3, <1>10, <1>12, <2>1, <2>2, <2>3, <2>4, <2>6, Zenon DEF Remembered
  <1> QED
    BY <1>3, <1>10, <1>12, <1>13, <1>15, <1>16, Zenon DEF UpInv

\* The server can make sense of what the way up has sent.
LEMMA UpUnderstood == UpInv => ServerUnderstands
  <1> SUFFICES ASSUME UpInv
               PROVE  ServerUnderstands
    OBVIOUS
  <1>1. /\ UpType /\ Chained(Parts, given) /\ Kinds(Parts, protocol)
        /\ Keyed(sent, keystream)
    BY DEF UpInv
  <1>2. DOMAIN sent = 1 .. Len(sent)
    BY <1>1, LenProperties DEF UpType
  <1>3. Parts \in Seq(Span)
    BY <1>1, Zenon DEF Chained
  <1>4. DOMAIN Parts = 1 .. Len(Parts)
    BY <1>3, LenProperties
  <1>5. FlattenSeq([m \in DOMAIN sent |-> sent[m].parts]) = Parts
    BY <1>2, Zenon DEF Parts, Flat
  <1>6. ASSUME NEW k \in DOMAIN Parts
        PROVE  /\ Parts[k].from = IF k = 1 THEN 1 ELSE Parts[k - 1].to + 1
               /\ k = Len(Parts) => Parts[k].to = given
               /\ k = 1 => Parts[k].to = TargetSize
               /\ protocol = "auth" => Parts[k].kind = IF k = 1 THEN "auth" ELSE "packet"
               /\ Parts[k].kind = "packet" =>
                    /\ Parts[k].id = k - 1
                    /\ PartLen(Parts[k]) < MaxPacket
                    /\ DataLen(PartLen(Parts[k]), RandHead(Parts[k].rand))
                            = Carried(Parts[k])
    <2>1. Parts # <<>>
      BY <1>3, <1>4, <1>6, EmptySeq
    <2> QED
      BY <1>1, <1>4, <2>1, Zenon DEF Chained, Kinds, Fits
  <1>7. \A m \in DOMAIN sent :
            /\ sent[m].header = (m = 1 /\ obfs = "http_simple")
            /\ sent[m].iv = (m = 1)
            /\ sent[m].at = PartsLen(FlattenSeq([l \in 1 .. m - 1 |-> sent[l].parts]))
    BY <1>1, <1>2, Zenon DEF Keyed, Flat
  <1> QED
    BY <1>5, <1>6, <1>7, Zenon DEF ServerUnderstands

-----------------------------------------------------------------------------
(* Down: the stream. *)

\* The data of the k-th packet, given how much the first k hold.
DataOf(B, k) == [i \in 1 .. B[k] - B[k - 1] |-> B[k - 1] + i]

\* B[k] is how much data the first k packets hold, E[k] where the k-th ends in
\* the stream.
Frames(n, B, E) ==
    /\ B[0] = 0 /\ E[0] = IvSize
    /\ \A k \in 1 .. n : /\ B[k - 1] < B[k]
                         /\ E[k] = E[k - 1] + (B[k] - B[k - 1]) + LengthSize + 2

\* The units of the IV and of the k-th packet.
IvUnit(i) == [id |-> 0, data |-> <<>>, at |-> i]
PacketUnit(B, k, a) == [id |-> k, data |-> DataOf(B, k), at |-> a]

\* u is the a-th unit of the k-th packet, and stands at i.
OfPacket(u, i, k, a, n, B, E) ==
    /\ k \in 1 .. n /\ a \in Nat \ {0} /\ i = E[k - 1] + a /\ i <= E[k]
    /\ u = PacketUnit(B, k, a)

\* u is what belongs at the i-th place of the stream of a protocol.
Belongs(u, i, prot, n, B, E) ==
    IF i <= IvSize THEN u = IvUnit(i)
    ELSE IF prot = "auth"
         THEN \E k \in 1 .. n, a \in 1 .. i : OfPacket(u, i, k, a, n, B, E)
    ELSE u = [id |-> 0, data |-> <<i - IvSize>>, at |-> 0]

\* The stream holds what belongs there, but for the altered unit.
Laid(w, alt, prot, n, B, E) ==
    \A i \in 1 .. Len(w) : IF i = alt THEN w[i] = Garbage
                                      ELSE Belongs(w[i], i, prot, n, B, E)

\* Where what was sent ends.
EndOf(prot, n, B, E) == IF n = 0 THEN 0
                        ELSE IF prot = "auth" THEN E[n] ELSE IvSize + B[n]

\* The places of packets follow one another.
LEMMA InOrder ==
    ASSUME NEW n \in Nat, NEW B \in [Nat -> Nat], NEW E \in [Nat -> Nat],
           Frames(n, B, E), NEW k \in Nat, NEW l \in Nat, k <= l, l <= n
    PROVE  B[k] <= B[l] /\ E[k] <= E[l]
  <1> DEFINE P == {j \in Nat : k <= j /\ j <= n => B[k] <= B[j] /\ E[k] <= E[j]}
  <1>1. 0 \in P
    <2>1. k <= 0 => k = 0
      OBVIOUS
    <2> QED
      BY <2>1
  <1>2. ASSUME NEW j \in Nat, j \in P
        PROVE  j + 1 \in P
    <2> SUFFICES ASSUME NEW m \in Nat, m = j + 1, k <= m, m <= n
                 PROVE  B[k] <= B[m] /\ E[k] <= E[m]
      OBVIOUS
    <2>1. CASE k = m
      BY <2>1
    <2>2. CASE k # m
      <3>1. m \in 1 .. n /\ m - 1 = j
        OBVIOUS
      <3>2. B[m - 1] < B[m] /\ E[m] = E[m - 1] + (B[m] - B[m - 1]) + LengthSize + 2
        BY <3>1, Zenon DEF Frames
      <3>3. B[k] <= B[j] /\ E[k] <= E[j]
        BY <1>2, <2>2
      <3>4. PICK x \in Nat : x = LengthSize
        BY SSRConnectionAssumption
      <3>5. E[m] = E[j] + (B[m] - B[j]) + x + 2 /\ B[j] < B[m]
        BY <3>1, <3>2, <3>4, Zenon
      <3> QED
        BY <3>3, <3>5
    <2> QED
      BY <2>1, <2>2
  <1> HIDE DEF P
  <1>3. Nat \subseteq P
    BY <1>1, <1>2, Inductive
  <1> QED
    BY <1>3 DEF P

\* The size of the k-th packet.
Sized(k, B, E) ==
    /\ DataOf(B, k) \in Seq(Nat) /\ Len(DataOf(B, k)) = B[k] - B[k - 1]
    /\ PacketSize(DataOf(B, k)) \in Nat
    /\ E[k] = E[k - 1] + PacketSize(DataOf(B, k))

\* The k-th packet has this size.
LEMMA SizeOf ==
    ASSUME NEW n, NEW B, NEW E, NEW k, n \in Nat, k \in 1 .. n,
           B \in [Nat -> Nat], E \in [Nat -> Nat], Frames(n, B, E)
    PROVE  Sized(k, B, E)
  <1>1. PICK j \in Nat : j = k - 1
    OBVIOUS
  <1>2. B[j] < B[k] /\ E[k] = E[j] + (B[k] - B[j]) + LengthSize + 2
    BY <1>1, Zenon DEF Frames
  <1>3. PICK m \in Nat : m = B[k] - B[j]
    BY <1>2
  <1>4. /\ [i \in 1 .. m |-> B[j] + i] \in Seq(Nat)
        /\ Len([i \in 1 .. m |-> B[j] + i]) = m
    OBVIOUS
  <1>5. PICK s \in Seq(Nat) : s = DataOf(B, k) /\ Len(s) = m
    BY <1>1, <1>3, <1>4, Zenon DEF DataOf
  <1>6. PICK x \in Nat : x = LengthSize
    BY SSRConnectionAssumption
  <1>7. PacketSize(s) = x + 1 + m + 1
    BY <1>5, <1>6, Zenon DEF PacketSize
  <1>8. E[k] = E[j] + m + x + 2
    BY <1>2, <1>3, <1>6, Zenon
  <1>9. PICK e \in Nat : e = E[j]
    OBVIOUS
  <1>10. x + 1 + m + 1 \in Nat /\ e + m + x + 2 = e + (x + 1 + m + 1)
    OBVIOUS
  <1> QED
    BY <1>1, <1>3, <1>5, <1>7, <1>8, <1>9, <1>10, Zenon DEF Sized

-----------------------------------------------------------------------------
(* Down: taking packets off the buffer. *)

\* The first tk units of a stream w of n packets have been read.
Scene(n, B, E, w, alt, tk) ==
    /\ n \in Nat /\ B \in [Nat -> Nat] /\ E \in [Nat -> Nat] /\ Frames(n, B, E)
    /\ w \in Seq(Unit) /\ Laid(w, alt, "auth", n, B, E)
    /\ tk \in 0 .. Len(w) /\ alt \in Nat

\* A unit as decrypted: garbage, or as the server has sent it and read by now.
Fine(u, w, alt, tk, d) ==
    \/ u = Garbage
    \/ d = "right" /\ \E i \in 1 .. tk : i > IvSize /\ i # alt /\ u = w[i]

\* Packets before the id-th have come whole, and the altered unit is behind
\* them; with the wrong key none has.
Counting(id, n, E, alt, tk, d) ==
    /\ id \in Nat \ {0}
    /\ IF d = "right" THEN /\ id - 1 <= n /\ E[id - 1] <= tk
                           /\ alt = 0 \/ alt > E[id - 1]
       ELSE id = 1

\* The data from behind lo to hi.
Run(lo, hi) == [i \in 1 .. hi - lo |-> lo + i]

\* The states of the loop of client_post_decrypt.
States == [buf : Seq(Unit), id : Nat \ {0}, done : BOOLEAN, plain : Seq(Nat)]

\* Such a state, with what was unpacked since lo.
Unpacked(st, lo, n, B, E, w, alt, tk, d) ==
    /\ st \in States /\ \A x \in 1 .. Len(st.buf) : Fine(st.buf[x], w, alt, tk, d)
    /\ Counting(st.id, n, E, alt, tk, d)
    /\ lo <= B[st.id - 1] /\ st.plain = Run(lo, B[st.id - 1])
    /\ st.done => Len(st.buf) <= ReadSize - 2

\* Runs one behind the other.
LEMMA RunOn ==
    ASSUME NEW lo \in Nat, NEW mid \in Nat, NEW hi \in Nat, lo <= mid, mid <= hi
    PROVE  /\ Run(lo, mid) \in Seq(Nat) /\ Len(Run(lo, mid)) = mid - lo
           /\ Run(lo, mid) \o Run(mid, hi) = Run(lo, hi)
  <1>1. /\ mid - lo \in Nat /\ hi - mid \in Nat /\ hi - lo \in Nat
        /\ (mid - lo) + (hi - mid) = hi - lo
    OBVIOUS
  <1>2. \A a \in Nat, b \in Nat : a <= b =>
            Run(a, b) \in Seq(Nat) /\ Len(Run(a, b)) = b - a
    BY DEF Run
  <1>3. PICK s \in Seq(Nat), t \in Seq(Nat), u \in Seq(Nat) :
          /\ s = Run(lo, mid) /\ t = Run(mid, hi) /\ u = Run(lo, hi)
          /\ Len(s) = mid - lo /\ Len(t) = hi - mid /\ Len(u) = hi - lo
    <2>1. lo <= hi
      OBVIOUS
    <2> QED
      BY <1>2, <2>1
  <1>4. /\ \A i \in 1 .. mid - lo : s[i] = lo + i
        /\ \A i \in 1 .. hi - mid : t[i] = mid + i
        /\ \A i \in 1 .. hi - lo : u[i] = lo + i
    BY <1>3 DEF Run
  <1>5. PICK v \in Seq(Nat) : v = s \o t
    BY ConcatProperties
  <1>6. /\ Len(v) = Len(s) + Len(t)
        /\ \A i \in 1 .. Len(s) : v[i] = s[i]
        /\ \A i \in 1 .. Len(t) : v[Len(s) + i] = t[i]
    BY <1>5, ConcatProperties, ConcatFirst, ConcatSecond
  <1>7. Len(v) = hi - lo
    BY <1>1, <1>3, <1>6
  <1>8. ASSUME NEW i \in 1 .. hi - lo
        PROVE  v[i] = lo + i
    <2>1. CASE i <= mid - lo
      <3>1. i \in 1 .. Len(s) /\ i \in 1 .. mid - lo
        BY <1>1, <1>3, <2>1
      <3> QED
        BY <1>4, <1>6, <3>1, Zenon
    <2>2. CASE i > mid - lo
      <3>1. PICK j \in 1 .. hi - mid : j = i - (mid - lo)
        BY <1>1, <2>2
      <3>2. j \in 1 .. Len(t) /\ Len(s) + j = i /\ mid + j = lo + i
        BY <1>1, <1>3, <3>1
      <3> QED
        BY <1>4, <1>6, <3>1, <3>2, Zenon
    <2> QED
      BY <1>1, <2>1, <2>2
  <1>9. v = u
    <2>1. Len(v) = Len(u) /\ \A i \in 1 .. Len(v) : v[i] = u[i]
      BY <1>3, <1>4, <1>7, <1>8
    <2> QED
      BY <2>1, SeqEqual
  <1> QED
    BY <1>3, <1>5, <1>9, Zenon

\* A packet the check accepts is the one the reader counts, and every unit of it
\* stands in the stream where it was sent, unaltered.
Accepted(id, data, n, B, E, alt, tk, d) ==
    /\ d = "right" /\ id \in 1 .. n /\ data = DataOf(B, id)
    /\ \A a \in 1 .. PacketSize(data) : E[id - 1] + a <= tk /\ E[id - 1] + a # alt

\* The comparison of Authentic leaves no other packet.
LEMMA AcceptedIs ==
    ASSUME NEW n, NEW B, NEW E, NEW w, NEW alt, NEW tk, NEW d,
           Scene(n, B, E, w, alt, tk),
           NEW buf \in Seq(Unit), NEW id \in Nat \ {0},
           \A x \in 1 .. Len(buf) : Fine(buf[x], w, alt, tk, d),
           Len(buf) >= 1, Len(buf) >= PacketSize(buf[1].data), Authentic(buf, id)
    PROVE  Accepted(id, buf[1].data, n, B, E, alt, tk, d)
  <1> DEFINE data == buf[1].data
             size == PacketSize(data)
  <1>1. buf[1] \in Unit /\ Len(buf) \in Nat
    BY ElementOfSeq
  <1>2. data \in Seq(Nat)
    BY <1>1 DEF Unit
  <1>3. size \in Nat /\ size >= 2
    <2>1. PICK x \in Nat : x = LengthSize
      BY SSRConnectionAssumption
    <2>2. PICK m \in Nat : m = Len(data)
      BY <1>2, LenProperties
    <2>3. size = x + 1 + m + 1
      BY <2>1, <2>2, Zenon DEF PacketSize
    <2> QED
      BY <2>3
  <1> HIDE DEF data, size
  <1>4. ASSUME NEW a \in 1 .. size
        PROVE  buf[a] = [id |-> id, data |-> data, at |-> a] /\ a \in 1 .. Len(buf)
    <2>1. a \in 1 .. Len(buf) /\ size \in 0 .. Len(buf)
      BY <1>1, <1>3 DEF data, size
    <2>2. SubSeq(buf, 1, size) = Packet(id, data)
      BY Zenon DEF Authentic, data, size
    <2>3. SubSeq(buf, 1, size)[a] = buf[a]
      BY <1>1, <1>3, <2>1
    <2>4. Packet(id, data)[a] = [id |-> id, data |-> data, at |-> a]
      BY Zenon DEF Packet, size
    <2> QED
      BY <2>1, <2>2, <2>3, <2>4, Zenon
  <1>5. ASSUME NEW a \in 1 .. size
        PROVE  /\ d = "right" /\ id \in 1 .. n /\ data = DataOf(B, id)
               /\ E[id - 1] + a <= tk /\ E[id - 1] + a # alt
    <2> DEFINE r == [id |-> id, data |-> data, at |-> a]
    <2>1. buf[a].id = id /\ buf[a].data = data /\ buf[a].at = a
      <3>1. r.id = id /\ r.data = data /\ r.at = a
        OBVIOUS
      <3>2. buf[a] = r
        BY <1>4
      <3> HIDE DEF r
      <3> QED
        BY <3>1, <3>2, Zenon
    <2> HIDE DEF r
    <2>2. buf[a] # Garbage
      BY <2>1 DEF Garbage
    <2>3. d = "right"
      BY <1>4, <2>2, Zenon DEF Fine
    <2>4. PICK i \in 1 .. tk : i > IvSize /\ i # alt /\ buf[a] = w[i]
      BY <1>4, <2>2, Zenon DEF Fine
    <2>5. i \in 1 .. Len(w) /\ ~(i <= IvSize)
      BY <2>4, SSRConnectionAssumption DEF Scene
    <2>6. Laid(w, alt, "auth", n, B, E)
      BY DEF Scene
    <2>7. PICK k \in 1 .. n, b \in 1 .. i : OfPacket(w[i], i, k, b, n, B, E)
      BY <2>4, <2>5, <2>6, Zenon DEF Laid, Belongs
    <2>8. k \in 1 .. n /\ i = E[k - 1] + b /\ buf[a] = PacketUnit(B, k, b)
      BY <2>4, <2>7, Zenon DEF OfPacket
    <2>9. buf[a].id = k /\ buf[a].data = DataOf(B, k) /\ buf[a].at = b
      BY <2>8 DEF PacketUnit
    <2>10. k = id /\ b = a /\ data = DataOf(B, id)
      BY <2>1, <2>9, Zenon
    <2>11. i <= tk
      BY DEF Scene
    <2> QED
      BY <2>3, <2>4, <2>8, <2>10, <2>11, Zenon
  <1>6. 1 \in 1 .. size
    BY <1>3
  <1> QED
    BY <1>5, <1>6, Zenon DEF Accepted, data, size

\* A state of the loop by its parts.
StateOf(st, buf, id, done, plain) ==
    /\ st \in States
    /\ st.buf = buf /\ st.id = id /\ st.done = done /\ st.plain = plain

\* The parts are of their types.
LEMMA StateTyped ==
    ASSUME NEW st \in States
    PROVE  \E buf \in Seq(Unit), id \in Nat \ {0}, done \in BOOLEAN,
              plain \in Seq(Nat) : StateOf(st, buf, id, done, plain)
  <1>1. /\ st.buf \in Seq(Unit) /\ st.id \in Nat \ {0} /\ st.done \in BOOLEAN
        /\ st.plain \in Seq(Nat)
    BY DEF States
  <1> QED
    BY <1>1, Zenon DEF StateOf

\* The state after one of the changes UnpackOne makes.
LEMMA StateChanged ==
    ASSUME NEW st, NEW buf, NEW id, NEW done, NEW plain,
           StateOf(st, buf, id, done, plain),
           NEW buf2 \in Seq(Unit), NEW id2 \in Nat \ {0}, NEW plain2 \in Seq(Nat)
    PROVE  /\ StateOf([st EXCEPT !.buf = buf2], buf2, id, done, plain)
           /\ StateOf([st EXCEPT !.done = TRUE], buf, id, TRUE, plain)
           /\ StateOf([st EXCEPT !.buf = buf2, !.done = TRUE],
                      buf2, id, TRUE, plain)
           /\ StateOf([st EXCEPT !.buf = buf2, !.id = id2, !.plain = plain2],
                      buf2, id2, done, plain2)
  <1> DEFINE R(a, b, c, e) == [buf |-> a, id |-> b, done |-> c, plain |-> e]
  <1>1. st \in States /\ st = R(buf, id, done, plain)
    <2>1. st = R(st.buf, st.id, st.done, st.plain)
      BY DEF States, StateOf
    <2> HIDE DEF R
    <2> QED
      BY <2>1, Zenon DEF StateOf
  <1>2. /\ buf \in Seq(Unit) /\ id \in Nat \ {0} /\ done \in BOOLEAN
        /\ plain \in Seq(Nat)
    BY DEF StateOf, States
  <1>3. \A a \in Seq(Unit), b \in Nat \ {0}, c \in BOOLEAN, e \in Seq(Nat) :
            StateOf(R(a, b, c, e), a, b, c, e)
    BY DEF States, StateOf
  <1>4. TRUE \in BOOLEAN
    OBVIOUS
  <1>5. [st EXCEPT !.buf = buf2] = R(buf2, id, done, plain)
    BY <1>1
  <1>6. PICK yes \in BOOLEAN : yes = TRUE
    OBVIOUS
  <1>7. [st EXCEPT !.done = yes] = R(buf, id, yes, plain)
    BY <1>1
  <1>8. [st EXCEPT !.buf = buf2, !.done = yes] = R(buf2, id, yes, plain)
    <2>1. [st EXCEPT !.buf = buf2, !.done = yes]
            = [[st EXCEPT !.buf = buf2] EXCEPT !.done = yes]
      OBVIOUS
    <2>2. PICK r : r = [st EXCEPT !.buf = buf2]
      OBVIOUS
    <2>3. [r EXCEPT !.done = yes] = R(buf2, id, yes, plain)
      <3>1. r = R(buf2, id, done, plain)
        BY <1>5, <2>2
      <3> QED
        BY <3>1
    <2> QED
      BY <2>1, <2>2, <2>3
  <1>9. [st EXCEPT !.buf = buf2, !.id = id2, !.plain = plain2]
            = R(buf2, id2, done, plain2)
    <2>1. [st EXCEPT !.buf = buf2, !.id = id2, !.plain = plain2]
            = [[[st EXCEPT !.buf = buf2] EXCEPT !.id = id2] EXCEPT !.plain = plain2]
      OBVIOUS
    <2>2. PICK r : r = [st EXCEPT !.buf = buf2]
      OBVIOUS
    <2>3. PICK q : q = [r EXCEPT !.id = id2]
      OBVIOUS
    <2>4. q = R(buf2, id2, done, plain)
      BY <1>5, <2>2, <2>3
    <2>5. [q EXCEPT !.plain = plain2] = R(buf2, id2, done, plain2)
      BY <2>4
    <2> QED
      BY <2>1, <2>2, <2>3, <2>5
  <1> HIDE DEF R
  <1>10. /\ StateOf(R(buf2, id, done, plain), buf2, id, done, plain)
         /\ StateOf(R(buf2, id2, done, plain2), buf2, id2, done, plain2)
    BY <1>2, <1>3
  <1>11. StateOf([st EXCEPT !.buf = buf2], buf2, id, done, plain)
    BY <1>5, <1>10, Zenon
  <1>12. StateOf([st EXCEPT !.done = TRUE], buf, id, TRUE, plain)
    BY <1>6, <1>2, <1>3, <1>4, <1>7, Zenon
  <1>13. StateOf([st EXCEPT !.buf = buf2, !.done = TRUE], buf2, id, TRUE, plain)
    BY <1>6, <1>2, <1>3, <1>4, <1>8, Zenon
  <1>14. StateOf([st EXCEPT !.buf = buf2, !.id = id2, !.plain = plain2],
                 buf2, id2, done, plain2)
    BY <1>9, <1>10, Zenon
  <1> QED
    BY <1>11, <1>12, <1>13, <1>14

\* A turn of the loop keeps the state so, and ends the loop or takes at least the
\* smallest packet off the buffer.
Shorter(st, buf) == st.done \/ Len(st.buf) + PacketSize(<<>>) <= Len(buf)

\* One turn of the loop keeps the state in order.
LEMMA OneTurn ==
    ASSUME NEW lo, NEW n, NEW B, NEW E, NEW w, NEW alt, NEW tk, NEW d, NEW st,
           NEW st2, lo \in Nat, Scene(n, B, E, w, alt, tk),
           Unpacked(st, lo, n, B, E, w, alt, tk, d), st2 = UnpackOne(st)
    PROVE  Unpacked(st2, lo, n, B, E, w, alt, tk, d) /\ Shorter(st2, st.buf)
  <1>1. PICK buf \in Seq(Unit), id \in Nat \ {0}, plain \in Seq(Nat) :
          /\ st \in States /\ st.buf = buf /\ st.id = id /\ st.plain = plain
          /\ st.done \in BOOLEAN /\ StateOf(st, buf, id, st.done, plain)
    <2>1. st \in States
      BY Zenon DEF Unpacked
    <2>2. PICK buf \in Seq(Unit), id \in Nat \ {0}, done \in BOOLEAN,
               plain \in Seq(Nat) : StateOf(st, buf, id, done, plain)
      BY <2>1, StateTyped
    <2> QED
      BY <2>1, <2>2, Zenon DEF StateOf
  <1>2. /\ \A x \in 1 .. Len(buf) : Fine(buf[x], w, alt, tk, d)
        /\ Counting(id, n, E, alt, tk, d)
        /\ lo <= B[id - 1] /\ plain = Run(lo, B[id - 1])
        /\ st.done => Len(buf) <= ReadSize - 2
    BY <1>1, Zenon DEF Unpacked
  <1> DEFINE size == PacketSize(buf[1].data)
  <1>3. CASE st.done
    <2>1. st2 = st
      BY <1>3 DEF UnpackOne
    <2> QED
      BY <1>3, <2>1, Zenon DEF Shorter
  <1>4. CASE ~st.done /\ st2 = Waiting(st) /\ Len(buf) <= ReadSize - 2
    <2>1. StateOf([st EXCEPT !.done = TRUE], buf, id, TRUE, plain)
      BY <1>1, StateChanged
    <2>2. StateOf(st2, buf, id, TRUE, plain)
      BY <1>4, <2>1, Zenon DEF Waiting
    <2> QED
      BY <1>2, <1>4, <2>2, Zenon DEF Unpacked, Shorter, StateOf
  <1>5. CASE ~st.done /\ st2 = [st EXCEPT !.buf = <<>>, !.done = TRUE]
    <2>1. <<>> \in Seq(Unit) /\ Len(<<>>) = 0 /\ 0 <= ReadSize - 2
      BY SSRConnectionAssumption
    <2>2. StateOf([st EXCEPT !.buf = <<>>, !.done = TRUE], <<>>, id, TRUE, plain)
      BY <1>1, <2>1, StateChanged
    <2>3. /\ st2 \in States /\ st2.buf = <<>> /\ st2.id = id /\ st2.done = TRUE
          /\ st2.plain = plain
      BY <1>5, <2>2, Zenon DEF StateOf
    <2>4. \A x \in 1 .. Len(st2.buf) : Fine(st2.buf[x], w, alt, tk, d)
      BY <2>3
    <2>5. Len(st2.buf) <= ReadSize - 2
      BY <2>1, <2>3
    <2> QED
      BY <1>2, <2>3, <2>4, <2>5, Zenon DEF Unpacked, Shorter
  <1>6. Len(buf) >= 1 => size \in Nat /\ PacketSize(<<>>) <= size /\ size >= 2
    <2> HAVE Len(buf) >= 1
    <2>1. buf[1] \in Unit
      BY ElementOfSeq
    <2>2. PICK data \in Seq(Nat) : data = buf[1].data
      BY <2>1 DEF Unit
    <2>3. PICK m \in Nat, y \in Nat : m = Len(data) /\ y = LengthSize
      BY LenProperties, SSRConnectionAssumption
    <2>4. size = y + 1 + m + 1 /\ PacketSize(<<>>) = y + 1 + 0 + 1
      BY <2>2, <2>3 DEF PacketSize
    <2> QED
      BY <2>4
  <1>7. ASSUME ~st.done, Len(buf) >= 1, Len(buf) >= size
        PROVE  \E rest \in Seq(Unit) :
                 /\ rest = SubSeq(buf, size + 1, Len(buf))
                 /\ \A x \in 1 .. Len(rest) : Fine(rest[x], w, alt, tk, d)
                 /\ Len(rest) + PacketSize(<<>>) <= Len(buf)
    <2> HIDE DEF size
    <2>1. PICK rest \in Seq(Unit) :
            /\ rest = SubSeq(buf, size + 1, Len(buf))
            /\ Len(rest) = Len(buf) - size
            /\ \A i \in 1 .. Len(buf) - size : size + i \in 1 .. Len(buf)
                                               /\ rest[i] = buf[size + i]
      <3>1. size \in Nat /\ size <= Len(buf)
        <4>1. size \in Nat /\ Len(buf) \in Nat
          BY <1>6, <1>7, LenProperties
        <4> QED
          BY <1>7, <4>1
      <3>2. /\ SubSeq(buf, size + 1, Len(buf)) \in Seq(Unit)
            /\ Len(SubSeq(buf, size + 1, Len(buf))) = Len(buf) - size
            /\ \A i \in 1 .. Len(buf) - size :
                  /\ size + i \in 1 .. Len(buf)
                  /\ SubSeq(buf, size + 1, Len(buf))[i] = buf[size + i]
        BY <3>1, RestType
      <3> QED
        BY <3>2, Zenon
    <2>2. \A x \in 1 .. Len(rest) : Fine(rest[x], w, alt, tk, d)
      BY <1>2, <2>1, Zenon
    <2>3. Len(rest) + PacketSize(<<>>) <= Len(buf)
      <3>1. PICK y \in Nat : y = PacketSize(<<>>)
        <4>1. PacketSize(<<>>) \in Nat
          BY SSRConnectionAssumption DEF PacketSize
        <4> QED
          BY <4>1, Zenon
      <3>2. PICK l \in Nat : l = Len(buf)
        BY LenProperties
      <3>3. PICK z \in Nat : z = size
        BY <1>6, <1>7, Zenon
      <3>4. Len(rest) = l - z /\ y <= z
        BY <1>6, <1>7, <2>1, <3>1, <3>2, <3>3, Zenon
      <3> QED
        BY <3>1, <3>2, <3>4
    <2> QED
      BY <2>1, <2>2, <2>3, Zenon
  <1>8. CASE ~st.done /\ Len(buf) >= 1 /\ Len(buf) >= size /\ st2 = Skipped(st, size)
    <2>1. PICK rest \in Seq(Unit) :
                 /\ rest = SubSeq(buf, size + 1, Len(buf))
                 /\ \A x \in 1 .. Len(rest) : Fine(rest[x], w, alt, tk, d)
                 /\ Len(rest) + PacketSize(<<>>) <= Len(buf)
      BY <1>7, <1>8
    <2>2. StateOf(st2, rest, id, st.done, plain)
      <3>1. Skipped(st, size) = [st EXCEPT !.buf = SubSeq(st.buf, size + 1, Len(st.buf))]
        BY <1>1 DEF Skipped, States
      <3>2. st2 = [st EXCEPT !.buf = rest]
        BY <1>1, <1>8, <2>1, <3>1, Zenon
      <3>3. StateOf([st EXCEPT !.buf = rest], rest, id, st.done, plain)
        BY <1>1, StateChanged
      <3> QED
        BY <3>2, <3>3, Zenon
    <2>3. /\ st2 \in States /\ st2.buf = rest /\ st2.id = id /\ st2.done = st.done
          /\ st2.plain = plain
      BY <2>2, Zenon DEF StateOf
    <2> QED
      BY <1>1, <1>2, <1>8, <2>1, <2>3, Zenon DEF Unpacked, Shorter
  <1>9. CASE ~st.done /\ Len(buf) >= 1 /\ Len(buf) >= size /\ Authentic(buf, id)
             /\ st2 = Received(st, size, buf[1].data)
    <2>1. PICK rest \in Seq(Unit) :
                 /\ rest = SubSeq(buf, size + 1, Len(buf))
                 /\ \A x \in 1 .. Len(rest) : Fine(rest[x], w, alt, tk, d)
                 /\ Len(rest) + PacketSize(<<>>) <= Len(buf)
      BY <1>7, <1>9
    <2>2. Accepted(id, buf[1].data, n, B, E, alt, tk, d)
      BY <1>1, <1>2, <1>9, AcceptedIs
    <2>3. /\ d = "right" /\ id \in 1 .. n /\ buf[1].data = DataOf(B, id)
          /\ \A a \in 1 .. size : E[id - 1] + a <= tk /\ E[id - 1] + a # alt
      BY <2>2, Zenon DEF Accepted
    <2>4. /\ n \in Nat /\ B \in [Nat -> Nat] /\ E \in [Nat -> Nat]
          /\ Frames(n, B, E) /\ tk \in Nat /\ alt \in Nat
      <3>1. tk \in Nat
        BY DEF Scene
      <3> QED
        BY <3>1, Zenon DEF Scene
    <2>5. /\ DataOf(B, id) \in Seq(Nat)
          /\ E[id] = E[id - 1] + PacketSize(DataOf(B, id))
      <3>1. Sized(id, B, E)
        BY <2>3, <2>4, SizeOf, Zenon
      <3> QED
        BY <3>1, Zenon DEF Sized
    <2>6. E[id] = E[id - 1] + size
      BY <2>3, <2>5, Zenon
    <2>7. PICK j \in Nat : j = id - 1 /\ id = j + 1 /\ j <= id
      BY <1>1
    <2>8. PICK id2 \in Nat \ {0} : id2 = id + 1 /\ id2 - 1 = id
      BY <1>1
    <2>9. B[j] <= B[id]
      <3>1. ASSUME NEW i \in Nat, NEW k \in Nat, i <= k, k <= n
            PROVE  B[i] <= B[k]
        BY <2>4, <3>1, InOrder, Zenon
      <3>2. id \in Nat /\ id <= n
        BY <2>3
      <3> QED
        BY <2>7, <3>1, <3>2, Zenon
    <2>10. plain \o buf[1].data = Run(lo, B[id]) /\ lo <= B[id]
           /\ Run(lo, B[id]) \in Seq(Nat)
      <3>1. PICK x \in Nat, y \in Nat : x = B[j] /\ y = B[id]
        BY <2>4
      <3>2. x <= y /\ lo <= x
        BY <1>2, <2>7, <2>9, <3>1, Zenon
      <3>3. /\ Run(lo, x) \o Run(x, y) = Run(lo, y)
        BY <3>2, RunOn
      <3>4. Run(lo, y) \in Seq(Nat)
        <4>1. lo <= y /\ y <= y
          BY <3>2
        <4> QED
          BY <4>1, RunOn
      <3>5. buf[1].data = Run(x, y) /\ plain = Run(lo, x)
        BY <1>2, <2>3, <2>7, <3>1, Zenon DEF DataOf, Run
      <3>6. lo <= y
        BY <3>2
      <3> QED
        BY <3>1, <3>3, <3>4, <3>5, <3>6, Zenon
    <2>11. Counting(id2, n, E, alt, tk, d)
      <3>1. PICK e \in Nat, z \in Nat : e = E[j] /\ z = size /\ z >= 2
        BY <1>6, <1>9, <2>4
      <3>2. E[id] = e + z /\ z \in 1 .. z
        <4>1. z \in 1 .. z
          BY <3>1
        <4> QED
          BY <2>6, <2>7, <3>1, <4>1, Zenon
      <3>3. e + z <= tk /\ \A a \in 1 .. z : e + a # alt
        <4>1. z \in 1 .. size
          BY <3>1
        <4> QED
          BY <2>3, <2>7, <3>1, <4>1
      <3>4. alt = 0 \/ alt > e
        BY <1>2, <2>3, <2>7, <3>1, Zenon DEF Counting
      <3>5. alt = 0 \/ alt > e + z
        <4> SUFFICES ASSUME ~(alt = 0 \/ alt > e + z)
                     PROVE  FALSE
          BY Zenon
        <4>1. alt # 0 /\ alt <= e + z
          <5>1. PICK q \in Nat : q = alt
            BY <2>4
          <5> QED
            BY <5>1
        <4>2. PICK a \in 1 .. z : a = alt - e
          <5>1. PICK q \in Nat : q = alt /\ q > e /\ q <= e + z
            BY <2>4, <3>4, <4>1
          <5>2. q - e \in 1 .. z
            BY <5>1
          <5> QED
            BY <5>1, <5>2, Zenon
        <4>3. e + a = alt
          BY <2>4, <3>1, <4>2
        <4> QED
          BY <3>3, <4>3
      <3>6. id <= n
        BY <2>3, <2>4
      <3>7. E[id] <= tk /\ (alt = 0 \/ alt > E[id])
        BY <3>2, <3>3, <3>5
      <3> QED
        BY <2>3, <2>8, <3>6, <3>7, Zenon DEF Counting
    <2>12. StateOf(st2, rest, id2, st.done, Run(lo, B[id]))
      <3>1. st2 = [st EXCEPT !.buf = rest, !.id = id2, !.plain = Run(lo, B[id])]
        <4>1. Received(st, size, buf[1].data)
                = [st EXCEPT !.buf = SubSeq(st.buf, size + 1, Len(st.buf)),
                             !.id = st.id + 1, !.plain = st.plain \o buf[1].data]
          BY <1>1 DEF Received, States
        <4> QED
          BY <1>1, <1>9, <2>1, <2>8, <2>10, <4>1, Zenon
      <3>2. PICK more \in Seq(Nat) : more = Run(lo, B[id])
        BY <2>10, Zenon
      <3>3. StateOf([st EXCEPT !.buf = rest, !.id = id2, !.plain = more],
                    rest, id2, st.done, more)
        BY <1>1, StateChanged
      <3> QED
        BY <3>1, <3>2, <3>3, Zenon
    <2>13. /\ st2 \in States /\ st2.buf = rest /\ st2.id = id2
           /\ st2.done = st.done /\ st2.plain = Run(lo, B[id])
      BY <2>12, Zenon DEF StateOf
    <2> QED
      BY <1>1, <1>9, <2>1, <2>8, <2>10, <2>11, <2>13, Zenon DEF Unpacked, Shorter
  <1>10. \/ ~st.done /\ st2 = Waiting(st) /\ Len(buf) <= ReadSize - 2
         \/ ~st.done /\ st2 = [st EXCEPT !.buf = <<>>, !.done = TRUE]
         \/ ~st.done /\ Len(buf) >= 1 /\ Len(buf) >= size /\ st2 = Skipped(st, size)
         \/ ~st.done /\ Len(buf) >= 1 /\ Len(buf) >= size /\ Authentic(buf, id)
             /\ st2 = Received(st, size, buf[1].data)
         \/ st.done
    <2> SUFFICES ASSUME ~st.done
                 PROVE  \/ st2 = Waiting(st) /\ Len(buf) <= ReadSize - 2
                        \/ st2 = [st EXCEPT !.buf = <<>>, !.done = TRUE]
                        \/ Len(buf) >= 1 /\ Len(buf) >= size /\ st2 = Skipped(st, size)
                        \/ Len(buf) >= 1 /\ Len(buf) >= size /\ Authentic(buf, id)
                             /\ st2 = Received(st, size, buf[1].data)
      BY Zenon
    <2>1. Len(buf) \in Nat /\ LengthSize \in Nat \ {0} /\ ReadSize \in Nat
          /\ LengthSize < ReadSize
      BY SSRConnectionAssumption
    <2>2. st2 = IF Len(buf) < LengthSize THEN Waiting(st)
                ELSE IF \/ size >= ReadSize
                        \/ \E i \in 1 .. LengthSize :
                                buf[i] # Packet(id, buf[1].data)[i]
                     THEN [st EXCEPT !.buf = <<>>, !.done = TRUE]
                ELSE IF Len(buf) < size THEN Waiting(st)
                ELSE IF ~Authentic(buf, id) THEN Skipped(st, size)
                ELSE Received(st, size, buf[1].data)
      BY <1>1, Zenon DEF UnpackOne
    <2> HIDE DEF size
    <2>3. CASE Len(buf) < LengthSize
      <3>1. Len(buf) <= ReadSize - 2
        BY <2>1, <2>3
      <3> QED
        BY <2>2, <2>3, <3>1, Zenon
    <2>4. CASE ~(Len(buf) < LengthSize)
      <3>1. Len(buf) >= 1
        BY <2>1, <2>4
      <3>2. size \in Nat
        BY <1>6, <3>1, Zenon DEF size
      <3>3. ~(size >= ReadSize) /\ Len(buf) < size => Len(buf) <= ReadSize - 2
        BY <2>1, <3>2
      <3>4. ~(Len(buf) < size) => Len(buf) >= size
        BY <2>1, <3>2
      <3> QED
        BY <2>2, <2>4, <3>1, <3>3, <3>4, Zenon
    <2> QED
      BY <2>3, <2>4
  <1> QED
    BY <1>3, <1>4, <1>5, <1>8, <1>9, <1>10, Zenon

\* The turns of the loop from base on, one behind the other.
Turning(f, base, m) == f[0] = base /\ \A i \in 1 .. m : f[i] = UnpackOne(f[i - 1])

\* The loop of client_post_decrypt.
Loop(base, m) == FoldLeft(LAMBDA st, i : UnpackOne(st), base, [i \in 1 .. m |-> i])

\* FoldLeft is where such turns end.
LEMMA LoopTurns ==
    ASSUME NEW V, NEW base \in V, NEW m \in Nat, \A st \in V : UnpackOne(st) \in V
    PROVE  \E f : Turning(f, base, m) /\ f[m] = Loop(base, m)
  <1> DEFINE seq == [i \in 1 .. m |-> i]
             Body(h) == [s \in SUBSET DOMAIN seq |->
                            IF s = {} THEN base
                            ELSE LET x == Max(s) IN UnpackOne(h[s \ {x}])]
             g == CHOOSE h : h = Body(h)
  <1>1. Loop(base, m) = g[DOMAIN seq]
    BY Zenon DEF Loop, FoldLeft, MapThenFoldSet
  <1>2. DOMAIN seq = 1 .. m
    OBVIOUS
  <1> DEFINE F == [q \in V \X (1 .. m) |-> UnpackOne(q[1])]
  <1>3. F \in [V \X (1 .. m) -> V]
    OBVIOUS
  <1>4. \A v \in V, i \in 1 .. m : F[<<v, i>>] = UnpackOne(v)
    OBVIOUS
  <1> HIDE DEF F, seq
  <1>5. PICK h \in [SUBSET (1 .. m) -> V] : Folds(h, F, base, m)
    BY <1>3, FoldExists
  <1>6. h = Body(h)
    <2>1. ASSUME NEW s \in SUBSET (1 .. m)
          PROVE  h[s] = Body(h)[s]
      <3>1. CASE s = {}
        <4>1. Body(h)[s] = base
          BY <1>2, <3>1
        <4> QED
          BY <1>5, <3>1, <4>1, Zenon DEF Folds
      <3>2. CASE s # {}
        <4>1. Max(s) \in 1 .. m
          BY <3>2, GreatestIn
        <4>2. h[s \ {Max(s)}] \in V
          OBVIOUS
        <4>3. h[s] = F[<<h[s \ {Max(s)}], Max(s)>>]
          BY <1>5, <3>2, Zenon DEF Folds
        <4>4. Body(h)[s] = UnpackOne(h[s \ {Max(s)}])
          BY <1>2, <3>2, Zenon
        <4> HIDE DEF Body
        <4> QED
          BY <1>4, <4>1, <4>2, <4>3, <4>4, Zenon
      <3> QED
        BY <3>1, <3>2
    <2> QED
      BY <1>2, <2>1
  <1>7. g = Body(g)
    BY <1>6, Zenon
  <1> HIDE DEF g
  <1>8. \A s \in SUBSET (1 .. m) :
            g[s] = IF s = {} THEN base ELSE UnpackOne(g[s \ {Max(s)}])
    BY <1>2, <1>7, Zenon
  <1> HIDE DEF Body
  <1>9. g[1 .. 0] = base
    <2>1. 1 .. 0 = {} /\ 1 .. 0 \in SUBSET (1 .. m)
      OBVIOUS
    <2> QED
      BY <1>8, <2>1, Zenon
  <1>10. ASSUME NEW i \in 1 .. m
         PROVE  g[1 .. i] = UnpackOne(g[1 .. i - 1])
    <2>1. 1 .. i \in SUBSET (1 .. m) /\ 1 .. i # {} /\ i \in 1 .. i /\ i \in Nat
      <3>1. i \in Nat /\ i <= m
        OBVIOUS
      <3>2. i \in 1 .. i
        OBVIOUS
      <3>3. \A j \in 1 .. i : j \in 1 .. m
        BY <3>1
      <3> QED
        BY <3>1, <3>2, <3>3, Zenon
    <2>2. Max(1 .. i) = i
      BY <2>1, GreatestUpto
    <2>3. (1 .. i) \ {i} = 1 .. i - 1
      BY <2>1
    <2> QED
      BY <1>8, <2>1, <2>2, <2>3, Zenon
  <1> DEFINE f == [i \in 0 .. m |-> g[1 .. i]]
  <1>11. \A i \in 1 .. m : f[i] = UnpackOne(f[i - 1])
    BY <1>10
  <1>12. f[0] = base
    BY <1>9
  <1>13. f[m] = Loop(base, m)
    BY <1>1, <1>2
  <1> HIDE DEF f
  <1> QED
    BY <1>11, <1>12, <1>13, Zenon DEF Turning

\* How often a number goes into another.
LEMMA Quotient ==
    ASSUME NEW l \in Nat, NEW p \in Nat, p >= 1
    PROVE  l \div p \in Nat /\ ((l \div p) + 1) * p > l
  <1>1. l \div p \in Int
    OBVIOUS
  <1>2. l \div p >= 0
    OBVIOUS
  <1>3. p * ((l \div p) + 1) > l
    OBVIOUS
  <1>4. PICK k \in Nat : k = l \div p
    BY <1>1, <1>2
  <1>5. (k + 1) * p = p * (k + 1)
    OBVIOUS
  <1> QED
    BY <1>3, <1>4, <1>5

\* As many turns as Unpack takes end the loop, and keep its state so.
LEMMA LoopEnds ==
    ASSUME NEW lo, NEW n, NEW B, NEW E, NEW w, NEW alt, NEW tk, NEW d, NEW st,
           NEW m, NEW end, lo \in Nat, Scene(n, B, E, w, alt, tk),
           Unpacked(st, lo, n, B, E, w, alt, tk, d),
           m = Len(st.buf) \div PacketSize(<<>>) + 1, end = Loop(st, m)
    PROVE  Unpacked(end, lo, n, B, E, w, alt, tk, d) /\ end.done = TRUE
  <1> DEFINE U(x) == Unpacked(x, lo, n, B, E, w, alt, tk, d)
             V    == {x \in States : U(x)}
  <1>1. \A x : U(x) => x \in States
    BY Zenon DEF Unpacked
  <1>2. \A x : U(x) => U(UnpackOne(x)) /\ Shorter(UnpackOne(x), x.buf)
    BY OneTurn, Zenon
  <1> HIDE DEF U
  <1>3. \A x \in V : UnpackOne(x) \in V
    BY <1>1, <1>2
  <1>4. st \in V
    BY <1>1 DEF U
  <1>5. \A x \in V : /\ Len(x.buf) \in Nat /\ x.done \in BOOLEAN
    BY LenProperties DEF States
  <1>6. PICK p \in Nat : p = PacketSize(<<>>) /\ p >= 2
    <2>1. PICK y \in Nat : y = LengthSize
      BY SSRConnectionAssumption
    <2>2. Len(<<>>) = 0
      OBVIOUS
    <2>3. PacketSize(<<>>) = y + 1 + 0 + 1
      BY <2>1, <2>2, Zenon DEF PacketSize
    <2>4. y + 1 + 0 + 1 \in Nat /\ y + 1 + 0 + 1 >= 2
      OBVIOUS
    <2> QED
      BY <2>3, <2>4, Zenon
  <1>7. PICK l \in Nat : l = Len(st.buf)
    BY <1>4, <1>5
  <1>8. m \in Nat /\ m * p > l
    <2>1. m = l \div p + 1
      BY <1>6, <1>7, Zenon
    <2>2. l \div p \in Nat /\ ((l \div p) + 1) * p > l
      <3>1. p >= 1
        BY <1>6
      <3> QED
        BY <1>7, <3>1, Quotient, Zenon
    <2> QED
      BY <2>1, <2>2
  <1>9. PICK f : Turning(f, st, m) /\ f[m] = Loop(st, m)
    BY <1>3, <1>4, <1>8, LoopTurns, Zenon
  <1> DEFINE Left(i) == f[i] \in V /\ (f[i].done \/ Len(f[i].buf) + i * p <= l)
             P == {i \in Nat : i <= m => Left(i)}
  <1> HIDE DEF Left
  <1>10. 0 \in P
    <2>1. f[0] = st
      BY <1>9, Zenon DEF Turning
    <2>2. Len(st.buf) + 0 * p <= l
      BY <1>6, <1>7
    <2> QED
      BY <1>4, <2>1, <2>2 DEF Left
  <1>11. ASSUME NEW i \in Nat, i \in P
         PROVE  i + 1 \in P
    <2> SUFFICES ASSUME NEW j \in 1 .. m, j = i + 1
                 PROVE  Left(j)
      BY <1>8
    <2>1. j - 1 = i /\ Left(i)
      <3>1. i <= m
        BY <1>8
      <3> QED
        BY <1>11, <3>1
    <2>2. f[j] = UnpackOne(f[i])
      BY <1>9, <2>1, Zenon DEF Turning
    <2>3. f[i] \in V /\ f[j] \in V
      BY <1>3, <2>1, <2>2 DEF Left
    <2>4. Shorter(f[j], f[i].buf)
      BY <1>2, <2>1, <2>2, <2>3
    <2>5. CASE f[i].done
      <3>1. f[j] = f[i]
        BY <2>2, <2>5 DEF UnpackOne
      <3> QED
        BY <2>3, <2>5, <3>1 DEF Left
    <2>6. CASE ~f[i].done /\ ~f[j].done
      <3>1. PICK x \in Nat, y \in Nat : x = Len(f[i].buf) /\ y = Len(f[j].buf)
        BY <1>5, <2>1, <2>3
      <3>2. y + p <= x /\ x + i * p <= l
        BY <1>6, <2>1, <2>4, <2>6, <3>1 DEF Shorter, Left
      <3>3. (i + 1) * p = i * p + p /\ i * p \in Nat
        OBVIOUS
      <3>4. y + j * p <= l
        BY <3>2, <3>3
      <3> QED
        BY <2>3, <3>1, <3>4 DEF Left
    <2> QED
      BY <2>3, <2>5, <2>6 DEF Left
  <1> HIDE DEF P
  <1>12. Nat \subseteq P
    BY <1>10, <1>11, Inductive
  <1>13. Left(m)
    <2>1. m \in P /\ m <= m
      BY <1>8, <1>12
    <2> QED
      BY <2>1 DEF P
  <1>14. end \in V /\ (end.done \/ Len(end.buf) + m * p <= l)
    BY <1>9, <1>13 DEF Left
  <1>15. end.done = TRUE
    <2>1. PICK y \in Nat : y = Len(end.buf)
      BY <1>5, <1>14
    <2>2. ~(Len(end.buf) + m * p <= l)
      <3>1. PICK x \in Nat : x = m * p /\ x > l
        BY <1>6, <1>8
      <3>2. ~(y + x <= l)
        BY <3>1
      <3> QED
        BY <2>1, <3>1, <3>2, Zenon
    <2> QED
      BY <1>5, <1>14, <2>2
  <1> QED
    BY <1>14, <1>15 DEF U

-----------------------------------------------------------------------------
(* The inductive invariant. *)

\* What the server has sent, and what of it the connection still brings.
Stream(B, E) ==
    /\ Frames(packets, B, E) /\ B[packets] = put
    /\ Laid(wire, altered, protocol, packets, B, E)
    /\ Len(wire) <= EndOf(protocol, packets, B, E)
    /\ open => /\ Len(wire) = EndOf(protocol, packets, B, E)
               /\ altered <= Len(wire)

\* The last the caller has.
LastOf(s) == IF s = <<>> THEN 0 ELSE s[Len(s)]

\* What the caller has, of the first hi units of data: in order, with gaps only
\* where a read has filled its buffer.
Handed(s, f, hi) ==
    /\ \A i \in 1 .. Len(s) :
          /\ s[i] <= hi
          /\ s[i] > IF i = 1 THEN 0 ELSE s[i - 1]
          /\ s[i] = (IF i = 1 THEN 0 ELSE s[i - 1]) + 1 \/ i - 1 \in f
    /\ LastOf(s) = hi \/ Len(s) \in f

\* The reader of a stream with authentication.
AuthReader(B, E) ==
    /\ \A x \in 1 .. Len(recv_buffer) :
          Fine(recv_buffer[x], wire, altered, taken, decryptor)
    /\ Counting(recv_id, packets, E, altered, taken, decryptor)
    /\ Handed(got, filled, B[recv_id - 1])
    /\ decryptor # "right" => got = <<>>

\* The reader of one without.
OriginReader ==
    /\ recv_buffer = <<>> /\ recv_id = 1
    /\ IF decryptor = "none" THEN got = <<>>
       ELSE /\ Len(got) = taken - IvSize
            /\ \A i \in 1 .. Len(got) : got[i] = i \/ (altered # 0 /\ got[i] = 0)

\* The key of the stream is right unless the IV was altered, and nothing was read
\* before the first read that has the IV.
KeyOf ==
    /\ decryptor # "none" => taken >= IvSize
    /\ decryptor = "right" => altered \notin 1 .. IvSize
    /\ decryptor = "wrong" => altered # 0
    /\ reading => error = "none"
    /\ decryptor = "none" /\ error = "none" => taken = 0

\* Types of what the way down has.
DownType ==
    /\ direction \in {"up", "down"} /\ writes \in 0 .. MaxWrites
    /\ packets \in 0 .. MaxPackets /\ put \in Nat /\ wire \in Seq(Unit)
    /\ taken \in 0 .. Len(wire) /\ open \in BOOLEAN /\ altered \in Nat
    /\ decryptor \in {"none", "right", "wrong"}
    /\ recv_buffer \in Seq(Unit) /\ Len(recv_buffer) <= ReadSize - 2
    /\ recv_id \in Nat \ {0} /\ reading \in BOOLEAN
    /\ error \in {"none", "eof", "message_size"}
    /\ got \in Seq(Nat) /\ filled \subseteq DOMAIN got

\* The way down, given where the packets are.
Placed(B, E) == /\ Stream(B, E)
                /\ IF protocol = "auth" THEN AuthReader(B, E) ELSE OriginReader

\* The way down, as it is between two steps.
DownInv == /\ DownType /\ KeyOf
           /\ \E B \in [Nat -> Nat], E \in [Nat -> Nat] : Placed(B, E)

\* The inductive invariant.
IInv == UpInv /\ DownInv

-----------------------------------------------------------------------------
(* The way up; a call to read; a failure; the stream altered or cut. *)

\* What the way up has is left alone by the way down.
LEMMA UpKept ==
    ASSUME UpInv, UNCHANGED <<chosen, upVars>>
    PROVE  UpInv'
  <1>1. /\ protocol' = protocol /\ obfs' = obfs /\ sent' = sent
        /\ obfs_first' = obfs_first /\ first_packet' = first_packet
        /\ pack_id' = pack_id /\ keystream' = keystream /\ given' = given
    BY DEF chosen, upVars
  <1>2. UpType'
    BY <1>1, Zenon DEF UpInv, UpType
  <1>3. Parts' = Parts
    BY <1>1, Zenon DEF Parts
  <1>4. Keyed(sent, keystream)'
    BY <1>1, Zenon DEF UpInv, Keyed
  <1>5. Remembered'
    BY <1>1, <1>3, Zenon DEF UpInv, Remembered
  <1> QED
    BY <1>1, <1>2, <1>3, <1>4, <1>5, Zenon DEF UpInv

\* What the way down has is left alone by the way up.
LEMMA DownKept ==
    ASSUME DownInv, UNCHANGED <<chosen, downVars>>, writes' \in 0 .. MaxWrites
    PROVE  DownInv'
  <1>1. /\ direction' = direction /\ protocol' = protocol
        /\ packets' = packets /\ put' = put /\ wire' = wire /\ altered' = altered
        /\ taken' = taken /\ open' = open /\ decryptor' = decryptor
        /\ recv_buffer' = recv_buffer /\ recv_id' = recv_id /\ reading' = reading
        /\ error' = error /\ got' = got /\ filled' = filled
    BY DEF chosen, downVars, serverVars, readerVars
  <1>2. DownType'
    BY <1>1, Zenon DEF DownInv, DownType
  <1>3. KeyOf'
    BY <1>1, Zenon DEF DownInv, KeyOf
  <1>4. PICK B \in [Nat -> Nat], E \in [Nat -> Nat] : Placed(B, E)
    BY DEF DownInv
  <1>5. Stream(B, E)'
    BY <1>1, <1>4, Zenon DEF Placed, Stream
  <1>6. protocol = "auth" => AuthReader(B, E)'
    BY <1>1, <1>4, Zenon DEF Placed, AuthReader
  <1>7. protocol # "auth" => OriginReader'
    BY <1>1, <1>4, Zenon DEF Placed, OriginReader
  <1>8. Placed(B, E)'
    BY <1>1, <1>5, <1>6, <1>7, Zenon DEF Placed
  <1> QED
    BY <1>2, <1>3, <1>8, Zenon DEF DownInv

\* A call to read, and a read that fails.
LEMMA OnlyAsked ==
    ASSUME DownInv, AsyncReadSome \/ ReadFails
    PROVE  DownInv'
  <1>1. /\ direction' = direction /\ protocol' = protocol /\ writes' = writes
        /\ packets' = packets /\ put' = put /\ wire' = wire /\ altered' = altered
        /\ taken' = taken /\ open' = open /\ decryptor' = decryptor
        /\ recv_buffer' = recv_buffer /\ recv_id' = recv_id
        /\ got' = got /\ filled' = filled
    BY DEF chosen, upVars, serverVars, AsyncReadSome, ReadFails
  <1>2. /\ reading' \in BOOLEAN /\ error' \in {"none", "eof", "message_size"}
        /\ reading' => error' = "none" /\ error' = error
        /\ error' = "none" => error = "none"
    BY DEF AsyncReadSome, ReadFails, DownInv, DownType
  <1>3. DownType'
    BY <1>1, <1>2, Zenon DEF DownInv, DownType
  <1>4. KeyOf'
    BY <1>1, <1>2, Zenon DEF DownInv, KeyOf
  <1>5. PICK B \in [Nat -> Nat], E \in [Nat -> Nat] : Placed(B, E)
    BY DEF DownInv
  <1>6. Stream(B, E)'
    BY <1>1, <1>5, Zenon DEF Placed, Stream
  <1>7. protocol = "auth" => AuthReader(B, E)'
    BY <1>1, <1>5, Zenon DEF Placed, AuthReader
  <1>8. protocol # "auth" => OriginReader'
    BY <1>1, <1>5, Zenon DEF Placed, OriginReader
  <1>9. Placed(B, E)'
    BY <1>1, <1>6, <1>7, <1>8, Zenon DEF Placed
  <1> QED
    BY <1>3, <1>4, <1>9, Zenon DEF DownInv

\* Of what was read nothing changes, and no unit of it becomes the altered one.
Keeps(w, alt, tk, w2, alt2, tk2) ==
    /\ tk \in Nat /\ tk2 \in Nat /\ tk <= tk2
    /\ \A i \in 1 .. tk : w2[i] = w[i]
    /\ alt \in Nat /\ alt2 \in Nat /\ (alt2 = alt \/ alt2 > tk)

\* A decrypted unit stays one that the server has sent.
LEMMA FineKept ==
    ASSUME NEW u, NEW w, NEW alt, NEW tk, NEW w2, NEW alt2, NEW tk2, NEW d,
           Fine(u, w, alt, tk, d), Keeps(w, alt, tk, w2, alt2, tk2)
    PROVE  Fine(u, w2, alt2, tk2, d)
  <1>1. CASE u = Garbage
    BY <1>1, Zenon DEF Fine
  <1>2. CASE u # Garbage
    <2>1. d = "right"
      BY <1>2, Zenon DEF Fine
    <2>2. PICK i \in 1 .. tk : i > IvSize /\ i # alt /\ u = w[i]
      BY <1>2, Zenon DEF Fine
    <2>3. u = w2[i]
      BY <2>2, Zenon DEF Keeps
    <2>4. i \in 1 .. tk2 /\ i # alt2
      BY <2>2 DEF Keeps
    <2> QED
      BY <2>1, <2>2, <2>3, <2>4, Zenon DEF Fine
  <1> QED
    BY <1>1, <1>2

\* The counter still fits the stream when more is sent or read.
LEMMA CountingKept ==
    ASSUME NEW id, NEW n, NEW E, NEW w, NEW alt, NEW tk, NEW w2, NEW alt2,
           NEW tk2, NEW d, NEW n2, NEW E2, n \in Nat, n2 \in Nat, n <= n2,
           E \in [Nat -> Nat], \A k \in 0 .. n : E2[k] = E[k],
           Counting(id, n, E, alt, tk, d), Keeps(w, alt, tk, w2, alt2, tk2)
    PROVE  Counting(id, n2, E2, alt2, tk2, d)
  <1>1. CASE d # "right"
    BY <1>1 DEF Counting
  <1>2. CASE d = "right"
    <2>1. PICK j \in Nat : j = id - 1 /\ j <= n /\ id \in Nat \ {0}
      BY <1>2 DEF Counting
    <2>2. E[j] <= tk /\ (alt = 0 \/ alt > E[j])
      BY <1>2, <2>1, Zenon DEF Counting
    <2>3. E2[j] = E[j]
      BY <2>1
    <2>4. PICK e \in Nat : e = E[j]
      OBVIOUS
    <2>5. e <= tk2 /\ (alt2 = 0 \/ alt2 > e) /\ j <= n2
      BY <2>1, <2>2, <2>4 DEF Keeps
    <2> QED
      BY <1>2, <2>1, <2>3, <2>4, <2>5, Zenon DEF Counting
  <1> QED
    BY <1>1, <1>2

\* The reader does not notice what happens to what it has not read.
LEMMA ReaderKept ==
    ASSUME DownInv, NEW B \in [Nat -> Nat], NEW E \in [Nat -> Nat],
           NEW B2, NEW E2, protocol = "auth", AuthReader(B, E), Frames(packets, B, E),
           Keeps(wire, altered, taken, wire', altered', taken'),
           packets' \in Nat, packets <= packets',
           \A k \in 0 .. packets : B2[k] = B[k] /\ E2[k] = E[k],
           decryptor' = decryptor /\ recv_buffer' = recv_buffer,
           recv_id' = recv_id /\ got' = got /\ filled' = filled
    PROVE  AuthReader(B2, E2)'
  <1>1. packets \in Nat /\ recv_id \in Nat \ {0}
    BY DEF DownInv, DownType
  <1>2. \A x \in 1 .. Len(recv_buffer) :
            Fine(recv_buffer[x], wire', altered', taken', decryptor)
    BY FineKept, Zenon DEF AuthReader
  <1>3. Counting(recv_id, packets', E2, altered', taken', decryptor)
    <2>1. Counting(recv_id, packets, E, altered, taken, decryptor)
      BY Zenon DEF AuthReader
    <2>2. \A k \in 0 .. packets : E2[k] = E[k]
      BY Zenon
    <2> QED
      BY <1>1, <2>1, <2>2, CountingKept, Zenon
  <1>4. B2[recv_id - 1] = B[recv_id - 1]
    <2>1. recv_id - 1 \in 0 .. packets
      BY <1>1 DEF AuthReader, Counting
    <2> QED
      BY <2>1, Zenon
  <1> QED
    BY <1>2, <1>3, <1>4, Zenon DEF AuthReader

\* A first read without the whole of the IV.
LEMMA ShortKept ==
    ASSUME DownInv, NEW n \in 1 .. ReadSize, ShortRead(n)
    PROVE  DownInv'
  <1>1. /\ direction' = direction /\ protocol' = protocol /\ writes' = writes
        /\ packets' = packets /\ put' = put /\ wire' = wire /\ altered' = altered
        /\ open' = open /\ decryptor' = decryptor /\ decryptor = "none"
        /\ recv_buffer' = recv_buffer /\ recv_id' = recv_id
        /\ got' = got /\ filled' = filled
        /\ reading' = FALSE /\ error' = "message_size"
    BY DEF chosen, upVars, serverVars, ShortRead, TooShort
  <1>2. /\ taken' \in 0 .. Len(wire) /\ taken' >= taken /\ taken' \in Nat
        /\ taken \in Nat
    <2>1. Len(wire) \in Nat /\ taken \in 0 .. Len(wire)
      BY LenProperties DEF DownInv, DownType
    <2> QED
      BY <2>1 DEF ShortRead
  <1>3. reading' \in BOOLEAN /\ error' \in {"none", "eof", "message_size"}
    BY <1>1
  <1>4. DownType'
    BY <1>1, <1>2, <1>3, Zenon DEF DownInv, DownType
  <1>5. KeyOf'
    BY <1>1 DEF DownInv, KeyOf
  <1>6. PICK B \in [Nat -> Nat], E \in [Nat -> Nat] : Placed(B, E)
    BY DEF DownInv
  <1>7. Stream(B, E)'
    BY <1>1, <1>6, Zenon DEF Placed, Stream
  <1>8. packets \in Nat /\ altered \in Nat
    BY DEF DownInv, DownType
  <1>9. Keeps(wire, altered, taken, wire', altered', taken')
    BY <1>1, <1>2, <1>8 DEF Keeps
  <1>10. protocol = "auth" => AuthReader(B, E)'
    <2> HAVE protocol = "auth"
    <2>1. AuthReader(B, E) /\ Frames(packets, B, E)
      BY <1>6, Zenon DEF Placed, Stream
    <2>2. packets' \in Nat /\ packets <= packets'
      BY <1>1, <1>8
    <2> QED
      BY <1>1, <1>9, <2>1, <2>2, ReaderKept, Zenon
  <1>11. protocol # "auth" => OriginReader'
    BY <1>1, <1>6, Zenon DEF Placed, OriginReader
  <1>12. Placed(B, E)'
    BY <1>1, <1>7, <1>10, <1>11, Zenon DEF Placed
  <1> QED
    BY <1>4, <1>5, <1>12, Zenon DEF DownInv

\* Garbage is a unit.
LEMMA GarbageUnit == Garbage \in Unit
  BY DEF Garbage, Unit

\* A unit of the stream is altered.
LEMMA AlterKeeps ==
    ASSUME DownInv, Alter
    PROVE  DownInv'
  <1>1. /\ direction' = direction /\ protocol' = protocol /\ writes' = writes
        /\ packets' = packets /\ put' = put /\ taken' = taken
        /\ open' = open /\ decryptor' = decryptor
        /\ recv_buffer' = recv_buffer /\ recv_id' = recv_id
        /\ got' = got /\ filled' = filled /\ reading' = reading /\ error' = error
    BY DEF chosen, upVars, readerVars, Alter
  <1>2. PICK i \in taken + 1 .. Len(wire) :
          altered' = i /\ wire' = [wire EXCEPT ![i] = Garbage]
    BY DEF Alter
  <1>3. /\ wire \in Seq(Unit) /\ Len(wire) \in Nat /\ taken \in 0 .. Len(wire)
        /\ taken \in Nat /\ altered = 0 /\ packets \in Nat
    <2>1. wire \in Seq(Unit) /\ taken \in 0 .. Len(wire) /\ packets \in Nat
      BY DEF DownInv, DownType
    <2>2. Len(wire) \in Nat
      BY <2>1, LenProperties
    <2>3. taken \in Nat
      BY <2>1, <2>2
    <2> QED
      BY <2>1, <2>2, <2>3 DEF Alter
  <1>4. i \in Nat \ {0} /\ i > taken /\ i <= Len(wire) /\ i \in 1 .. Len(wire)
    BY <1>3
  <1>5. /\ wire' \in Seq(Unit) /\ Len(wire') = Len(wire) /\ wire'[i] = Garbage
        /\ \A j \in 1 .. Len(wire) : j # i => wire'[j] = wire[j]
    BY <1>2, <1>3, <1>4, GarbageUnit
  <1>6. DownType'
    <2>1. altered' \in Nat
      BY <1>2, <1>4
    <2> QED
      BY <1>1, <1>5, <2>1, Zenon DEF DownInv, DownType
  <1>7. KeyOf'
    <2>1. KeyOf
      BY DEF DownInv
    <2>2. decryptor # "none" => altered' \notin 1 .. IvSize
      BY <1>2, <1>3, <1>4, <2>1, SSRConnectionAssumption DEF KeyOf
    <2>3. altered' # 0
      BY <1>2, <1>4
    <2> QED
      BY <1>1, <2>1, <2>2, <2>3 DEF KeyOf
  <1>8. PICK B \in [Nat -> Nat], E \in [Nat -> Nat] : Placed(B, E)
    BY DEF DownInv
  <1>9. Stream(B, E)'
    <2>1. Laid(wire', i, protocol, packets, B, E)
      <3>1. ASSUME NEW j \in 1 .. Len(wire'), j # i
            PROVE  Belongs(wire'[j], j, protocol, packets, B, E)
        <4>1. j \in 1 .. Len(wire) /\ j # altered
          BY <1>3, <1>5
        <4>2. wire'[j] = wire[j]
          BY <1>5, <3>1, <4>1, Zenon
        <4> QED
          BY <1>8, <4>1, <4>2, Zenon DEF Placed, Stream, Laid
      <3> QED
        BY <1>5, <3>1, Zenon DEF Laid
    <2>2. altered' <= Len(wire')
      BY <1>2, <1>4, <1>5
    <2> QED
      BY <1>1, <1>2, <1>5, <1>8, <2>1, <2>2, Zenon DEF Placed, Stream
  <1>10. Keeps(wire, altered, taken, wire', altered', taken')
    <2>1. \A j \in 1 .. taken : wire'[j] = wire[j]
      <3>1. \A j \in 1 .. taken : j \in 1 .. Len(wire) /\ j # i
        <4>1. \A t \in Nat, k \in Nat, l \in Nat :
                k > t /\ k <= l => \A j \in 1 .. t : j \in 1 .. l /\ j # k
          OBVIOUS
        <4>2. i \in Nat
          BY <1>4
        <4> QED
          BY <1>3, <1>4, <4>1, <4>2, Zenon
      <3> QED
        BY <1>5, <3>1, Zenon
    <2> QED
      BY <1>1, <1>2, <1>3, <1>4, <2>1 DEF Keeps
  <1>11. protocol = "auth" => AuthReader(B, E)'
    <2> HAVE protocol = "auth"
    <2>1. AuthReader(B, E) /\ Frames(packets, B, E)
      BY <1>8, Zenon DEF Placed, Stream
    <2>2. packets' \in Nat /\ packets <= packets'
      BY <1>1, <1>3
    <2> QED
      BY <1>1, <1>10, <2>1, <2>2, ReaderKept, Zenon
  <1>12. protocol # "auth" => OriginReader'
    <2>1. altered' # 0
      BY <1>2, <1>4
    <2> QED
      BY <1>1, <1>3, <1>8, <2>1, Zenon DEF Placed, OriginReader
  <1>13. Placed(B, E)'
    BY <1>1, <1>9, <1>11, <1>12, Zenon DEF Placed
  <1> QED
    BY <1>6, <1>7, <1>13, Zenon DEF DownInv

\* The stream ends.
LEMMA CutKeeps ==
    ASSUME DownInv, Cut
    PROVE  DownInv'
  <1>1. /\ direction' = direction /\ protocol' = protocol /\ writes' = writes
        /\ packets' = packets /\ put' = put /\ taken' = taken
        /\ altered' = altered /\ decryptor' = decryptor /\ open' = FALSE
        /\ recv_buffer' = recv_buffer /\ recv_id' = recv_id
        /\ got' = got /\ filled' = filled /\ reading' = reading /\ error' = error
    BY DEF chosen, upVars, readerVars, Cut
  <1>2. /\ wire \in Seq(Unit) /\ Len(wire) \in Nat /\ taken \in 0 .. Len(wire)
        /\ taken \in Nat /\ packets \in Nat /\ altered \in Nat
    <2>1. wire \in Seq(Unit) /\ taken \in 0 .. Len(wire) /\ packets \in Nat
          /\ altered \in Nat
      BY DEF DownInv, DownType
    <2>2. Len(wire) \in Nat
      BY <2>1, LenProperties
    <2>3. taken \in Nat
      BY <2>1, <2>2
    <2> QED
      BY <2>1, <2>2, <2>3
  <1>3. PICK m \in taken .. Len(wire) : wire' = SubSeq(wire, 1, m)
    <2>1. PICK m \in {taken, Len(wire)} : wire' = SubSeq(wire, 1, m)
      BY DEF Cut
    <2>2. m \in taken .. Len(wire)
      BY <1>2
    <2> QED
      BY <2>1, <2>2
  <1>4. m \in Nat /\ m <= Len(wire) /\ taken <= m
    BY <1>2
  <1>5. /\ wire' \in Seq(Unit) /\ Len(wire') = m
        /\ \A j \in 1 .. m : wire'[j] = wire[j]
    <2>1. SubSeq(wire, 1, m) \in Seq(Unit)
      BY <1>2, <1>4, PrefixType
    <2> QED
      BY <1>2, <1>3, <1>4, <2>1
  <1>6. DownType'
    <2>1. taken \in 0 .. m /\ FALSE \in BOOLEAN
      BY <1>2, <1>4
    <2> QED
      BY <1>1, <1>5, <2>1, Zenon DEF DownInv, DownType
  <1>7. KeyOf'
    BY <1>1, Zenon DEF DownInv, KeyOf
  <1>8. PICK B \in [Nat -> Nat], E \in [Nat -> Nat] : Placed(B, E)
    BY DEF DownInv
  <1>9. Stream(B, E)'
    <2>1. Laid(wire', altered, protocol, packets, B, E)
      <3>1. \A j \in 1 .. m : j \in 1 .. Len(wire)
        BY <1>2, <1>4
      <3> QED
        BY <1>5, <1>8, <3>1, Zenon DEF Placed, Stream, Laid
    <2>2. Len(wire') <= EndOf(protocol, packets, B, E)
      <3>1. EndOf(protocol, packets, B, E) \in Nat
        <4>1. PICK b \in Nat, e \in Nat, x \in Nat :
                b = B[packets] /\ e = E[packets] /\ x = IvSize
          BY <1>2, SSRConnectionAssumption
        <4>2. x + b \in Nat /\ 0 \in Nat
          OBVIOUS
        <4> QED
          BY <4>1, <4>2, Zenon DEF EndOf
      <3>2. Len(wire) <= EndOf(protocol, packets, B, E)
        BY <1>8, Zenon DEF Placed, Stream
      <3> QED
        BY <1>2, <1>4, <1>5, <3>1, <3>2
    <2> QED
      BY <1>1, <1>8, <2>1, <2>2, Zenon DEF Placed, Stream
  <1>10. Keeps(wire, altered, taken, wire', altered', taken')
    <2>1. \A j \in 1 .. taken : wire'[j] = wire[j]
      <3>1. \A j \in 1 .. taken : j \in 1 .. m
        BY <1>2, <1>4
      <3> QED
        BY <1>5, <3>1, Zenon
    <2>2. taken <= taken
      BY <1>2
    <2> QED
      BY <1>1, <1>2, <2>1, <2>2, Zenon DEF Keeps
  <1>11. protocol = "auth" => AuthReader(B, E)'
    <2> HAVE protocol = "auth"
    <2>1. AuthReader(B, E) /\ Frames(packets, B, E)
      BY <1>8, Zenon DEF Placed, Stream
    <2>2. packets' \in Nat /\ packets <= packets'
      BY <1>1, <1>2
    <2> QED
      BY <1>1, <1>10, <2>1, <2>2, ReaderKept, Zenon
  <1>12. protocol # "auth" => OriginReader'
    BY <1>1, <1>8, Zenon DEF Placed, OriginReader
  <1>13. Placed(B, E)'
    BY <1>1, <1>9, <1>11, <1>12, Zenon DEF Placed
  <1> QED
    BY <1>6, <1>7, <1>13, Zenon DEF DownInv

-----------------------------------------------------------------------------
(* The server sends. *)

\* The places of packets are those of a longer stream.
More(n, B, E, B2, E2) == \A k \in 0 .. n : B2[k] = B[k] /\ E2[k] = E[k]

\* A unit keeps its place in a longer stream.
LEMMA BelongsMore ==
    ASSUME NEW u, NEW i, NEW prot, NEW n, NEW n2, NEW B, NEW E, NEW B2, NEW E2,
           n \in Nat, n2 \in Nat, n <= n2, More(n, B, E, B2, E2),
           Belongs(u, i, prot, n, B, E)
    PROVE  Belongs(u, i, prot, n2, B2, E2)
  <1>1. CASE i <= IvSize \/ prot # "auth"
    BY <1>1, Zenon DEF Belongs
  <1>2. CASE ~(i <= IvSize) /\ prot = "auth"
    <2>1. PICK k \in 1 .. n, a \in 1 .. i : OfPacket(u, i, k, a, n, B, E)
      BY <1>2, Zenon DEF Belongs
    <2>2. k \in 1 .. n2 /\ k - 1 \in 0 .. n /\ k \in 0 .. n
      OBVIOUS
    <2>3. B2[k] = B[k] /\ B2[k - 1] = B[k - 1] /\ E2[k] = E[k] /\ E2[k - 1] = E[k - 1]
      BY <2>2, Zenon DEF More
    <2>4. DataOf(B2, k) = DataOf(B, k)
      BY <2>3, Zenon DEF DataOf
    <2>5. OfPacket(u, i, k, a, n2, B2, E2)
      BY <2>1, <2>2, <2>3, <2>4, Zenon DEF OfPacket, PacketUnit
    <2> QED
      BY <1>2, <2>2, <2>5, Zenon DEF Belongs
  <1> QED
    BY <1>1, <1>2

\* Units in their places put behind a stream make a stream.
LEMMA LaidCat ==
    ASSUME NEW w \in Seq(Unit), NEW v \in Seq(Unit), NEW alt \in Nat,
           NEW prot, NEW n, NEW B, NEW E,
           Laid(w, alt, prot, n, B, E), alt <= Len(w),
           \A a \in 1 .. Len(v) : Belongs(v[a], Len(w) + a, prot, n, B, E)
    PROVE  Laid(w \o v, alt, prot, n, B, E)
  <1>1. PICK u \in Seq(Unit) : u = w \o v
    BY ConcatProperties
  <1>2. PICK x \in Nat, y \in Nat : x = Len(w) /\ y = Len(v)
    BY LenProperties
  <1>3. /\ Len(u) = x + y
        /\ \A i \in 1 .. x : u[i] = w[i]
        /\ \A i \in 1 .. y : u[x + i] = v[i]
    BY <1>1, <1>2, ConcatProperties, ConcatFirst, ConcatSecond
  <1>4. ASSUME NEW i \in 1 .. x + y
        PROVE  IF i = alt THEN u[i] = Garbage ELSE Belongs(u[i], i, prot, n, B, E)
    <2>1. CASE i <= x
      <3>1. i \in 1 .. x
        BY <2>1
      <3> QED
        BY <1>2, <1>3, <3>1, Zenon DEF Laid
    <2>2. CASE i > x
      <3>1. PICK a \in 1 .. y : a = i - x /\ i = x + a
        BY <2>2
      <3>2. i # alt
        BY <1>2, <2>2
      <3>3. Belongs(v[a], x + a, prot, n, B, E)
        BY <1>2, Zenon
      <3> QED
        BY <1>3, <3>1, <3>2, <3>3, Zenon
    <2> QED
      BY <2>1, <2>2
  <1> QED
    BY <1>1, <1>3, <1>4, Zenon DEF Laid

\* The IV is in its places.
LEMMA IVLaid ==
    /\ IV \in Seq(Unit) /\ Len(IV) = IvSize
    /\ \A prot, n, B, E : \A i \in 1 .. IvSize : Belongs(IV[i], i, prot, n, B, E)
  <1>1. IvSize \in Nat \ {0}
    BY SSRConnectionAssumption
  <1>2. \A i \in 1 .. IvSize : IvUnit(i) \in Unit /\ IV[i] = IvUnit(i)
    BY <1>1 DEF IvUnit, Unit, IV
  <1>3. IV \in [1 .. IvSize -> Unit]
    BY <1>2 DEF IV, IvUnit
  <1>4. IV \in Seq(Unit) /\ Len(IV) = IvSize
    BY <1>1, <1>3, FunctionIsSeq
  <1>5. \A i \in 1 .. IvSize : i <= IvSize
    BY <1>1
  <1> QED
    BY <1>2, <1>4, <1>5, Zenon DEF Belongs

\* The units a call of the server puts behind the IV.
Body(prot, n, lo, size) ==
    IF prot = "auth" THEN Packet(n + 1, [i \in 1 .. size |-> lo + i])
    ELSE [i \in 1 .. size |-> [id |-> 0, data |-> <<lo + i>>, at |-> 0]]

\* One packet more.
OneMore(n, lo, size, m, B, E) ==
    /\ n \in Nat /\ lo \in Nat /\ size \in Nat \ {0}
    /\ m = n + 1 /\ B[n] = lo /\ B[m] = lo + size /\ E[n] \in Nat
    /\ E[m] = E[n] + size + LengthSize + 2

\* The units of v are in their places behind the at-th, and end the m-th packet.
Follows(v, at, prot, m, B, E) ==
    /\ v \in Seq(Unit)
    /\ at \in Nat /\ at + Len(v) = IF prot = "auth" THEN E[m] ELSE IvSize + B[m]
    /\ \A a \in 1 .. Len(v) : Belongs(v[a], at + a, prot, m, B, E)

\* They are in their places, given those of the packets.
LEMMA BodyLaid ==
    ASSUME NEW prot, NEW n, NEW lo, NEW size, NEW m, NEW B, NEW E, NEW at,
           OneMore(n, lo, size, m, B, E),
           at = IF prot = "auth" THEN E[n] ELSE IvSize + B[n], at >= IvSize
    PROVE  Follows(Body(prot, n, lo, size), at, prot, m, B, E)
  <1>1. /\ n \in Nat /\ lo \in Nat /\ size \in Nat \ {0}
        /\ m = n + 1 /\ B[n] = lo /\ B[m] = lo + size /\ E[n] \in Nat
        /\ E[m] = E[n] + size + LengthSize + 2
    BY Zenon DEF OneMore
  <1>2. PICK x \in Nat, z \in Nat : x = LengthSize /\ z = IvSize
    BY SSRConnectionAssumption
  <1>3. at \in Nat
    BY <1>1, <1>2
  <1>4. CASE prot = "auth"
    <2> DEFINE data == [i \in 1 .. size |-> lo + i]
    <2>1. data \in Seq(Nat) /\ Len(data) = size
      BY <1>1
    <2>2. data = DataOf(B, m)
      <3>1. m - 1 = n /\ (lo + size) - lo = size
        BY <1>1
      <3> QED
        BY <1>1, <3>1, Zenon DEF DataOf
    <2> HIDE DEF data
    <2>3. PICK s \in Nat : s = PacketSize(data) /\ s = size + x + 2
      <3>1. PacketSize(data) = x + 1 + size + 1
        BY <1>2, <2>1, Zenon DEF PacketSize
      <3> QED
        BY <1>1, <1>2, <3>1
    <2>4. PICK u : u = Body(prot, n, lo, size)
      OBVIOUS
    <2>5. u = [a \in 1 .. s |-> [id |-> m, data |-> data, at |-> a]]
      BY <1>1, <1>4, <2>3, <2>4, Zenon DEF Body, Packet, data
    <2>6. u \in Seq(Unit) /\ Len(u) = s
      <3>1. \A a \in 1 .. s : [id |-> m, data |-> data, at |-> a] \in Unit
        BY <1>1, <2>1 DEF Unit
      <3>2. u \in [1 .. s -> Unit]
        BY <2>5, <3>1
      <3> QED
        BY <3>2, FunctionIsSeq
    <2>7. PICK e \in Nat, f \in Nat : e = E[n] /\ f = E[m] /\ f = e + s /\ at = e
      <3>1. PICK e \in Nat : e = E[n]
        BY <1>1
      <3>2. E[m] = e + size + x + 2
        BY <1>1, <1>2, <3>1, Zenon
      <3>3. e + size + x + 2 = e + s /\ e + s \in Nat
        BY <1>1, <1>2, <2>3
      <3> QED
        BY <1>4, <3>1, <3>2, <3>3, Zenon
    <2>8. ASSUME NEW a \in 1 .. s
          PROVE  Belongs(u[a], at + a, prot, m, B, E)
      <3>1. u[a] = PacketUnit(B, m, a)
        BY <2>2, <2>5, Zenon DEF PacketUnit
      <3>2. /\ m \in 1 .. m /\ a \in Nat \ {0} /\ m - 1 = n /\ e + a <= f
            /\ ~(e + a <= z) /\ a \in 1 .. e + a
        BY <1>1, <1>2, <2>3, <2>7
      <3>3. OfPacket(u[a], at + a, m, a, m, B, E)
        BY <2>7, <3>1, <3>2, Zenon DEF OfPacket
      <3> QED
        BY <1>2, <1>4, <2>7, <3>2, <3>3, Zenon DEF Belongs
    <2> QED
      BY <1>3, <1>4, <2>4, <2>6, <2>7, <2>8, Zenon DEF Follows
  <1>5. CASE prot # "auth"
    <2>1. PICK u : u = Body(prot, n, lo, size)
      OBVIOUS
    <2>2. u = [i \in 1 .. size |-> [id |-> 0, data |-> <<lo + i>>, at |-> 0]]
      BY <1>5, <2>1, Zenon DEF Body
    <2>3. u \in Seq(Unit) /\ Len(u) = size
      <3>1. \A i \in 1 .. size : [id |-> 0, data |-> <<lo + i>>, at |-> 0] \in Unit
        BY <1>1 DEF Unit
      <3>2. u \in [1 .. size -> Unit]
        BY <2>2, <3>1
      <3> QED
        BY <1>1, <3>2, FunctionIsSeq
    <2>4. at = z + lo
      BY <1>1, <1>2, <1>5
    <2>5. at + size = IvSize + B[m]
      <3>1. (z + lo) + size = z + (lo + size)
        BY <1>1
      <3> QED
        BY <1>1, <1>2, <2>4, <3>1, Zenon
    <2>6. ASSUME NEW a \in 1 .. size
          PROVE  Belongs(u[a], at + a, prot, m, B, E)
      <3>1. (z + lo + a) - z = lo + a /\ ~(z + lo + a <= z)
        BY <1>1
      <3>2. u[a] = [id |-> 0, data |-> <<lo + a>>, at |-> 0]
        BY <2>2
      <3> QED
        BY <1>2, <1>5, <2>4, <3>1, <3>2, Zenon DEF Belongs
    <2> QED
      BY <1>3, <1>5, <2>1, <2>3, <2>5, <2>6, Zenon DEF Follows
  <1> QED
    BY <1>4, <1>5

\* The stream behind its IV.
LEMMA WithIV ==
    ASSUME NEW B \in [Nat -> Nat], NEW E \in [Nat -> Nat], DownInv,
           Stream(B, E), open, NEW w,
           w = wire \o (IF packets = 0 THEN IV ELSE <<>>)
    PROVE  /\ w \in Seq(Unit) /\ Laid(w, altered, protocol, packets, B, E)
           /\ altered <= Len(w) /\ Len(wire) <= Len(w)
           /\ \A i \in 1 .. Len(wire) : w[i] = wire[i]
           /\ Len(w) >= IvSize
           /\ Len(w) = IF protocol = "auth" THEN E[packets] ELSE IvSize + B[packets]
  <1>1. /\ wire \in Seq(Unit) /\ Len(wire) \in Nat /\ packets \in Nat
        /\ altered \in Nat
    <2>1. wire \in Seq(Unit) /\ packets \in Nat /\ altered \in Nat
      BY DEF DownInv, DownType
    <2> QED
      BY <2>1, LenProperties
  <1>2. /\ Frames(packets, B, E) /\ altered <= Len(wire)
        /\ Laid(wire, altered, protocol, packets, B, E)
        /\ Len(wire) = EndOf(protocol, packets, B, E)
    BY Zenon DEF Stream
  <1>3. IvSize \in Nat
    BY SSRConnectionAssumption
  <1>4. CASE packets = 0
    <2>1. w = wire \o IV
      BY <1>4
    <2>2. Len(wire) = 0
      BY <1>2, <1>4, Zenon DEF EndOf
    <2>3. \A a \in 1 .. IvSize : Len(wire) + a = a
      BY <1>3, <2>2
    <2>4. \A a \in 1 .. Len(IV) :
            Belongs(IV[a], Len(wire) + a, protocol, packets, B, E)
      BY <2>3, IVLaid, Zenon
    <2>5. Laid(w, altered, protocol, packets, B, E)
      BY <1>1, <1>2, <2>1, <2>4, IVLaid, LaidCat, Zenon
    <2>6. w \in Seq(Unit) /\ Len(w) = IvSize
      <3>1. w \in Seq(Unit) /\ Len(w) = Len(wire) + Len(IV)
        BY <1>1, <2>1, IVLaid, ConcatProperties
      <3>2. 0 + IvSize = IvSize
        BY <1>3
      <3> QED
        BY <2>2, <3>1, <3>2, IVLaid, Zenon
    <2>7. altered <= Len(w) /\ Len(wire) <= Len(w) /\ Len(w) >= IvSize
      <3>1. altered <= 0
        BY <1>2, <2>2, Zenon
      <3>2. altered <= IvSize /\ 0 <= IvSize /\ IvSize >= IvSize
        BY <1>1, <1>3, <3>1
      <3> QED
        BY <2>2, <2>6, <3>2, Zenon
    <2>8. \A i \in 1 .. Len(wire) : w[i] = wire[i]
      BY <2>2
    <2>9. E[packets] = IvSize /\ IvSize + B[packets] = IvSize
      <3>1. B[packets] = 0 /\ E[packets] = IvSize
        BY <1>2, <1>4, Zenon DEF Frames
      <3> QED
        BY <1>3, <3>1
    <2> QED
      BY <2>5, <2>6, <2>7, <2>8, <2>9, Zenon
  <1>5. CASE packets # 0
    <2>1. w = wire
      BY <1>1, <1>5
    <2>2. Len(w) = IF protocol = "auth" THEN E[packets] ELSE IvSize + B[packets]
      BY <1>2, <1>5, <2>1, Zenon DEF EndOf
    <2>3. Len(w) >= IvSize
      <3>1. E[0] <= E[packets]
        <4>1. 0 \in Nat /\ 0 <= packets /\ packets <= packets
          BY <1>1
        <4> QED
          BY <1>1, <1>2, <4>1, InOrder
      <3>2. E[0] = IvSize
        BY <1>2, Zenon DEF Frames
      <3>3. IvSize + B[packets] >= IvSize
        BY <1>1, <1>3
      <3> QED
        BY <1>1, <1>3, <2>2, <3>1, <3>2, <3>3
    <2>4. Len(wire) <= Len(w)
      BY <1>1, <2>1
    <2> QED
      BY <1>1, <1>2, <2>1, <2>2, <2>3, <2>4, Zenon
  <1> QED
    BY <1>4, <1>5

\* The server sends.
LEMMA SendsKeeps ==
    ASSUME DownInv, protocol \in {"origin", "auth"}, NEW size \in SendSizes,
           ServerSends(size)
    PROVE  DownInv'
  <1>1. /\ direction' = direction /\ protocol' = protocol /\ writes' = writes
        /\ taken' = taken /\ altered' = altered /\ decryptor' = decryptor
        /\ open' = open /\ open /\ recv_buffer' = recv_buffer
        /\ recv_id' = recv_id /\ got' = got /\ filled' = filled
        /\ reading' = reading /\ error' = error
    BY DEF chosen, upVars, readerVars, ServerSends
  <1>2. /\ wire \in Seq(Unit) /\ Len(wire) \in Nat /\ taken \in 0 .. Len(wire)
        /\ taken \in Nat /\ packets \in Nat /\ altered \in Nat /\ put \in Nat
        /\ size \in Nat \ {0} /\ MaxPackets \in Nat
    <2>1. wire \in Seq(Unit) /\ taken \in 0 .. Len(wire) /\ packets \in Nat
          /\ altered \in Nat /\ put \in Nat
      BY DEF DownInv, DownType
    <2>2. Len(wire) \in Nat
      BY <2>1, LenProperties
    <2>3. taken \in Nat
      BY <2>1, <2>2
    <2> QED
      BY <2>1, <2>2, <2>3, SSRConnectionAssumption
  <1>3. PICK B \in [Nat -> Nat], E \in [Nat -> Nat] : Placed(B, E)
    BY DEF DownInv
  <1>4. /\ Stream(B, E) /\ Frames(packets, B, E) /\ B[packets] = put
    BY <1>3, Zenon DEF Placed, Stream
  <1>5. PICK w : w = wire \o (IF packets = 0 THEN IV ELSE <<>>)
    OBVIOUS
  <1>6. /\ w \in Seq(Unit) /\ Laid(w, altered, protocol, packets, B, E)
        /\ altered <= Len(w) /\ Len(wire) <= Len(w)
        /\ \A i \in 1 .. Len(wire) : w[i] = wire[i]
        /\ Len(w) >= IvSize
        /\ Len(w) = IF protocol = "auth" THEN E[packets] ELSE IvSize + B[packets]
    BY <1>1, <1>4, <1>5, WithIV
  <1>7. PICK n \in Nat, lo \in Nat, m \in Nat \ {0} :
          /\ n = packets /\ lo = put /\ m = n + 1 /\ n <= m
          /\ packets' = m /\ put' = lo + size /\ n < MaxPackets
    BY <1>2 DEF ServerSends
  <1>8. PICK y \in Nat : y = E[n] + size + LengthSize + 2
    <2>1. E[n] + size + LengthSize + 2 \in Nat
      <3>1. PICK e \in Nat, x \in Nat : e = E[n] /\ x = LengthSize
        BY SSRConnectionAssumption
      <3>2. e + size + x + 2 \in Nat
        BY <1>2
      <3> QED
        BY <3>1, <3>2, Zenon
    <2> QED
      BY <2>1, Zenon
  <1> DEFINE B2 == [B EXCEPT ![m] = lo + size]
             E2 == [E EXCEPT ![m] = y]
  <1>9. /\ B2 \in [Nat -> Nat] /\ E2 \in [Nat -> Nat]
        /\ B2[m] = lo + size /\ E2[m] = y /\ More(n, B, E, B2, E2)
    <2>1. \A k \in 0 .. n : k # m /\ k \in Nat
      BY <1>7
    <2>2. lo + size \in Nat
      BY <1>2
    <2> QED
      BY <1>7, <1>8, <2>1, <2>2 DEF More
  <1> HIDE DEF B2, E2
  <1>10. n \in 0 .. n /\ B2[n] = lo /\ E2[n] = E[n] /\ E[n] \in Nat
    <2>1. n \in 0 .. n
      OBVIOUS
    <2> QED
      BY <1>4, <1>7, <1>9, <2>1 DEF More
  <1>11. Frames(m, B2, E2)
    <2>1. B2[0] = 0 /\ E2[0] = IvSize
      <3>1. 0 \in 0 .. n
        OBVIOUS
      <3> QED
        BY <1>4, <1>9, <3>1, Zenon DEF More, Frames
    <2>2. ASSUME NEW k \in 1 .. m
          PROVE  /\ B2[k - 1] < B2[k]
                 /\ E2[k] = E2[k - 1] + (B2[k] - B2[k - 1]) + LengthSize + 2
      <3>1. CASE k = m
        <4>1. k - 1 = n
          BY <1>7, <3>1
        <4>2. lo < lo + size /\ (lo + size) - lo = size
          BY <1>2
        <4> QED
          BY <1>8, <1>9, <1>10, <3>1, <4>1, <4>2, Zenon
      <3>2. CASE k # m
        <4>1. k \in 1 .. n /\ k \in 0 .. n /\ k - 1 \in 0 .. n
          BY <1>7, <3>2
        <4>2. /\ B[k - 1] < B[k]
              /\ E[k] = E[k - 1] + (B[k] - B[k - 1]) + LengthSize + 2
          BY <1>4, <1>7, <4>1, Zenon DEF Frames
        <4> QED
          BY <1>9, <4>1, <4>2, Zenon DEF More
      <3> QED
        BY <3>1, <3>2
    <2> QED
      BY <2>1, <2>2, Zenon DEF Frames
  <1>12. Laid(w, altered, protocol, m, B2, E2)
    BY <1>6, <1>7, <1>9, BelongsMore, Zenon DEF Laid
  <1>13. PICK v : v = Body(protocol, n, lo, size)
    OBVIOUS
  <1>14. /\ v \in Seq(Unit)
         /\ Len(w) + Len(v) = IF protocol = "auth" THEN E2[m] ELSE IvSize + B2[m]
         /\ \A a \in 1 .. Len(v) : Belongs(v[a], Len(w) + a, protocol, m, B2, E2)
    <2>1. E2[m] = E2[n] + size + LengthSize + 2
      BY <1>8, <1>9, <1>10, Zenon
    <2>2. Len(w) = IF protocol = "auth" THEN E2[n] ELSE IvSize + B2[n]
      BY <1>4, <1>6, <1>7, <1>10, Zenon
    <2>3. E2[n] \in Nat
      BY <1>10, Zenon
    <2>4. OneMore(n, lo, size, m, B2, E2)
      BY <1>2, <1>7, <1>9, <1>10, <2>1, <2>3, Zenon DEF OneMore
    <2>5. Follows(v, Len(w), protocol, m, B2, E2)
      BY <1>6, <1>13, <2>2, <2>4, BodyLaid, Zenon
    <2> QED
      BY <2>5, Zenon DEF Follows
  <1>15. PICK u \in Seq(Unit) : u = w \o v
    BY <1>6, <1>14, ConcatProperties
  <1>16. wire' = u
    <2>1. v = IF protocol = "auth"
              THEN Packet(packets + 1, [i \in 1 .. size |-> put + i])
              ELSE [i \in 1 .. size |-> [id |-> 0, data |-> <<put + i>>, at |-> 0]]
      BY <1>7, <1>13, Zenon DEF Body
    <2> QED
      BY <1>5, <1>15, <2>1, Zenon DEF ServerSends
  <1>17. /\ Len(u) = Len(w) + Len(v) /\ Len(w) \in Nat /\ Len(v) \in Nat
         /\ \A i \in 1 .. Len(w) : u[i] = w[i]
    <2>1. w \in Seq(Unit) /\ v \in Seq(Unit)
      BY <1>6, <1>14, Zenon
    <2>2. Len(w) \in Nat /\ Len(v) \in Nat
      BY <2>1, LenProperties
    <2>3. Len(u) = Len(w) + Len(v)
      BY <1>15, <2>1, ConcatProperties
    <2>4. \A i \in 1 .. Len(w) : u[i] = w[i]
      BY <1>15, <2>1, ConcatFirst
    <2> QED
      BY <2>2, <2>3, <2>4, Zenon
  <1>18. PICK t \in Nat, q \in Nat, l \in Nat, x \in Nat, z \in Nat :
           /\ t = taken /\ q = altered /\ l = Len(wire) /\ x = Len(w) /\ z = Len(u)
           /\ t <= l /\ l <= x /\ q <= x /\ x <= z
    <2>1. taken <= Len(wire) /\ Len(u) \in Nat /\ Len(w) <= Len(u)
      <3>1. PICK x \in Nat, y2 \in Nat : x = Len(w) /\ y2 = Len(v)
        BY <1>17
      <3>2. x + y2 \in Nat /\ x <= x + y2
        OBVIOUS
      <3>3. taken <= Len(wire)
        BY <1>2
      <3> QED
        BY <1>17, <3>1, <3>2, <3>3, Zenon
    <2> QED
      BY <1>2, <1>6, <1>17, <2>1, Zenon
  <1>19. /\ \A i \in 1 .. t : i \in 1 .. l /\ i \in 1 .. x
         /\ z <= z /\ q <= z /\ t \in 0 .. z /\ t <= t
    <2>1. ASSUME NEW a \in Nat, NEW b \in Nat, a <= b
          PROVE  (\A i \in 1 .. a : i \in 1 .. b) /\ a \in 0 .. b /\ a <= a
      BY <2>1
    <2>2. t <= l /\ l <= x /\ q <= x /\ x <= z
      BY <1>18, Zenon
    <2>3. t <= x /\ t <= z /\ q <= z /\ z <= z
      <3>1. \A a \in Nat, b \in Nat, c \in Nat : a <= b /\ b <= c => a <= c
        OBVIOUS
      <3>2. \A a \in Nat : a <= a
        OBVIOUS
      <3> QED
        BY <2>2, <3>1, <3>2, Zenon
    <2>4. t \in 0 .. z /\ t <= t
      BY <2>1, <2>3, Zenon
    <2>5. \A i \in 1 .. t : i \in 1 .. l /\ i \in 1 .. x
      BY <2>1, <2>2, <2>3, Zenon
    <2> QED
      BY <2>3, <2>4, <2>5, Zenon
  <1>20. Laid(u, altered, protocol, m, B2, E2)
    BY <1>2, <1>6, <1>12, <1>14, <1>15, LaidCat, Zenon
  <1>21. Stream(B2, E2)'
    <2>1. Len(u) = EndOf(protocol, m, B2, E2)
      <3>1. m # 0
        BY <1>7
      <3> QED
        BY <1>14, <1>17, <3>1, Zenon DEF EndOf
    <2>2. Len(u) <= Len(u) /\ altered <= Len(u)
      BY <1>18, <1>19, Zenon
    <2> QED
      BY <1>1, <1>7, <1>9, <1>11, <1>16, <1>20, <2>1, <2>2, Zenon DEF Stream
  <1>22. Keeps(wire, altered, taken, wire', altered', taken')
    <2>1. \A i \in 1 .. taken : i \in 1 .. Len(wire) /\ i \in 1 .. Len(w)
      BY <1>18, <1>19, Zenon
    <2>2. \A i \in 1 .. taken : u[i] = wire[i]
      BY <1>6, <1>17, <2>1, Zenon
    <2>3. taken <= taken
      BY <1>18, <1>19, Zenon
    <2> QED
      BY <1>1, <1>2, <1>16, <2>2, <2>3, Zenon DEF Keeps
  <1>23. protocol = "auth" => AuthReader(B2, E2)'
    <2> HAVE protocol = "auth"
    <2>1. AuthReader(B, E)
      BY <1>3, Zenon DEF Placed
    <2>2. packets' \in Nat /\ packets <= packets'
      BY <1>7
    <2>3. \A k \in 0 .. packets : B2[k] = B[k] /\ E2[k] = E[k]
      BY <1>7, <1>9, Zenon DEF More
    <2> QED
      BY <1>1, <1>4, <1>22, <2>1, <2>2, <2>3, ReaderKept, Zenon
  <1>24. protocol # "auth" => OriginReader'
    BY <1>1, <1>3, Zenon DEF Placed, OriginReader
  <1>25. Placed(B2, E2)'
    BY <1>1, <1>21, <1>23, <1>24, Zenon DEF Placed
  <1>26. DownType'
    <2>1. m \in 0 .. MaxPackets /\ lo + size \in Nat
      BY <1>2, <1>7
    <2>2. taken \in 0 .. Len(u)
      BY <1>18, <1>19, Zenon
    <2> QED
      BY <1>1, <1>7, <1>16, <2>1, <2>2, Zenon DEF DownInv, DownType
  <1>27. KeyOf'
    BY <1>1, Zenon DEF DownInv, KeyOf
  <1> QED
    BY <1>9, <1>25, <1>26, <1>27, Zenon DEF DownInv

-----------------------------------------------------------------------------
(* The handler of a read. *)

\* What a read of n units, of which off are of the IV, gives as text.
Text(text, n, off, dec) ==
    /\ text \in Seq(Unit) /\ off \in Nat /\ off <= n /\ Len(text) = n - off
    /\ \A j \in 1 .. n - off :
          /\ taken + off + j > IvSize /\ taken + off + j \in 1 .. taken + n
          /\ text[j] = IF dec = "right" THEN wire[taken + off + j] ELSE Garbage

\* The key a read has.
Key(n, off, dec) ==
    /\ dec \in {"right", "wrong"} /\ taken + n \in 0 .. Len(wire)
    /\ taken + n >= IvSize
    /\ dec = "right" => altered \notin 1 .. IvSize
    /\ dec = "wrong" => altered # 0
    /\ IF decryptor = "none" THEN taken = 0 /\ off = IvSize
       ELSE dec = decryptor /\ off = 0

\* The IV that is read shows whether it was altered.
LEMMA KeyShown ==
    ASSUME NEW w \in Seq(Unit), NEW alt \in Nat, NEW prot, NEW n, NEW B, NEW E,
           Laid(w, alt, prot, n, B, E), Len(w) >= IvSize
    PROVE  /\ SubSeq(w, 1, IvSize) = IV => alt \notin 1 .. IvSize
           /\ SubSeq(w, 1, IvSize) # IV => alt # 0
  <1>1. IvSize \in Nat /\ Len(w) \in Nat
    BY SSRConnectionAssumption
  <1>2. PICK v \in Seq(Unit) : v = SubSeq(w, 1, IvSize)
    BY <1>1, PrefixType
  <1>3. Len(v) = IvSize /\ \A i \in 1 .. IvSize : v[i] = w[i]
    BY <1>1, <1>2
  <1>4. \A i \in 1 .. IvSize : i \in 1 .. Len(w) /\ i <= IvSize /\ i # 0
    BY <1>1
  <1>5. IV \in Seq(Unit) /\ Len(IV) = IvSize
    BY IVLaid
  <1>6. \A i \in 1 .. IvSize : IV[i] = IvUnit(i) /\ IvUnit(i) # Garbage
    <2>1. \A i \in 1 .. IvSize : IV[i] = IvUnit(i)
      BY Zenon DEF IV, IvUnit
    <2>2. \A i \in 1 .. IvSize : IvUnit(i) # Garbage
      <3> SUFFICES ASSUME NEW i \in 1 .. IvSize
                   PROVE  IvUnit(i) # Garbage
        OBVIOUS
      <3>1. IvUnit(i).at = i /\ Garbage.at = 0
        BY DEF IvUnit, Garbage
      <3>2. i # 0
        BY <1>4
      <3> QED
        BY <3>1, <3>2, Zenon
    <2> QED
      BY <2>1, <2>2
  <1>7. v = IV => alt \notin 1 .. IvSize
    <2> SUFFICES ASSUME v = IV, alt \in 1 .. IvSize
                 PROVE  FALSE
      BY Zenon
    <2>1. w[alt] = Garbage
      BY <1>4, Zenon DEF Laid
    <2> QED
      BY <1>3, <1>6, <2>1, Zenon
  <1>8. v # IV => alt # 0
    <2> SUFFICES ASSUME alt = 0
                 PROVE  v = IV
      BY Zenon
    <2>1. \A i \in 1 .. IvSize : w[i] = IvUnit(i)
      BY <1>4, Zenon DEF Laid, Belongs
    <2>2. Len(v) = Len(IV) /\ \A i \in 1 .. Len(v) : v[i] = IV[i]
      BY <1>3, <1>5, <1>6, <2>1, Zenon
    <2> QED
      BY <1>5, <2>2, SeqEqual
  <1> QED
    BY <1>2, <1>7, <1>8, Zenon

\* What the handler decrypts.
LEMMA TextRead ==
    ASSUME DownInv, NEW B, NEW E, Stream(B, E), NEW n \in 1 .. ReadSize,
           NEW units, NEW dec, NEW plain, NEW text,
           reading, ~TooShort(n), n <= Len(wire) - taken,
           units = SubSeq(wire, taken + 1, taken + n), dec = Decryptor(units),
           plain = SubSeq(units, IF decryptor = "none" THEN IvSize + 1 ELSE 1, n),
           text = [i \in 1 .. Len(plain) |->
                      IF dec = "right" THEN plain[i] ELSE Garbage]
    PROVE  \E off \in Nat : Text(text, n, off, dec) /\ Key(n, off, dec)
  <1>1. /\ wire \in Seq(Unit) /\ Len(wire) \in Nat /\ taken \in Nat
        /\ taken + n <= Len(wire) /\ taken <= taken + n /\ taken + n \in Nat
        /\ altered \in Nat /\ n \in Nat
        /\ decryptor \in {"none", "right", "wrong"}
    <2>1. wire \in Seq(Unit) /\ taken \in 0 .. Len(wire) /\ altered \in Nat
          /\ decryptor \in {"none", "right", "wrong"}
      BY DEF DownInv, DownType
    <2>2. Len(wire) \in Nat
      BY <2>1, LenProperties
    <2>3. PICK l \in Nat, t \in Nat : l = Len(wire) /\ t = taken
      BY <2>1, <2>2
    <2>4. n \in Nat /\ n <= l - t
      BY <2>3, SSRConnectionAssumption
    <2>5. t + n <= l /\ t <= t + n /\ t + n \in Nat
      BY <2>4
    <2> QED
      BY <2>1, <2>3, <2>4, <2>5, Zenon
  <1>2. KeyOf /\ IvSize \in Nat \ {0} /\ Laid(wire, altered, protocol, packets, B, E)
    BY SSRConnectionAssumption DEF DownInv, Stream
  <1>3. /\ units \in Seq(Unit) /\ Len(units) = n
        /\ \A i \in 1 .. n : taken + i \in 1 .. Len(wire) /\ units[i] = wire[taken + i]
    <2>1. (taken + n) - taken = n
      BY <1>1
    <2>2. PICK b \in Nat : b = taken + n /\ taken <= b /\ b <= Len(wire)
      BY <1>1
    <2>3. /\ SubSeq(wire, taken + 1, b) \in Seq(Unit)
          /\ Len(SubSeq(wire, taken + 1, b)) = b - taken
          /\ \A i \in 1 .. b - taken : taken + i \in 1 .. Len(wire)
          /\ \A i \in 1 .. b - taken : SubSeq(wire, taken + 1, b)[i] = wire[taken + i]
      BY <1>1, <2>2, Between
    <2> QED
      BY <2>1, <2>2, <2>3, Zenon
  <1>4. PICK off \in Nat : /\ off = IF decryptor = "none" THEN IvSize ELSE 0
                           /\ off <= n
    BY <1>1, <1>2 DEF TooShort
  <1>5. plain = SubSeq(units, off + 1, n)
    <2>1. 0 + 1 = 1
      OBVIOUS
    <2> QED
      BY <1>4, <2>1, Zenon
  <1>6. /\ plain \in Seq(Unit) /\ Len(plain) = n - off
        /\ \A j \in 1 .. n - off : plain[j] = units[off + j]
    <2>1. n <= Len(units)
      BY <1>1, <1>3
    <2> QED
      BY <1>1, <1>3, <1>4, <1>5, <2>1, Between
  <1>7. ASSUME NEW j \in 1 .. n - off
        PROVE  /\ taken + off + j > IvSize /\ taken + off + j \in 1 .. taken + n
               /\ text[j] = IF dec = "right" THEN wire[taken + off + j] ELSE Garbage
    <2>1. off + j \in 1 .. n /\ taken + (off + j) = taken + off + j
          /\ taken + off + j \in 1 .. taken + n
      BY <1>1, <1>4
    <2>2. plain[j] = wire[taken + off + j]
      BY <1>3, <1>6, <2>1, Zenon
    <2>3. text[j] = IF dec = "right" THEN plain[j] ELSE Garbage
      BY <1>6
    <2>4. taken + off + j > IvSize
      <3>1. CASE decryptor = "none"
        BY <1>1, <1>2, <1>4, <3>1
      <3>2. CASE decryptor # "none"
        <4>1. taken >= IvSize
          BY <1>2, <3>2 DEF KeyOf
        <4> QED
          BY <1>1, <1>2, <1>4, <4>1
      <3> QED
        BY <3>1, <3>2
    <2> QED
      BY <2>1, <2>2, <2>3, <2>4, Zenon
  <1>8. text \in Seq(Unit) /\ Len(text) = n - off
    <2>1. n - off \in Nat
      BY <1>1, <1>4
    <2>2. \A j \in 1 .. n - off : plain[j] \in Unit
      BY <1>6, ElementOfSeq
    <2>3. text \in [1 .. n - off -> Unit]
      BY <1>6, <2>2, GarbageUnit
    <2>4. PICK m \in Nat : m = n - off
      BY <2>1, Zenon
    <2>5. PICK t \in [1 .. m -> Unit] : t = text
      BY <2>3, <2>4, Zenon
    <2>6. t \in Seq(Unit) /\ Len(t) = m
      BY FunctionIsSeq
    <2> QED
      BY <2>4, <2>5, <2>6, Zenon
  <1>9. Text(text, n, off, dec)
    BY <1>4, <1>7, <1>8, Zenon DEF Text
  <1>10. Key(n, off, dec)
    <2>1. taken + n \in 0 .. Len(wire)
      BY <1>1
    <2>2. CASE decryptor # "none"
      <3>1. dec = decryptor /\ dec \in {"right", "wrong"} /\ off = 0
        BY <1>1, <1>4, <2>2 DEF Decryptor
      <3>2. taken + n >= IvSize
        BY <1>1, <1>2, <2>2 DEF KeyOf
      <3> QED
        BY <1>2, <2>1, <2>2, <3>1, <3>2, Zenon DEF Key, KeyOf
    <2>3. CASE decryptor = "none"
      <3>1. taken = 0 /\ off = IvSize
        BY <1>2, <1>4, <2>3 DEF KeyOf
      <3>2. dec = IF SubSeq(units, 1, IvSize) = IV THEN "right" ELSE "wrong"
        BY <2>3 DEF Decryptor
      <3>3. SubSeq(units, 1, IvSize) = SubSeq(wire, 1, IvSize)
        <4>1. /\ IvSize <= Len(units) /\ IvSize <= Len(wire)
              /\ \A i \in 1 .. IvSize : i \in 1 .. n
          BY <1>1, <1>2, <1>3, <1>4, <3>1
        <4>2. \A i \in 1 .. IvSize : units[i] = wire[i]
          <5>1. \A i \in 1 .. n : 0 + i = i
            BY <1>1
          <5> QED
            BY <1>3, <3>1, <4>1, <5>1, Zenon
        <4>3. PICK a \in Seq(Unit), b \in Seq(Unit) :
                a = SubSeq(units, 1, IvSize) /\ b = SubSeq(wire, 1, IvSize)
          BY <1>1, <1>2, <1>3, <4>1, PrefixType
        <4>4. /\ Len(a) = IvSize /\ Len(b) = IvSize
              /\ \A i \in 1 .. IvSize : a[i] = units[i] /\ b[i] = wire[i]
          BY <1>1, <1>2, <1>3, <4>1, <4>3
        <4>5. a = b
          BY <4>2, <4>4, SeqEqual
        <4> QED
          BY <4>3, <4>5
      <3>4. taken + n >= IvSize /\ Len(wire) >= IvSize
        BY <1>1, <1>2, <1>4, <3>1
      <3>5. /\ SubSeq(wire, 1, IvSize) = IV => altered \notin 1 .. IvSize
            /\ SubSeq(wire, 1, IvSize) # IV => altered # 0
        BY <1>1, <1>2, <3>4, KeyShown
      <3> QED
        BY <2>1, <2>3, <3>1, <3>2, <3>3, <3>4, <3>5 DEF Key
    <2> QED
      BY <2>2, <2>3
  <1> QED
    BY <1>9, <1>10

\* A run is a sequence.
LEMMA RunTyped ==
    ASSUME NEW lo \in Nat, NEW hi \in Nat, lo <= hi
    PROVE  Run(lo, hi) \in Seq(Nat) /\ Len(Run(lo, hi)) = hi - lo
  BY DEF Run

\* The caller has s, of the first hi units of data.
Has(s, f, hi) == s \in Seq(Nat) /\ f \subseteq DOMAIN s /\ Handed(s, f, hi)

\* Handed what the buffer takes of the data from behind lo to hi, it has s2.
Gets(s, f, lo, hi, len, s2, f2) ==
    /\ lo \in Nat /\ hi \in Nat /\ lo <= hi /\ len = Least(hi - lo, CallerSize)
    /\ s2 = s \o SubSeq(Run(lo, hi), 1, len)
    /\ f2 = f \cup IF len = CallerSize THEN {Len(s) + len} ELSE {}

\* What the caller is handed of a run of data keeps what it has in order.
LEMMA HandedOn ==
    ASSUME NEW s, NEW f, NEW lo, NEW hi, NEW len, NEW s2, NEW f2,
           Has(s, f, lo), Gets(s, f, lo, hi, len, s2, f2)
    PROVE  Has(s2, f2, hi)
  <1>1. /\ s \in Seq(Nat) /\ lo \in Nat /\ hi \in Nat /\ lo <= hi
        /\ Handed(s, f, lo) /\ f \subseteq DOMAIN s
        /\ len = Least(hi - lo, CallerSize)
        /\ s2 = s \o SubSeq(Run(lo, hi), 1, len)
        /\ f2 = f \cup IF len = CallerSize THEN {Len(s) + len} ELSE {}
    BY Zenon DEF Has, Gets
  <1> USE <1>1
  <1>2. CallerSize \in Nat \ {0}
    BY SSRConnectionAssumption
  <1>3. PICK l \in Nat : l = Len(s)
    BY LenProperties
  <1>4. /\ len \in Nat /\ len <= hi - lo /\ lo + len <= hi
        /\ len # CallerSize => lo + len = hi
    BY <1>2 DEF Least
  <1>5. PICK r \in Seq(Nat) : r = Run(lo, hi) /\ Len(r) = hi - lo
    <2>1. Run(lo, hi) \in Seq(Nat) /\ Len(Run(lo, hi)) = hi - lo
      BY RunTyped
    <2> QED
      BY <2>1, Zenon
  <1>6. \A i \in 1 .. hi - lo : r[i] = lo + i
    BY <1>5 DEF Run
  <1>7. PICK p \in Seq(Nat) : p = SubSeq(Run(lo, hi), 1, len)
    BY <1>4, <1>5, PrefixType
  <1>8. Len(p) = len /\ \A i \in 1 .. len : p[i] = lo + i
    <2>1. Len(p) = len /\ \A i \in 1 .. len : p[i] = r[i]
      BY <1>4, <1>5, <1>7
    <2>2. \A i \in 1 .. len : i \in 1 .. hi - lo
      BY <1>4
    <2> QED
      BY <1>6, <2>1, <2>2, Zenon
  <1>9. /\ s2 \in Seq(Nat) /\ Len(s2) = l + len
        /\ \A i \in 1 .. l : s2[i] = s[i]
        /\ \A i \in 1 .. len : s2[l + i] = p[i]
    <2>1. s2 = s \o p
      BY <1>7, Zenon
    <2>2. PICK q \in Seq(Nat) : q = s
      BY <1>1, Zenon
    <2>3. /\ q \o p \in Seq(Nat) /\ Len(q \o p) = Len(q) + Len(p)
          /\ \A i \in 1 .. Len(q) : (q \o p)[i] = q[i]
          /\ \A i \in 1 .. Len(p) : (q \o p)[Len(q) + i] = p[i]
      BY ConcatProperties, ConcatFirst, ConcatSecond
    <2> QED
      BY <1>3, <1>8, <2>1, <2>2, <2>3, Zenon
  <1>10. /\ DOMAIN s = 1 .. l /\ DOMAIN s2 = 1 .. l + len
        /\ f \subseteq f2 /\ (len = CallerSize => l + len \in f2)
    BY <1>3, <1>9, LenProperties
  <1>11. f2 \subseteq DOMAIN s2
    <2>1. \A i \in 1 .. l : i \in 1 .. l + len
      BY <1>4
    <2>2. len = CallerSize => l + len \in 1 .. l + len
      <3>1. PICK x \in Nat : x = len
        BY <1>4, Zenon
      <3>2. x # 0 => l + x \in 1 .. l + x
        OBVIOUS
      <3>3. CallerSize # 0
        BY <1>2
      <3> QED
        BY <3>1, <3>2, <3>3, Zenon
    <2>3. f2 = f \cup IF len = CallerSize THEN {l + len} ELSE {}
      BY <1>1, <1>3, Zenon
    <2> QED
      BY <1>1, <1>3, <1>10, <2>1, <2>2, <2>3, Zenon
  <1>12. /\ \A i \in 1 .. l :
              /\ s[i] <= lo
              /\ s[i] > IF i = 1 THEN 0 ELSE s[i - 1]
              /\ s[i] = (IF i = 1 THEN 0 ELSE s[i - 1]) + 1 \/ i - 1 \in f
         /\ LastOf(s) = lo \/ l \in f
    BY <1>3, Zenon DEF Handed
  <1>13. /\ l = 0 => LastOf(s) = 0
         /\ l # 0 => LastOf(s) = s[l] /\ l \in 1 .. l
    <2>1. l = 0 <=> s = <<>>
      BY <1>3, EmptySeq
    <2>2. l # 0 => l \in 1 .. l
      OBVIOUS
    <2> QED
      BY <1>3, <2>1, <2>2, Zenon DEF LastOf
  <1>14. LastOf(s) \in Nat /\ LastOf(s) <= lo
    <2>1. CASE l = 0
      BY <1>13, <2>1
    <2>2. CASE l # 0
      <3>1. s[l] \in Nat
        BY <1>3, <1>13, <2>2, ElementOfSeq
      <3> QED
        BY <1>12, <1>13, <2>2, <3>1, Zenon
    <2> QED
      BY <2>1, <2>2
  <1>15. ASSUME NEW i \in 1 .. l + len
         PROVE  /\ s2[i] <= hi
                /\ s2[i] > IF i = 1 THEN 0 ELSE s2[i - 1]
                /\ \/ s2[i] = (IF i = 1 THEN 0 ELSE s2[i - 1]) + 1
                   \/ i - 1 \in f2
    <2>1. CASE i <= l
      <3>1. i \in 1 .. l /\ (i # 1 => i - 1 \in 1 .. l)
        BY <2>1
      <3>2. s[i] <= hi
        <4>1. s[i] \in Nat /\ s[i] <= lo
          BY <1>3, <1>12, <3>1, ElementOfSeq
        <4> QED
          BY <4>1
      <3>3. s2[i] = s[i] /\ (i # 1 => s2[i - 1] = s[i - 1])
        BY <1>9, <3>1, Zenon
      <3>4. i - 1 \in f => i - 1 \in f2
        BY <1>10
      <3> QED
        BY <1>12, <3>1, <3>2, <3>3, <3>4, Zenon
    <2>2. CASE i > l
      <3>1. PICK j \in 1 .. len : j = i - l /\ i = l + j
        BY <1>4, <2>2
      <3>2. s2[i] = lo + j /\ lo + j <= hi /\ lo + j \in Nat
        <4>1. lo + j <= hi /\ lo + j \in Nat
          BY <1>4
        <4> QED
          BY <1>8, <1>9, <3>1, <4>1, Zenon
      <3>3. CASE j # 1
        <4>1. PICK k \in 1 .. len : k = j - 1
          BY <1>4, <3>3
        <4>2. /\ i - 1 = l + k /\ i # 1 /\ (lo + k) + 1 = lo + j
              /\ lo + j > lo + k
          BY <3>1, <4>1
        <4>3. s2[i - 1] = lo + k
          BY <1>8, <1>9, <4>2, Zenon
        <4> QED
          BY <3>2, <4>2, <4>3, Zenon
      <3>4. CASE j = 1 /\ l = 0
        <4>1. i = 1 /\ i - 1 = l
          BY <3>1, <3>4
        <4>2. lo = 0 \/ l \in f2
          BY <1>10, <1>12, <1>13, <3>4, Zenon
        <4>3. lo + 1 > 0 /\ (lo = 0 => lo + 1 = 0 + 1)
          OBVIOUS
        <4> QED
          BY <3>2, <3>4, <4>1, <4>2, <4>3, Zenon
      <3>5. CASE j = 1 /\ l # 0
        <4>1. i # 1 /\ i - 1 = l
          BY <3>1, <3>5
        <4>2. PICK z \in Nat : z = s2[l] /\ z = LastOf(s) /\ z <= lo
          BY <1>9, <1>13, <1>14, <3>5, Zenon
        <4>3. z = lo \/ l \in f2
          BY <1>10, <1>12, <4>2, Zenon
        <4>4. lo + 1 > z
          <5>1. \A x \in Nat : x <= lo => lo + 1 > x
            OBVIOUS
          <5> QED
            BY <4>2, <5>1, Zenon
        <4> QED
          BY <3>2, <3>5, <4>1, <4>2, <4>3, <4>4, Zenon
      <3> QED
        BY <3>3, <3>4, <3>5
    <2>3. i <= l \/ i > l
      BY <1>4
    <2> QED
      BY <2>1, <2>2, <2>3, Zenon
  <1>16. LastOf(s2) = hi \/ l + len \in f2
    <2>1. CASE len = CallerSize
      BY <1>10, <2>1
    <2>2. CASE len # CallerSize /\ len # 0
      <3>1. len \in 1 .. len /\ Len(s2) # 0
        BY <1>4, <1>9, <2>2
      <3>2. s2 # <<>>
        BY <3>1
      <3>3. s2[l + len] = hi
        BY <1>4, <1>8, <1>9, <2>2, <3>1, Zenon
      <3> QED
        BY <1>9, <3>2, <3>3, Zenon DEF LastOf
    <2>3. CASE len # CallerSize /\ len = 0
      <3>1. lo = hi /\ l + len = l
        BY <1>4, <2>3
      <3>2. s2 = s
        <4>1. Len(s2) = Len(s) /\ \A i \in 1 .. Len(s2) : s2[i] = s[i]
          BY <1>3, <1>9, <3>1
        <4> QED
          BY <1>9, <4>1, SeqEqual
      <3> QED
        BY <1>10, <1>12, <3>1, <3>2, Zenon
    <2> QED
      BY <2>1, <2>2, <2>3
  <1> QED
    BY <1>9, <1>11, <1>15, <1>16, Zenon DEF Handed, Has

\* What client_post_decrypt makes of a read.
LEMMA AuthUnpacks ==
    ASSUME DownInv, protocol = "auth",
           NEW B \in [Nat -> Nat], NEW E \in [Nat -> Nat], Placed(B, E),
           NEW n \in 1 .. ReadSize, NEW off \in Nat, NEW dec, NEW text, NEW st,
           Text(text, n, off, dec), Key(n, off, dec), st = Unpack(text)
    PROVE  /\ Unpacked(st, B[recv_id - 1], packets, B, E, wire, altered,
                       taken + n, dec)
           /\ st.done = TRUE
  <1>1. Stream(B, E) /\ AuthReader(B, E) /\ Frames(packets, B, E)
    BY Zenon DEF Placed, Stream
  <1>2. /\ wire \in Seq(Unit) /\ packets \in Nat /\ altered \in Nat
        /\ recv_buffer \in Seq(Unit) /\ recv_id \in Nat \ {0}
        /\ taken \in Nat /\ taken + n \in 0 .. Len(wire) /\ taken <= taken + n
        /\ taken + n \in Nat
    <2>1. /\ wire \in Seq(Unit) /\ packets \in Nat /\ altered \in Nat
          /\ recv_buffer \in Seq(Unit) /\ recv_id \in Nat \ {0}
          /\ taken \in 0 .. Len(wire)
      BY DEF DownInv, DownType
    <2>2. Len(wire) \in Nat
      BY <2>1, LenProperties
    <2>3. taken \in Nat
      BY <2>1, <2>2
    <2>4. taken <= taken + n /\ taken + n \in Nat
      BY <2>3
    <2>5. taken + n \in 0 .. Len(wire)
      BY Zenon DEF Key
    <2> QED
      BY <2>1, <2>3, <2>4, <2>5, Zenon
  <1> DEFINE tk  == taken + n
             lo  == B[recv_id - 1]
             buf == recv_buffer \o text
             st0 == [buf |-> buf, id |-> recv_id, done |-> FALSE, plain |-> <<>>]
  <1>3. Scene(packets, B, E, wire, altered, tk)
    BY <1>1, <1>2, Zenon DEF Scene, Stream
  <1>4. \A x \in 1 .. Len(recv_buffer) :
            Fine(recv_buffer[x], wire, altered, tk, dec)
    <2> SUFFICES ASSUME NEW x \in 1 .. Len(recv_buffer)
                 PROVE  Fine(recv_buffer[x], wire, altered, tk, dec)
      OBVIOUS
    <2>1. Fine(recv_buffer[x], wire, altered, taken, decryptor)
      BY <1>1, Zenon DEF AuthReader
    <2>2. Keeps(wire, altered, taken, wire, altered, tk)
      BY <1>2, Zenon DEF Keeps
    <2>3. Fine(recv_buffer[x], wire, altered, tk, decryptor)
      BY <2>1, <2>2, FineKept, Zenon
    <2>4. decryptor = "right" => dec = "right"
      BY DEF Key
    <2> QED
      BY <2>3, <2>4, Zenon DEF Fine
  <1>5. \A x \in 1 .. Len(text) : Fine(text[x], wire, altered, tk, dec)
    <2> SUFFICES ASSUME NEW x \in 1 .. Len(text), text[x] # Garbage
                 PROVE  Fine(text[x], wire, altered, tk, dec)
      BY Zenon DEF Fine
    <2>1. x \in 1 .. n - off
      BY Zenon DEF Text
    <2>2. dec = "right"
      BY <2>1, Zenon DEF Text
    <2>3. /\ taken + off + x > IvSize /\ taken + off + x \in 1 .. tk
          /\ text[x] = wire[taken + off + x]
      BY <2>1, <2>2, Zenon DEF Text
    <2>4. taken + off + x # altered
      <3>1. taken + off + x \in 1 .. Len(wire)
        BY <1>2, <2>3
      <3>2. taken + off + x = altered => wire[taken + off + x] = Garbage
        BY <1>1, <3>1, Zenon DEF Stream, Laid
      <3> QED
        BY <2>3, <3>2, Zenon
    <2> QED
      BY <2>2, <2>3, <2>4, Zenon DEF Fine
  <1>6. buf \in Seq(Unit) /\ \A x \in 1 .. Len(buf) :
            Fine(buf[x], wire, altered, tk, dec)
    <2>1. text \in Seq(Unit)
      BY Zenon DEF Text
    <2>2. PICK u \in Seq(Unit) : u = buf
      BY <1>2, <2>1, ConcatProperties
    <2>3. PICK a \in Nat, b \in Nat : a = Len(recv_buffer) /\ b = Len(text)
      BY <1>2, <2>1, LenProperties
    <2>4. /\ Len(u) = a + b
          /\ \A i \in 1 .. a : u[i] = recv_buffer[i]
          /\ \A i \in 1 .. b : u[a + i] = text[i]
      BY <1>2, <2>1, <2>2, <2>3, ConcatProperties, ConcatFirst, ConcatSecond
    <2>5. ASSUME NEW x \in 1 .. a + b
          PROVE  Fine(u[x], wire, altered, tk, dec)
      <3>1. CASE x <= a
        <4>1. x \in 1 .. a
          BY <3>1
        <4> QED
          BY <1>4, <2>3, <2>4, <4>1, Zenon
      <3>2. CASE x > a
        <4>1. PICK i \in 1 .. b : x = a + i
          <5>1. x - a \in 1 .. b /\ x = a + (x - a)
            BY <3>2
          <5> QED
            BY <5>1, Zenon
        <4> QED
          BY <1>5, <2>3, <2>4, <4>1, Zenon
      <3> QED
        BY <3>1, <3>2
    <2> QED
      BY <2>2, <2>4, <2>5, Zenon
  <1>7. Counting(recv_id, packets, E, altered, tk, dec)
    <2>1. Counting(recv_id, packets, E, altered, taken, decryptor)
      BY <1>1, Zenon DEF AuthReader
    <2>2. Counting(recv_id, packets, E, altered, tk, decryptor)
      <3>1. Keeps(wire, altered, taken, wire, altered, tk)
        BY <1>2, Zenon DEF Keeps
      <3>2. packets <= packets
        BY <1>2
      <3> QED
        BY <1>2, <2>1, <3>1, <3>2, CountingKept, Zenon
    <2>3. CASE decryptor # "none"
      BY <2>2, <2>3, Zenon DEF Key
    <2>4. CASE decryptor = "none"
      <3>1. recv_id = 1
        BY <2>1, <2>4 DEF Counting
      <3>2. dec # "right" => Counting(recv_id, packets, E, altered, tk, dec)
        BY <1>2, <3>1, Zenon DEF Counting
      <3>3. E[0] = IvSize
        BY <1>1, Zenon DEF Frames
      <3>4. dec = "right" => altered = 0 \/ altered > IvSize
        BY <1>2, SSRConnectionAssumption DEF Key
      <3>5. tk >= IvSize
        BY DEF Key
      <3>6. 1 - 1 = 0 /\ 0 <= packets /\ IvSize <= tk
        BY <1>2, <3>5, SSRConnectionAssumption
      <3>7. dec = "right" => Counting(recv_id, packets, E, altered, tk, dec)
        BY <1>2, <3>1, <3>3, <3>4, <3>6, Zenon DEF Counting
      <3> QED
        BY <3>2, <3>7
    <2> QED
      BY <2>3, <2>4
  <1>8. st0 \in States /\ st0.buf = buf /\ st0.id = recv_id /\ st0.done = FALSE
        /\ st0.plain = <<>>
    <2>1. FALSE \in BOOLEAN /\ <<>> \in Seq(Nat)
      OBVIOUS
    <2>2. PICK u \in Seq(Unit), no \in BOOLEAN, e \in Seq(Nat) :
            u = buf /\ no = FALSE /\ e = <<>>
      BY <1>6, <2>1, Zenon
    <2> DEFINE s == [buf |-> u, id |-> recv_id, done |-> no, plain |-> e]
    <2>3. s \in States /\ s.buf = u /\ s.id = recv_id /\ s.done = no /\ s.plain = e
      BY <1>2 DEF States
    <2>4. s = st0
      BY <2>2, Zenon
    <2> HIDE DEF s, st0
    <2> QED
      BY <2>2, <2>3, <2>4, Zenon
  <1>9. lo \in Nat /\ lo <= lo /\ Run(lo, lo) = <<>>
    <2>1. lo \in Nat
      <3>1. recv_id - 1 \in Nat
        BY <1>2
      <3> QED
        BY <3>1
    <2>2. PICK x \in Nat : x = lo
      BY <2>1
    <2>3. x <= x /\ Run(x, x) \in Seq(Nat) /\ Len(Run(x, x)) = 0
      <3>1. x <= x /\ x - x = 0
        OBVIOUS
      <3> QED
        BY <3>1, RunTyped
    <2>4. Run(x, x) = <<>>
      BY <2>3, EmptySeq
    <2> QED
      BY <2>2, <2>3, <2>4, Zenon
  <1> HIDE DEF st0, buf
  <1>10. Unpacked(st0, lo, packets, B, E, wire, altered, tk, dec)
    BY <1>6, <1>7, <1>8, <1>9, Zenon DEF Unpacked
  <1>11. st = Loop(st0, Len(st0.buf) \div PacketSize(<<>>) + 1)
    <2>1. st = Loop(st0, Len(buf) \div PacketSize(<<>>) + 1)
      BY Zenon DEF Unpack, Loop, st0, buf
    <2> QED
      BY <1>8, <2>1, Zenon
  <1> HIDE DEF tk, lo
  <1>12. /\ Unpacked(st, lo, packets, B, E, wire, altered, tk, dec)
         /\ st.done = TRUE
    BY <1>3, <1>9, <1>10, <1>11, LoopEnds, Zenon
  <1> QED
    BY <1>12, Zenon DEF tk, lo

\* What the handler does with the state client_post_decrypt leaves.
Taken(n, dec, st) ==
    /\ taken' = taken + n /\ decryptor' = dec
    /\ recv_buffer' = st.buf /\ recv_id' = st.id
    /\ got' = got \o SubSeq(st.plain, 1, Least(Len(st.plain), CallerSize))
    /\ filled' = filled \cup IF Least(Len(st.plain), CallerSize) = CallerSize
                             THEN {Len(got) + Least(Len(st.plain), CallerSize)}
                             ELSE {}
    /\ reading' \in BOOLEAN /\ error' = error /\ error = "none"

\* The steps of the handler.
LEMMA Reads ==
    ASSUME DownInv, NEW B, NEW E, Stream(B, E), NEW n \in 1 .. ReadSize,
           ReadHandler(n)
    PROVE  \E off, dec, text, st :
              /\ off \in Nat /\ Text(text, n, off, dec) /\ Key(n, off, dec)
              /\ st = Unpack(text) /\ Taken(n, dec, st)
  <1> DEFINE units == SubSeq(wire, taken + 1, taken + n)
             dec   == Decryptor(units)
             plain == SubSeq(units, IF decryptor = "none" THEN IvSize + 1 ELSE 1, n)
             text  == [i \in 1 .. Len(plain) |->
                          IF dec = "right" THEN plain[i] ELSE Garbage]
  <1>1. reading /\ ~TooShort(n) /\ n <= Len(wire) - taken
    BY DEF ReadHandler
  <1>2. \E off \in Nat : Text(text, n, off, dec) /\ Key(n, off, dec)
    BY <1>1, TextRead, Zenon
  <1>3. PICK st \in {Unpack(text)} :
          /\ decryptor' = dec /\ recv_buffer' = st.buf /\ recv_id' = st.id
          /\ HandOver(st.plain) /\ reading' = (st.plain = <<>>)
    BY Zenon DEF ReadHandler
  <1>4. taken' = taken + n /\ error' = error
    BY DEF ReadHandler
  <1>5. error = "none"
    BY <1>1 DEF DownInv, KeyOf
  <1>6. reading' \in BOOLEAN
    BY <1>3
  <1> HIDE DEF units, dec, plain, text
  <1>7. Taken(n, dec, st)
    BY <1>3, <1>4, <1>5, <1>6, Zenon DEF Taken, HandOver
  <1>8. st = Unpack(text)
    BY <1>3
  <1> QED
    BY <1>2, <1>7, <1>8, Zenon

\* The reader with authentication, after the handler.
LEMMA AuthReads ==
    ASSUME DownInv, protocol = "auth",
           NEW B \in [Nat -> Nat], NEW E \in [Nat -> Nat], Placed(B, E),
           NEW n \in 1 .. ReadSize, NEW off \in Nat, NEW dec, NEW text, NEW st,
           Text(text, n, off, dec), Key(n, off, dec), st = Unpack(text),
           Taken(n, dec, st), wire' = wire, packets' = packets, altered' = altered
    PROVE  /\ recv_buffer' \in Seq(Unit) /\ Len(recv_buffer') <= ReadSize - 2
           /\ recv_id' \in Nat \ {0} /\ got' \in Seq(Nat)
           /\ filled' \subseteq DOMAIN got' /\ AuthReader(B, E)'
  <1>1. AuthReader(B, E) /\ Frames(packets, B, E)
    BY Zenon DEF Placed, Stream
  <1>2. /\ Unpacked(st, B[recv_id - 1], packets, B, E, wire, altered,
                    taken + n, dec)
        /\ st.done = TRUE
    BY AuthUnpacks
  <1>3. PICK buf \in Seq(Unit), id \in Nat \ {0}, plain \in Seq(Nat) :
          st.buf = buf /\ st.id = id /\ st.plain = plain
    <2>1. st \in States
      BY <1>2, Zenon DEF Unpacked
    <2>2. st.buf \in Seq(Unit) /\ st.id \in Nat \ {0} /\ st.plain \in Seq(Nat)
      BY <2>1 DEF States
    <2> QED
      BY <2>2, Zenon
  <1>4. /\ \A x \in 1 .. Len(buf) : Fine(buf[x], wire, altered, taken + n, dec)
        /\ Counting(id, packets, E, altered, taken + n, dec)
        /\ B[recv_id - 1] <= B[id - 1] /\ plain = Run(B[recv_id - 1], B[id - 1])
        /\ Len(buf) <= ReadSize - 2
    BY <1>2, <1>3, Zenon DEF Unpacked
  <1>5. PICK j \in Nat, k \in Nat : j = recv_id - 1 /\ k = id - 1
    BY <1>3 DEF DownInv, DownType
  <1>6. PICK lo \in Nat, hi \in Nat : lo = B[j] /\ hi = B[k]
    OBVIOUS
  <1>7. lo <= hi /\ plain = Run(lo, hi) /\ Len(plain) = hi - lo
    <2>1. lo <= hi /\ plain = Run(lo, hi)
      BY <1>4, <1>5, <1>6, Zenon
    <2> QED
      BY <2>1, RunTyped, Zenon
  <1>8. PICK len : len = Least(hi - lo, CallerSize)
    OBVIOUS
  <1>9. /\ got' = got \o SubSeq(Run(lo, hi), 1, len)
        /\ filled' = filled \cup IF len = CallerSize THEN {Len(got) + len} ELSE {}
    BY <1>3, <1>7, <1>8, Zenon DEF Taken
  <1>10. /\ got \in Seq(Nat) /\ filled \subseteq DOMAIN got /\ Handed(got, filled, lo)
    <2>1. Handed(got, filled, lo)
      BY <1>1, <1>5, <1>6, Zenon DEF AuthReader
    <2> QED
      BY <2>1, Zenon DEF DownInv, DownType
  <1>11. /\ got' \in Seq(Nat) /\ filled' \subseteq DOMAIN got'
         /\ Handed(got', filled', hi)
    <2>1. Has(got, filled, lo)
      BY <1>10, Zenon DEF Has
    <2>2. Gets(got, filled, lo, hi, len, got', filled')
      BY <1>6, <1>7, <1>8, <1>9, Zenon DEF Gets
    <2>3. Has(got', filled', hi)
      BY <2>1, <2>2, HandedOn, Zenon
    <2> QED
      BY <2>3, Zenon DEF Has
  <1>12. dec # "right" => got' = <<>>
    <2> SUFFICES ASSUME dec # "right", got' # <<>>
                 PROVE  FALSE
      BY Zenon
    <2>1. id = 1
      BY <1>4 DEF Counting
    <2>2. hi = 0
      <3>1. k = 0
        BY <1>5, <2>1
      <3> QED
        BY <1>1, <1>6, <3>1, Zenon DEF Frames
    <2>3. 1 \in 1 .. Len(got')
      <3>1. Len(got') \in Nat /\ Len(got') # 0
        BY <1>11, EmptySeq, LenProperties
      <3> QED
        BY <3>1
    <2>4. got'[1] <= 0 /\ got'[1] > 0
      BY <1>11, <2>2, <2>3, Zenon DEF Handed
    <2>5. got'[1] \in Nat
      BY <1>11, <2>3, ElementOfSeq
    <2>6. PICK x \in Nat : x = got'[1]
      BY <2>5, Zenon
    <2>7. x <= 0 /\ x > 0
      BY <2>4, <2>6, Zenon
    <2> QED
      BY <2>7
  <1>13. AuthReader(B, E)'
    <2>1. recv_buffer' = buf /\ recv_id' = id /\ decryptor' = dec
          /\ taken' = taken + n
      BY <1>3, Zenon DEF Taken
    <2>2. Handed(got', filled', B[id - 1])
      BY <1>5, <1>6, <1>11, Zenon
    <2> QED
      BY <1>4, <1>12, <2>1, <2>2, Zenon DEF AuthReader
  <1> QED
    BY <1>3, <1>4, <1>11, <1>13, Zenon DEF Taken

\* The reader without authentication, after the handler.
LEMMA OriginReads ==
    ASSUME DownInv, protocol = "origin", NEW B, NEW E, Stream(B, E), OriginReader,
           NEW n \in 1 .. ReadSize, NEW off \in Nat, NEW dec, NEW text, NEW st,
           Text(text, n, off, dec), Key(n, off, dec), st = Unpack(text),
           Taken(n, dec, st), altered' = altered
    PROVE  /\ recv_buffer' \in Seq(Unit) /\ Len(recv_buffer') <= ReadSize - 2
           /\ recv_id' \in Nat \ {0} /\ got' \in Seq(Nat)
           /\ filled' \subseteq DOMAIN got' /\ OriginReader'
  <1>1. /\ taken \in Nat /\ altered \in Nat /\ IvSize \in Nat \ {0} /\ n \in Nat
        /\ n <= CallerSize /\ CallerSize \in Nat \ {0} /\ off <= n
        /\ taken + n \in Nat /\ got \in Seq(Nat) /\ Len(got) \in Nat
        /\ filled \subseteq DOMAIN got /\ DOMAIN got = 1 .. Len(got)
    <2>1. /\ taken \in 0 .. Len(wire) /\ wire \in Seq(Unit) /\ altered \in Nat
          /\ got \in Seq(Nat) /\ filled \subseteq DOMAIN got
      BY DEF DownInv, DownType
    <2>2. Len(wire) \in Nat /\ Len(got) \in Nat /\ DOMAIN got = 1 .. Len(got)
      BY <2>1, LenProperties
    <2>3. /\ IvSize \in Nat \ {0} /\ ReadSize \in Nat /\ CallerSize \in Nat \ {0}
          /\ ReadSize <= CallerSize
      BY SSRConnectionAssumption
    <2>4. off <= n
      BY Zenon DEF Text
    <2>5. n \in Nat /\ n <= CallerSize /\ taken \in Nat /\ taken + n \in Nat
      BY <2>1, <2>2, <2>3
    <2> QED
      BY <2>1, <2>2, <2>3, <2>4, <2>5, Zenon
  <1>2. PICK base \in Nat :
          /\ base + IvSize = taken + off /\ (decryptor = "none" => base = 0)
          /\ decryptor # "none" => base = taken - IvSize
    <2>1. CASE decryptor = "none"
      <3>1. taken = 0 /\ off = IvSize
        BY <2>1, Zenon DEF Key
      <3>2. 0 + IvSize = taken + off
        BY <1>1, <3>1
      <3> QED
        BY <2>1, <3>2
    <2>2. CASE decryptor # "none"
      <3>1. off = 0 /\ taken >= IvSize
        BY <2>2, Zenon DEF Key, DownInv, KeyOf
      <3>2. taken - IvSize \in Nat /\ (taken - IvSize) + IvSize = taken + off
        BY <1>1, <3>1
      <3> QED
        BY <2>2, <3>2
    <2> QED
      BY <2>1, <2>2
  <1>3. PICK m \in Nat : /\ m = n - off /\ m <= CallerSize
                         /\ base + m = (taken + n) - IvSize
    <2>1. n - off \in Nat /\ n - off <= CallerSize
      BY <1>1
    <2>2. base + (n - off) = (taken + n) - IvSize
      BY <1>1, <1>2
    <2> QED
      BY <2>1, <2>2
  <1> DEFINE g == [j \in 1 .. m |->
                      IF dec = "right" /\ taken + off + j # altered
                      THEN base + j ELSE 0]
  <1>4. g \in [1 .. m -> Nat]
    OBVIOUS
  <1>5. \A j \in 1 .. m : text[j].data = <<g[j]>>
    <2> SUFFICES ASSUME NEW j \in 1 .. m
                 PROVE  text[j].data = <<g[j]>>
      OBVIOUS
    <2>1. /\ taken + off + j > IvSize /\ taken + off + j \in 1 .. taken + n
          /\ text[j] = IF dec = "right" THEN wire[taken + off + j] ELSE Garbage
      BY <1>3, Zenon DEF Text
    <2>2. PICK i \in Nat : i = taken + off + j
      BY <1>1
    <2>3. i \in 1 .. Len(wire)
      <3>1. taken + n \in 0 .. Len(wire)
        BY Zenon DEF Key
      <3>2. Len(wire) \in Nat
        BY LenProperties DEF DownInv, DownType
      <3> QED
        BY <1>1, <2>1, <2>2, <3>1, <3>2
    <2>4. Garbage.data = <<0>>
      BY DEF Garbage
    <2>5. CASE ~(dec = "right" /\ i # altered)
      <3>1. g[j] = 0
        BY <2>2, <2>5
      <3>2. wire[i] = Garbage \/ dec # "right"
        BY <2>3, <2>5, Zenon DEF Stream, Laid
      <3> HIDE DEF g
      <3> QED
        BY <2>1, <2>2, <2>4, <3>1, <3>2, Zenon
    <2>6. CASE dec = "right" /\ i # altered
      <3>1. g[j] = base + j
        BY <2>2, <2>6
      <3>2. Belongs(wire[i], i, protocol, packets, B, E)
        BY <2>3, <2>6, Zenon DEF Stream, Laid
      <3>3. ~(i <= IvSize) /\ i - IvSize = base + j
        BY <1>1, <1>2, <2>1, <2>2
      <3>4. wire[i] = [id |-> 0, data |-> <<i - IvSize>>, at |-> 0]
        <4>1. "origin" # "auth"
          OBVIOUS
        <4> QED
          BY <3>2, <3>3, <4>1, Zenon DEF Belongs
      <3>5. wire[i].data = <<i - IvSize>>
        BY <3>4
      <3> HIDE DEF g
      <3> QED
        BY <2>1, <2>2, <2>6, <3>1, <3>3, <3>5, Zenon
    <2> QED
      BY <2>5, <2>6
  <1>6. \A j \in 1 .. m : g[j] = base + j \/ (altered # 0 /\ g[j] = 0)
    <2> SUFFICES ASSUME NEW j \in 1 .. m, g[j] # base + j
                 PROVE  altered # 0 /\ g[j] = 0
      BY Zenon
    <2>1. ~(dec = "right" /\ taken + off + j # altered) /\ g[j] = 0
      OBVIOUS
    <2>2. CASE dec # "right"
      BY <2>1, <2>2, Zenon DEF Key
    <2>3. CASE taken + off + j = altered
      BY <1>1, <2>1, <2>3
    <2> QED
      BY <2>1, <2>2, <2>3
  <1> HIDE DEF g
  <1>7. g \in Seq(Nat) /\ Len(g) = m
    BY <1>4, FunctionIsSeq
  <1>8. FlattenSeq([i \in 1 .. Len(text) |-> text[i].data]) = g
    <2>1. Len(text) = m
      BY <1>3, Zenon DEF Text
    <2>2. PICK ss : ss = [i \in 1 .. m |-> <<g[i]>>]
      OBVIOUS
    <2>3. FlattenSeq(ss) = g
      BY <1>4, <2>2, FlattenOnes
    <2>4. [i \in 1 .. Len(text) |-> text[i].data] = ss
      BY <1>5, <2>1, <2>2, Zenon
    <2> QED
      BY <2>3, <2>4, Zenon
  <1>9. st.buf = <<>> /\ st.id = recv_id /\ st.plain = g
    <2>1. st = [buf |-> <<>>, id |-> recv_id, done |-> TRUE,
                plain |-> FlattenSeq([i \in 1 .. Len(text) |-> text[i].data])]
      BY DEF Unpack
    <2>2. /\ st.buf = <<>> /\ st.id = recv_id
          /\ st.plain = FlattenSeq([i \in 1 .. Len(text) |-> text[i].data])
      BY <2>1
    <2> QED
      BY <1>8, <2>2, Zenon
  <1>10. Least(Len(g), CallerSize) = m /\ SubSeq(g, 1, m) = g
    <2>1. Least(Len(g), CallerSize) = m
      BY <1>1, <1>3, <1>7 DEF Least
    <2>2. PICK v \in Seq(Nat) : v = SubSeq(g, 1, m)
      BY <1>7, PrefixType
    <2>3. Len(v) = m /\ \A i \in 1 .. m : v[i] = g[i]
      BY <1>7, <2>2
    <2>4. v = g
      BY <1>7, <2>3, SeqEqual
    <2> QED
      BY <2>1, <2>2, <2>4
  <1>11. /\ taken' = taken + n /\ decryptor' = dec /\ recv_buffer' = <<>>
         /\ recv_id' = recv_id /\ got' = got \o g
         /\ filled' = filled \cup IF m = CallerSize THEN {Len(got) + m} ELSE {}
    BY <1>9, <1>10, Zenon DEF Taken
  <1>12. /\ Len(got) = base
         /\ \A i \in 1 .. base : got[i] = i \/ (altered # 0 /\ got[i] = 0)
         /\ recv_id = 1
    <2>1. CASE decryptor = "none"
      <3>1. got = <<>>
        BY <2>1, Zenon DEF OriginReader
      <3>2. Len(got) = 0
        BY <3>1
      <3> QED
        BY <1>2, <2>1, <3>2 DEF OriginReader
    <2>2. CASE decryptor # "none"
      BY <1>2, <2>2, Zenon DEF OriginReader
    <2> QED
      BY <2>1, <2>2
  <1>13. PICK v \in Seq(Nat) :
           /\ v = got \o g /\ Len(v) = base + m
           /\ \A i \in 1 .. base : v[i] = got[i]
           /\ \A i \in 1 .. m : v[base + i] = g[i]
    <2>1. PICK s \in Seq(Nat), t \in Seq(Nat) : s = got /\ t = g
      BY <1>1, <1>7, Zenon
    <2>2. /\ s \o t \in Seq(Nat) /\ Len(s \o t) = Len(s) + Len(t)
          /\ \A j \in 1 .. Len(s) : (s \o t)[j] = s[j]
          /\ \A j \in 1 .. Len(t) : (s \o t)[Len(s) + j] = t[j]
      BY ConcatProperties, ConcatFirst, ConcatSecond
    <2> QED
      BY <1>7, <1>12, <2>1, <2>2, Zenon
  <1>14. \A i \in 1 .. base + m : v[i] = i \/ (altered # 0 /\ v[i] = 0)
    <2> SUFFICES ASSUME NEW i \in 1 .. base + m
                 PROVE  v[i] = i \/ (altered # 0 /\ v[i] = 0)
      OBVIOUS
    <2>1. CASE i <= base
      <3>1. i \in 1 .. base
        BY <2>1
      <3> QED
        BY <1>12, <1>13, <3>1, Zenon
    <2>2. CASE i > base
      <3>1. PICK j \in 1 .. m : i = base + j
        <4>1. i - base \in 1 .. m /\ i = base + (i - base)
          BY <2>2
        <4> QED
          BY <4>1, Zenon
      <3> QED
        BY <1>6, <1>13, <3>1, Zenon
    <2> QED
      BY <2>1, <2>2
  <1>15. /\ got' \in Seq(Nat) /\ Len(got') = taken' - IvSize
         /\ \A i \in 1 .. Len(got') : got'[i] = i \/ (altered' # 0 /\ got'[i] = 0)
    BY <1>3, <1>11, <1>13, <1>14, Zenon
  <1>16. filled' \subseteq DOMAIN got'
    <2>1. DOMAIN v = 1 .. base + m
      BY <1>13, LenProperties
    <2>2. m = CallerSize => base + m \in 1 .. base + m
      BY <1>1
    <2>3. \A i \in 1 .. base : i \in 1 .. base + m
      OBVIOUS
    <2>4. filled \subseteq 1 .. base
      BY <1>1, <1>12
    <2>5. filled' = filled \cup IF m = CallerSize THEN {base + m} ELSE {}
      BY <1>11, <1>12, Zenon
    <2>6. filled' \subseteq 1 .. base + m
      BY <2>2, <2>3, <2>4, <2>5
    <2> QED
      BY <1>11, <1>13, <2>1, <2>6, Zenon
  <1>17. /\ recv_buffer' \in Seq(Unit) /\ Len(recv_buffer') <= ReadSize - 2
         /\ recv_id' \in Nat \ {0}
    <2>1. <<>> \in Seq(Unit) /\ Len(<<>>) = 0
      OBVIOUS
    <2>2. 0 <= ReadSize - 2
      BY SSRConnectionAssumption
    <2>3. 1 \in Nat \ {0}
      OBVIOUS
    <2> QED
      BY <1>11, <1>12, <2>1, <2>2, <2>3, Zenon
  <1>18. OriginReader'
    <2>1. decryptor' # "none"
      BY <1>11, Zenon DEF Key
    <2> QED
      BY <1>11, <1>12, <1>15, <2>1, Zenon DEF OriginReader
  <1> QED
    BY <1>15, <1>16, <1>17, <1>18

\* The handler of a read keeps the way down in order.
LEMMA ReadKeeps ==
    ASSUME DownInv, protocol \in {"origin", "auth"}, NEW n \in 1 .. ReadSize,
           ReadHandler(n)
    PROVE  DownInv'
  <1>1. PICK B \in [Nat -> Nat], E \in [Nat -> Nat] : Placed(B, E)
    BY DEF DownInv
  <1>2. Stream(B, E)
    BY <1>1, Zenon DEF Placed
  <1>3. PICK off, dec, text, st :
          /\ off \in Nat /\ Text(text, n, off, dec) /\ Key(n, off, dec)
          /\ st = Unpack(text) /\ Taken(n, dec, st)
    BY <1>2, Reads
  <1>4. /\ direction' = direction /\ protocol' = protocol /\ writes' = writes
        /\ packets' = packets /\ put' = put /\ wire' = wire /\ altered' = altered
        /\ open' = open /\ error' = error
    BY DEF chosen, upVars, serverVars, ReadHandler
  <1>5. /\ recv_buffer' \in Seq(Unit) /\ Len(recv_buffer') <= ReadSize - 2
        /\ recv_id' \in Nat \ {0} /\ got' \in Seq(Nat) /\ filled' \subseteq DOMAIN got'
        /\ IF protocol = "auth" THEN AuthReader(B, E)' ELSE OriginReader'
    <2>1. CASE protocol = "auth"
      BY <1>1, <1>3, <1>4, <2>1, AuthReads
    <2>2. CASE protocol # "auth"
      <3>1. protocol = "origin" /\ OriginReader
        BY <1>1, <2>2, Zenon DEF Placed
      <3> QED
        BY <1>2, <1>3, <1>4, <2>2, <3>1, OriginReads
    <2> QED
      BY <2>1, <2>2
  <1>6. /\ taken' = taken + n /\ decryptor' = dec /\ error = "none"
        /\ reading' \in BOOLEAN
    BY <1>3, Zenon DEF Taken
  <1>7. DownType'
    <2>1. dec \in {"none", "right", "wrong"} /\ taken + n \in 0 .. Len(wire)
      BY <1>3, Zenon DEF Key
    <2> QED
      BY <1>4, <1>5, <1>6, <2>1, Zenon DEF DownInv, DownType
  <1>8. KeyOf'
    <2>1. /\ dec # "none" /\ taken + n >= IvSize
          /\ dec = "right" => altered \notin 1 .. IvSize
          /\ dec = "wrong" => altered # 0
      BY <1>3, Zenon DEF Key
    <2> QED
      BY <1>4, <1>6, <2>1, Zenon DEF KeyOf
  <1>9. Stream(B, E)'
    BY <1>2, <1>4, Zenon DEF Stream
  <1>10. Placed(B, E)'
    BY <1>4, <1>5, <1>9, Zenon DEF Placed
  <1> QED
    BY <1>7, <1>8, <1>10, Zenon DEF DownInv

-----------------------------------------------------------------------------
(* The theorems. *)

\* A connection that has done nothing yet.
LEMMA Start == Init => IInv
  <1> SUFFICES ASSUME Init
               PROVE  IInv
    OBVIOUS
  <1>1. /\ sent = <<>> /\ given = 0 /\ pack_id = 1 /\ first_packet = TRUE
        /\ obfs_first = TRUE /\ keystream = 0
        /\ protocol \in {"origin", "auth"} /\ obfs \in {"plain", "http_simple"}
        /\ direction \in {"up", "down"}
    BY DEF Init
  <1>2. /\ writes = 0 /\ packets = 0 /\ put = 0 /\ wire = <<>> /\ taken = 0
        /\ open = TRUE /\ altered = 0 /\ decryptor = "none" /\ recv_buffer = <<>>
        /\ recv_id = 1 /\ reading = FALSE /\ error = "none" /\ got = <<>>
        /\ filled = {}
    BY DEF Init
  <1>3. Parts = <<>>
    <2>1. Len(sent) = 0
      BY <1>1
    <2>2. [l \in 1 .. 0 |-> sent[l].parts] = <<>>
      OBVIOUS
    <2> QED
      BY <2>1, <2>2, FlattenEmpty, Zenon DEF Parts, Flat
  <1>4. UpType
    <2>1. <<>> \in Seq(Sending) /\ 1 \in Nat \ {0} /\ 0 \in Nat
      OBVIOUS
    <2>2. obfs_first \in BOOLEAN /\ first_packet \in BOOLEAN
      BY <1>1
    <2> QED
      BY <1>1, <2>1, <2>2, Zenon DEF UpType
  <1>5. Chained(Parts, given) /\ Kinds(Parts, protocol)
    <2>1. Chained(<<>>, 0)
      BY DEF Chained
    <2>2. Kinds(<<>>, protocol)
      BY DEF Kinds
    <2> QED
      BY <1>1, <1>3, <2>1, <2>2, Zenon
  <1>6. Keyed(sent, keystream)
    <2>1. Len(sent) = 0 /\ 1 .. 0 = {}
      BY <1>1
    <2>2. Flat(sent, Len(sent)) = <<>>
      BY <1>3, Zenon DEF Parts
    <2> QED
      BY <1>1, <2>1, <2>2, NoPartsLen, Zenon DEF Keyed
  <1>7. UpInv
    BY <1>1, <1>4, <1>5, <1>6, Zenon DEF UpInv, Remembered
  <1>8. /\ IvSize \in Nat \ {0} /\ LengthSize \in Nat \ {0} /\ ReadSize \in Nat
        /\ LengthSize < ReadSize /\ MaxPackets \in Nat /\ MaxWrites \in Nat
    BY SSRConnectionAssumption
  <1>9. DownType
    <2>1. /\ <<>> \in Seq(Unit) /\ <<>> \in Seq(Nat) /\ Len(<<>>) = 0
          /\ {} \subseteq DOMAIN <<>> /\ 0 \in 0 .. 0
      OBVIOUS
    <2>2. 0 <= ReadSize - 2 /\ 0 \in 0 .. MaxPackets /\ 0 \in 0 .. MaxWrites
      BY <1>8
    <2>3. 0 \in Nat /\ 1 \in Nat \ {0}
      OBVIOUS
    <2>4. open \in BOOLEAN /\ reading \in BOOLEAN
      BY <1>2, Zenon
    <2>5. /\ decryptor \in {"none", "right", "wrong"}
          /\ error \in {"none", "eof", "message_size"}
      BY <1>2
    <2> QED
      BY <1>1, <1>2, <2>1, <2>2, <2>3, <2>4, <2>5, Zenon DEF DownType
  <1>10. KeyOf
    BY <1>2 DEF KeyOf
  <1>11. PICK B \in [Nat -> Nat], E \in [Nat -> Nat] : B[0] = 0 /\ E[0] = IvSize
    <2>1. /\ [k \in Nat |-> 0] \in [Nat -> Nat] /\ [k \in Nat |-> 0][0] = 0
          /\ [k \in Nat |-> IvSize] \in [Nat -> Nat]
          /\ [k \in Nat |-> IvSize][0] = IvSize
      BY <1>8
    <2> QED
      BY <2>1, Zenon
  <1>12. Stream(B, E)
    <2>1. Frames(0, B, E)
      <3>1. 1 .. 0 = {}
        OBVIOUS
      <3> QED
        BY <1>11, <3>1, Zenon DEF Frames
    <2>2. Laid(<<>>, 0, protocol, 0, B, E)
      BY DEF Laid
    <2>3. EndOf(protocol, 0, B, E) = 0
      BY DEF EndOf
    <2>4. Len(wire) = 0 /\ 0 <= 0
      BY <1>2
    <2> QED
      BY <1>2, <1>11, <2>1, <2>2, <2>3, <2>4, Zenon DEF Stream
  <1>13. AuthReader(B, E)
    <2>1. Handed(<<>>, {}, 0)
      <3>1. Len(<<>>) = 0 /\ 1 .. 0 = {}
        OBVIOUS
      <3> QED
        BY <3>1, Zenon DEF Handed, LastOf
    <2>2. Counting(recv_id, packets, E, altered, taken, decryptor)
      BY <1>2 DEF Counting
    <2>3. recv_id - 1 = 0 /\ Len(recv_buffer) = 0 /\ 1 .. 0 = {}
      BY <1>2
    <2> QED
      BY <1>2, <1>11, <2>1, <2>2, <2>3, Zenon DEF AuthReader
  <1>14. OriginReader
    BY <1>2, Zenon DEF OriginReader
  <1>15. Placed(B, E)
    BY <1>12, <1>13, <1>14, Zenon DEF Placed
  <1>16. DownInv
    BY <1>9, <1>10, <1>15, Zenon DEF DownInv
  <1> QED
    BY <1>7, <1>16 DEF IInv

\* Every step keeps both ways in order.
LEMMA Step == IInv /\ [Next]_vars => IInv'
  <1> SUFFICES ASSUME UpInv, DownInv, [Next]_vars
               PROVE  UpInv' /\ DownInv'
    BY DEF IInv
  <1>1. protocol \in {"origin", "auth"} /\ sent \in Seq(Sending) /\ MaxWrites \in Nat
        /\ writes \in 0 .. MaxWrites
    BY SSRConnectionAssumption DEF UpInv, UpType, DownInv, DownType
  <1>2. CASE Handshake
    <2>1. /\ Send(TargetSize, TRUE) /\ sent = <<>> /\ TargetSize \in Nat \ {0}
          /\ UNCHANGED <<chosen, writes, downVars>>
      BY <1>2, SSRConnectionAssumption, Zenon DEF Handshake
    <2>2. UNCHANGED chosen /\ UNCHANGED <<chosen, downVars>> /\ writes' = writes
      BY <2>1
    <2>3. TRUE \in BOOLEAN /\ TRUE = (sent = <<>>)
      BY <2>1
    <2>4. UpInv'
      BY <2>1, <2>2, <2>3, SendKeeps, Zenon
    <2>5. DownInv'
      BY <1>1, <2>2, DownKept
    <2> QED
      BY <2>4, <2>5
  <1>3. CASE \E size \in WriteSizes : AsyncWrite(size)
    <2>1. PICK size \in WriteSizes : AsyncWrite(size)
      BY <1>3
    <2>2. /\ Send(size, FALSE) /\ sent # <<>> /\ writes < MaxWrites
          /\ writes' = writes + 1 /\ UNCHANGED <<chosen, downVars>>
      BY <2>1, Zenon DEF AsyncWrite
    <2>3. UNCHANGED chosen /\ size \in Nat \ {0} /\ writes' \in 0 .. MaxWrites
      BY <1>1, <2>2, SSRConnectionAssumption
    <2>4. FALSE \in BOOLEAN /\ FALSE = (sent = <<>>)
      BY <2>2
    <2>5. UpInv'
      BY <2>2, <2>3, <2>4, SendKeeps, Zenon
    <2>6. DownInv'
      BY <2>2, <2>3, DownKept
    <2> QED
      BY <2>5, <2>6
  <1>4. CASE \E size \in SendSizes : ServerSends(size)
    <2>1. UNCHANGED <<chosen, upVars>>
      BY <1>4 DEF ServerSends
    <2>2. DownInv'
      BY <1>1, <1>4, SendsKeeps
    <2> QED
      BY <2>1, <2>2, UpKept
  <1>5. CASE Cut \/ Alter
    <2>1. UNCHANGED <<chosen, upVars>>
      BY <1>5 DEF Cut, Alter
    <2>2. DownInv'
      BY <1>5, CutKeeps, AlterKeeps
    <2> QED
      BY <2>1, <2>2, UpKept
  <1>6. CASE Down
    <2>1. UNCHANGED <<chosen, upVars>>
      BY <1>6 DEF Down, AsyncReadSome, ReadHandler, ShortRead, ReadFails
    <2>2. DownInv'
      BY <1>1, <1>6, OnlyAsked, ReadKeeps, ShortKept, Zenon DEF Down
    <2> QED
      BY <2>1, <2>2, UpKept
  <1>7. CASE UNCHANGED vars
    <2>1. UNCHANGED <<chosen, upVars>> /\ UNCHANGED <<chosen, downVars>>
      BY <1>7 DEF vars
    <2>2. writes' = writes
      BY <2>1 DEF upVars
    <2> QED
      BY <1>1, <2>1, <2>2, UpKept, DownKept
  <1> QED
    BY <1>2, <1>3, <1>4, <1>5, <1>6, <1>7, Zenon DEF Next

\* Every reachable state is in order.
LEMMA Invariant == Spec => []IInv
  BY Start, Step, PTL DEF Spec

\* The gaps of what the caller has.
LEMMA GapsKnown == IInv => GapsOnlyWhereFull
  <1> SUFFICES ASSUME DownInv, UpType
               PROVE  GapsOnlyWhereFull
    BY DEF IInv, UpInv
  <1>1. got \in Seq(Nat) /\ DOMAIN got = 1 .. Len(got)
    BY LenProperties DEF DownInv, DownType
  <1>2. PICK B \in [Nat -> Nat], E \in [Nat -> Nat] : Placed(B, E)
    BY DEF DownInv
  <1>3. CASE protocol = "auth"
    <2>1. Handed(got, filled, B[recv_id - 1]) /\ "auth" # "origin"
      BY <1>2, <1>3, Zenon DEF Placed, AuthReader
    <2> QED
      BY <1>1, <1>3, <2>1, Zenon DEF Handed, GapsOnlyWhereFull
  <1>4. CASE protocol = "origin"
    <2>1. OriginReader
      BY <1>2, <1>4 DEF Placed
    <2>2. \A i \in 1 .. Len(got) : got[i] = i \/ (altered # 0 /\ got[i] = 0)
      <3>1. CASE decryptor = "none"
        <4>1. 1 .. Len(got) = {}
          BY <2>1, <3>1 DEF OriginReader
        <4> QED
          BY <4>1, Zenon
      <3>2. CASE decryptor # "none"
        BY <2>1, <3>2, Zenon DEF OriginReader
      <3> QED
        BY <3>1, <3>2
    <2> QED
      BY <1>1, <1>4, <2>2, Zenon DEF GapsOnlyWhereFull
  <1> QED
    BY <1>3, <1>4, Zenon DEF UpType

\* The last unit of a packet stands where the packet ends.
LEMMA LastUnit ==
    ASSUME NEW u, NEW i, NEW k, NEW n, NEW B, NEW E, n \in Nat, k \in 1 .. n,
           B \in [Nat -> Nat], E \in [Nat -> Nat], Frames(n, B, E), i = E[k],
           Belongs(u, i, "auth", n, B, E)
    PROVE  /\ u.data = DataOf(B, k) /\ u.at = PacketSize(u.data)
  <1>1. k \in Nat /\ k - 1 \in Nat /\ k - 1 <= n /\ k <= n /\ k - 1 <= k
    OBVIOUS
  <1>2. PICK p \in Nat, e \in Nat, z \in Nat :
          p = k - 1 /\ e = E[p] /\ z = PacketSize(DataOf(B, k)) /\ E[k] = e + z
    <2>1. PICK p \in Nat : p = k - 1
      BY <1>1
    <2>2. E[p] \in Nat
      BY <2>1
    <2>3. Sized(k, B, E)
      BY SizeOf, Zenon
    <2> QED
      BY <2>1, <2>2, <2>3, Zenon DEF Sized
  <1>3. IvSize \in Nat /\ E[0] = IvSize
    BY SSRConnectionAssumption DEF Frames
  <1>4. e < i /\ IvSize <= e
    <2>1. E[0] <= E[p]
      <3>1. 0 \in Nat /\ 0 <= p
        OBVIOUS
      <3> QED
        BY <1>1, <1>2, <3>1, InOrder
    <2>2. E[k] = E[k - 1] + (B[k] - B[k - 1]) + LengthSize + 2 /\ B[k - 1] < B[k]
      BY Zenon DEF Frames
    <2>3. PICK b \in Nat, c \in Nat, x \in Nat, y \in Nat :
            b = B[p] /\ c = B[k] /\ x = LengthSize /\ y = E[k]
      <3>1. B[p] \in Nat /\ B[k] \in Nat /\ E[k] \in Nat
        BY <1>1
      <3>2. LengthSize \in Nat
        BY SSRConnectionAssumption
      <3> QED
        BY <3>1, <3>2, Zenon
    <2>4. y = e + (c - b) + x + 2 /\ b < c
      BY <1>2, <2>2, <2>3, Zenon
    <2>5. e < y
      BY <2>4
    <2> QED
      BY <1>2, <1>3, <2>1, <2>3, <2>5, Zenon
  <1>5. i \in Nat /\ ~(i <= IvSize)
    BY <1>2, <1>3, <1>4
  <1>6. PICK l \in 1 .. n : \E a \in 1 .. i : OfPacket(u, i, l, a, n, B, E)
    BY <1>5, Zenon DEF Belongs
  <1>7. PICK a \in 1 .. i : OfPacket(u, i, l, a, n, B, E)
    BY <1>6
  <1>8. PICK q \in Nat, f \in Nat, g \in Nat :
          q = l - 1 /\ l = q + 1 /\ f = E[q] /\ g = E[l] /\ l \in Nat
    <2>1. PICK q \in Nat : q = l - 1 /\ l = q + 1 /\ l \in Nat
      BY <1>6
    <2>2. E[q] \in Nat /\ E[l] \in Nat
      BY <2>1
    <2> QED
      BY <2>1, <2>2, Zenon
  <1>9. a \in Nat \ {0} /\ i = f + a /\ i <= g /\ u = PacketUnit(B, l, a)
    BY <1>7, <1>8, Zenon DEF OfPacket
  <1>10. l = k
    <2>1. CASE l < k
      <3>1. l <= p /\ p <= n
        BY <1>1, <1>2, <1>8, <2>1
      <3>2. E[l] <= E[p]
        BY <1>8, <3>1, InOrder
      <3>3. g <= e
        BY <1>2, <1>8, <3>2, Zenon
      <3> QED
        BY <1>4, <1>5, <1>9, <3>3
    <2>2. CASE l > k
      <3>1. k <= q /\ q <= n
        BY <1>1, <1>6, <1>8, <2>2
      <3>2. E[k] <= E[q]
        BY <1>1, <3>1, InOrder
      <3>3. i <= f
        BY <1>8, <3>2, Zenon
      <3> QED
        BY <1>5, <1>9, <3>3
    <2> QED
      BY <1>1, <1>8, <2>1, <2>2
  <1>11. a = z
    <2>1. f = e
      BY <1>2, <1>8, <1>10, Zenon
    <2> QED
      BY <1>2, <1>9, <2>1
  <1>12. u.data = DataOf(B, k) /\ u.at = a
    <2>1. PacketUnit(B, l, a).data = DataOf(B, l) /\ PacketUnit(B, l, a).at = a
      BY DEF PacketUnit
    <2> QED
      BY <1>9, <1>10, <2>1, Zenon
  <1> QED
    BY <1>2, <1>11, <1>12, Zenon

\* What the caller has is of packets before the altered unit.
LEMMA NoneForged == IInv => NothingForged
  <1> SUFFICES ASSUME DownInv, protocol = "auth", altered # 0,
                      NEW i \in DOMAIN got
               PROVE  \E j \in DOMAIN wire :
                        /\ j < altered /\ wire[j].at = PacketSize(wire[j].data)
                        /\ \E k \in DOMAIN wire[j].data :
                                wire[j].data[k] = got[i]
    BY Zenon DEF IInv, NothingForged
  <1>1. PICK B \in [Nat -> Nat], E \in [Nat -> Nat] : Placed(B, E)
    BY DEF DownInv
  <1>2. AuthReader(B, E) /\ Frames(packets, B, E) /\ Laid(wire, altered, protocol, packets, B, E)
    BY <1>1, Zenon DEF Placed, Stream
  <1>3. /\ got \in Seq(Nat) /\ wire \in Seq(Unit) /\ altered \in Nat
        /\ packets \in Nat /\ recv_id \in Nat \ {0} /\ taken \in 0 .. Len(wire)
    BY DEF DownInv, DownType
  <1>4. /\ DOMAIN got = 1 .. Len(got) /\ DOMAIN wire = 1 .. Len(wire)
        /\ Len(wire) \in Nat /\ got # <<>>
    BY <1>3, LenProperties
  <1>5. PICK h \in Nat, top \in Nat, e \in Nat :
          h = recv_id - 1 /\ top = B[h] /\ e = E[h]
    <2>1. PICK h \in Nat : h = recv_id - 1
      BY <1>3
    <2>2. B[h] \in Nat /\ E[h] \in Nat
      BY <2>1
    <2> QED
      BY <2>1, <2>2, Zenon
  <1>6. decryptor = "right"
    BY <1>2, <1>4, Zenon DEF AuthReader
  <1>7. h <= packets /\ e <= taken /\ altered > e
    BY <1>2, <1>5, <1>6, Zenon DEF AuthReader, Counting
  <1>8. PICK v \in Nat : v = got[i] /\ v <= top /\ v # 0
    <2>1. Handed(got, filled, top)
      BY <1>2, <1>5, Zenon DEF AuthReader
    <2>2. got[i] <= top /\ got[i] > IF i = 1 THEN 0 ELSE got[i - 1]
      BY <1>4, <2>1, Zenon DEF Handed
    <2>3. got[i] \in Nat
      BY <1>3, <1>4, ElementOfSeq
    <2>4. (IF i = 1 THEN 0 ELSE got[i - 1]) \in Nat
      <3>1. CASE i = 1
        BY <3>1
      <3>2. CASE i # 1
        <4>1. i - 1 \in 1 .. Len(got)
          <5>1. i \in 1 .. Len(got) /\ Len(got) \in Nat
            BY <1>3, <1>4, LenProperties
          <5>2. PICK x \in Nat, y \in Nat : x = i /\ y = Len(got)
            BY <5>1
          <5>3. x \in 1 .. y /\ x # 1
            BY <3>2, <5>1, <5>2, Zenon
          <5>4. x - 1 \in 1 .. y
            BY <5>3
          <5> QED
            BY <5>2, <5>4, Zenon
        <4>2. got[i - 1] \in Nat
          BY <1>3, <4>1, ElementOfSeq
        <4> QED
          BY <3>2, <4>2, Zenon
      <3> QED
        BY <3>1, <3>2
    <2>5. PICK x \in Nat, y \in Nat :
            x = got[i] /\ y = (IF i = 1 THEN 0 ELSE got[i - 1])
      BY <2>3, <2>4, Zenon
    <2>6. x > y /\ x <= top
      BY <2>2, <2>5, Zenon
    <2>7. x # 0
      BY <2>6
    <2> QED
      BY <2>5, <2>6, <2>7, Zenon
  <1>9. PICK k \in Nat : /\ k <= h /\ v <= B[k]
                         /\ \A l \in Nat : l <= h /\ v <= B[l] => k <= l
    <2> DEFINE T == {l \in Nat : l <= h /\ v <= B[l]}
    <2>1. h \in T
      BY <1>5, <1>8
    <2>2. PICK k \in T : \A l \in T : k <= l
      <3>1. T \subseteq Nat /\ T # {}
        BY <2>1
      <3> HIDE DEF T
      <3> QED
        BY <3>1, LeastMember
    <2> QED
      BY <2>2
  <1>10. k # 0
    <2> SUFFICES ASSUME k = 0
                 PROVE  FALSE
      OBVIOUS
    <2>1. v <= 0
      BY <1>2, <1>9, Zenon DEF Frames
    <2> QED
      BY <1>8, <2>1
  <1>11. PICK p \in Nat : p = k - 1 /\ k \in 1 .. packets
    BY <1>3, <1>7, <1>9, <1>10
  <1>12. PICK lo \in Nat, hi \in Nat : lo = B[p] /\ hi = B[k] /\ lo < v /\ v <= hi
    <2>1. ~(v <= B[p])
      <3>1. p <= h /\ ~(k <= p)
        BY <1>9, <1>11
      <3> QED
        BY <1>9, <3>1, Zenon
    <2> QED
      BY <1>9, <2>1
  <1>13. PICK j \in Nat : j = E[k] /\ j <= e /\ IvSize <= j
    <2>1. E[k] <= E[h]
      BY <1>2, <1>3, <1>7, <1>9, InOrder
    <2>2. E[0] <= E[k]
      <3>1. 0 \in Nat /\ 0 <= k /\ k <= packets
        BY <1>11
      <3> QED
        BY <1>2, <1>3, <3>1, InOrder
    <2>3. E[0] = IvSize
      BY <1>2, Zenon DEF Frames
    <2>4. E[k] \in Nat
      OBVIOUS
    <2> QED
      BY <1>5, <2>1, <2>2, <2>3, <2>4, Zenon
  <1>14. j \in DOMAIN wire /\ j < altered
    <2>1. PICK a \in Nat, b \in Nat, c \in Nat, d \in Nat :
            a = IvSize /\ a # 0 /\ b = taken /\ c = Len(wire) /\ d = altered
      <3>1. IvSize \in Nat /\ IvSize # 0 /\ taken \in Nat
        BY <1>3, <1>4, SSRConnectionAssumption
      <3> QED
        BY <1>3, <1>4, <3>1, Zenon
    <2>2. b <= c
      BY <1>3, <1>4, <2>1
    <2>3. j <= e /\ a <= j /\ e <= b /\ d > e
      BY <1>7, <1>13, <2>1, Zenon
    <2>4. j \in 1 .. c /\ j < d
      BY <2>1, <2>2, <2>3
    <2> QED
      BY <1>4, <2>1, <2>4, Zenon
  <1>15. Belongs(wire[j], j, "auth", packets, B, E)
    <2>1. j # altered
      BY <1>3, <1>14
    <2> QED
      BY <1>2, <1>4, <1>14, <2>1, Zenon DEF Laid
  <1>16. wire[j].data = DataOf(B, k) /\ wire[j].at = PacketSize(wire[j].data)
    BY <1>2, <1>3, <1>11, <1>13, <1>15, LastUnit, Zenon
  <1>17. \E x \in DOMAIN DataOf(B, k) : DataOf(B, k)[x] = v
    <2>1. DataOf(B, k) = [x \in 1 .. hi - lo |-> lo + x]
      BY <1>11, <1>12, Zenon DEF DataOf
    <2>2. v - lo \in 1 .. hi - lo /\ lo + (v - lo) = v
      BY <1>12
    <2>3. /\ v - lo \in DOMAIN [x \in 1 .. hi - lo |-> lo + x]
          /\ [x \in 1 .. hi - lo |-> lo + x][v - lo] = v
      BY <2>2
    <2> QED
      BY <2>1, <2>3, Zenon
  <1> QED
    BY <1>8, <1>14, <1>16, <1>17, Zenon

\* The types of what the way up has sent.
LEMMA Types == IInv => TypeOK
  <1> SUFFICES ASSUME UpType, DownType
               PROVE  TypeOK
    BY DEF IInv, UpInv, DownInv
  <1>1. ASSUME NEW m \in DOMAIN sent
        PROVE  /\ {sent[m].header, sent[m].iv} \subseteq BOOLEAN
               /\ sent[m].at \in Nat
               /\ sent[m].parts \in Seq([kind : {"data", "auth", "packet"},
                                         id : Nat, rand : 0 .. 1460,
                                         from : Nat, to : Nat])
    <2>1. sent \in Seq(Sending) /\ m \in 1 .. Len(sent)
      BY LenProperties DEF UpType
    <2>2. PICK s \in Sending : s = sent[m]
      BY <2>1, ElementOfSeq
    <2>3. s.header \in BOOLEAN /\ s.iv \in BOOLEAN /\ s.at \in Nat /\ s.parts \in Seq(Span)
      BY DEF Sending
    <2>4. Span \subseteq PartOK
      BY DEF Span
    <2>5. s.parts \in Seq(PartOK)
      BY <2>3, <2>4
    <2>6. {s.header, s.iv} \subseteq BOOLEAN
      BY <2>3, Zenon
    <2>7. /\ {sent[m].header, sent[m].iv} \subseteq BOOLEAN
          /\ sent[m].at \in Nat /\ sent[m].parts \in Seq(PartOK)
      BY <2>2, <2>3, <2>5, <2>6, Zenon
    <2> QED
      BY <2>7 DEF PartOK, Rands
  <1> QED
    BY <1>1 DEF UpType, DownType, TypeOK

-----------------------------------------------------------------------------

\* Every variable keeps the values its type names; what is left in recv_buffer_
\* after a read is shorter than a packet may be.
THEOREM TypeCorrect == Spec => []TypeOK
  BY Invariant, Types, PTL

\* The server can make sense of all that the handshake and async_write send.
THEOREM ServerMakesSense == Spec => []ServerUnderstands
  <1>1. IInv => ServerUnderstands
    BY UpUnderstood DEF IInv
  <1> QED
    BY Invariant, <1>1, PTL

\* async_read_some hands out the data in order and once, with gaps only where a
\* read has filled the caller's buffer, and with origin with none.
THEOREM InOrderAndOnce == Spec => []GapsOnlyWhereFull
  BY Invariant, GapsKnown, PTL

\* With auth_aes128_sha1 only data of packets before the first altered unit
\* reaches the caller.
THEOREM OnlyAuthentic == Spec => []NothingForged
  BY Invariant, NoneForged, PTL

=============================================================================
