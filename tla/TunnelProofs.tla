---------------------------- MODULE TunnelProofs ----------------------------
(***************************************************************************)
(* What holds of the parts that stand beside a connection's own session:   *)
(* the API and the log, for any number of viewers and of lines; the        *)
(* tunnel's routing, for every configuration, nesting of groups and        *)
(* sequence of dials; the resolver, for every host name, list of records   *)
(* and altered byte.                                                       *)
(***************************************************************************)
EXTENDS Control, Routing, Resolver, SequenceLemmas, FiniteSetTheorems

-----------------------------------------------------------------------------
\* The API's sessions and the subscribers of the log.

\* What may be written: at least one piece.
Chunks == Seq(Nat \X Nat) \ {<<>>}

\* The strengthening: types, and who is alive.
IInv == TypeOK /\ OnlyTheLiving

\* A line is chunked into pieces.
LEMMA ChunkType == ASSUME NEW i \in Nat PROVE Chunk(i) \in Chunks
  BY DEF Chunk, Chunks, Pieces

\* After keeps the invariant, whatever its handler leaves pending.
LEMMA AfterInv ==
    ASSUME IInv,
           NEW v \in Viewers, NEW o \in Steps, NEW subscribed \in BOOLEAN,
           NEW ps \in Seq(Nat), NEW ws \in Seq(Chunks),
           After(v, o, subscribed, ps, ws)
    PROVE  /\ life' \in [Viewers -> {"unborn", "alive", "gone"}]
           /\ op' \in [Viewers -> Steps]
           /\ subscribers' \in SUBSET Viewers
           /\ posted' \in [Viewers -> Seq(Nat)]
           /\ writes' \in [Viewers -> Seq(Chunks)]
           /\ OnlyTheLiving'
  <1>1. /\ life \in [Viewers -> {"unborn", "alive", "gone"}]
        /\ op \in [Viewers -> Steps] /\ subscribers \in SUBSET Viewers
        /\ posted \in [Viewers -> Seq(Nat)] /\ writes \in [Viewers -> Seq(Chunks)]
    BY DEF IInv, TypeOK, Chunks
  <1> DEFINE held == Held(o, subscribed, ps, ws)
  <1>2. /\ op' = [op EXCEPT ![v] = o]
        /\ posted' = [posted EXCEPT ![v] = ps]
        /\ writes' = [writes EXCEPT ![v] = ws]
        /\ life' = [life EXCEPT ![v] = IF held THEN "alive" ELSE "gone"]
        /\ subscribers' = IF subscribed /\ held THEN subscribers \cup {v}
                                                ELSE subscribers \ {v}
    BY DEF After
  <1>3. held <=> (o # "none" \/ subscribed \/ ps # <<>> \/ ws # <<>>)
    BY DEF Held
  <1> HIDE DEF held
  <1>4. OnlyTheLiving'
    <2> SUFFICES ASSUME NEW u \in Viewers
                 PROVE  (u \in subscribers' \/ op'[u] # "none" \/ posted'[u] # <<>>
                           \/ writes'[u] # <<>>) <=> life'[u] = "alive"
      BY DEF OnlyTheLiving
    <2>1. CASE u = v
      BY <1>1, <1>2, <1>3, <2>1
    <2>2. CASE u # v
      <3>1. (u \in subscribers \/ op[u] # "none" \/ posted[u] # <<>>
               \/ writes[u] # <<>>) <=> life[u] = "alive"
        BY DEF IInv, OnlyTheLiving
      <3>2. QED
        BY <1>1, <1>2, <2>2, <3>1
    <2>3. QED
      BY <2>1, <2>2
  <1>5. QED
    BY <1>1, <1>2, <1>4

\* A handler of a log line leaves v's step and its subscription as they are.
LEMMA LineInv ==
    ASSUME IInv, NEW v \in Viewers, NEW ps \in Seq(Nat), NEW ws \in Seq(Chunks),
           After(v, op[v], v \in subscribers, ps, ws),
           UNCHANGED <<peer, target, lines, since>>,
           socket' \in [Viewers -> {"open", "closed"}],
           received' \in [Viewers -> Seq(Nat \X Nat)]
    PROVE  IInv'
  <1>1. op[v] \in Steps
    BY DEF IInv, TypeOK
  <1>2. \E subscribed \in BOOLEAN : subscribed = (v \in subscribers)
    <2>1. CASE v \in subscribers
      <3>1. TRUE = (v \in subscribers)
        BY <2>1
      <3>2. QED
        BY <3>1, Zenon
    <2>2. CASE v \notin subscribers
      <3>1. FALSE = (v \in subscribers)
        BY <2>2
      <3>2. QED
        BY <3>1, Zenon
    <2>3. QED
      BY <2>1, <2>2
  <1>3. PICK subscribed \in BOOLEAN : After(v, op[v], subscribed, ps, ws)
    BY <1>2, Zenon
  <1>4. /\ life' \in [Viewers -> {"unborn", "alive", "gone"}]
        /\ op' \in [Viewers -> Steps]
        /\ subscribers' \in SUBSET Viewers
        /\ posted' \in [Viewers -> Seq(Nat)]
        /\ writes' \in [Viewers -> Seq(Chunks)]
        /\ OnlyTheLiving'
    BY <1>1, <1>3, AfterInv
  <1>5. QED
    BY <1>4 DEF IInv, TypeOK, Chunks

\* Step leaves the posted lines and the writes as they are.
LEMMA StepInv ==
    ASSUME IInv, NEW v \in Viewers, NEW o \in Steps, NEW subscribed \in BOOLEAN,
           Step(v, o, subscribed),
           UNCHANGED <<peer, received, lines>>,
           socket' \in [Viewers -> {"open", "closed"}],
           target' \in [Viewers -> Nat], since' \in [Viewers -> Nat]
    PROVE  IInv'
  <1>1. posted[v] \in Seq(Nat) /\ writes[v] \in Seq(Chunks)
    BY DEF IInv, TypeOK, Chunks
  <1>2. After(v, o, subscribed, posted[v], writes[v])
    BY DEF Step
  <1>3. /\ life' \in [Viewers -> {"unborn", "alive", "gone"}]
        /\ op' \in [Viewers -> Steps]
        /\ subscribers' \in SUBSET Viewers
        /\ posted' \in [Viewers -> Seq(Nat)]
        /\ writes' \in [Viewers -> Seq(Chunks)]
        /\ OnlyTheLiving'
    BY <1>1, <1>2, AfterInv
  <1>4. QED
    BY <1>3 DEF IInv, TypeOK, Chunks

-----------------------------------------------------------------------------
(* The handlers. *)

\* The actions keep it: a session is accepted,
LEMMA AcceptInv == ASSUME IInv, NEW v \in Viewers, Accept(v) PROVE IInv'
  BY StepInv DEF Accept, Steps, IInv, TypeOK

\* its request is read,
LEMMA ReadDoneInv == ASSUME IInv, NEW v \in Viewers, ReadDone(v) PROVE IInv'
  <1>1. target' \in [Viewers -> Nat]
    <2>1. target \in [Viewers -> Nat]
      BY DEF IInv, TypeOK
    <2>2. target' = target \/ \E n \in Levels \cup {currentLevel + 1} :
              target' = [target EXCEPT ![v] = n]
      BY DEF ReadDone
    <2>3. Levels \cup {currentLevel + 1} \subseteq Nat
      BY ControlAssumption
    <2>4. QED
      BY <2>1, <2>2, <2>3
  <1>2. \E o \in Steps : Step(v, o, FALSE)
    BY DEF ReadDone, Steps
  <1>3. QED
    BY <1>1, <1>2, StepInv DEF ReadDone, IInv, TypeOK

\* a step of it ends,
LEMMA StepDoneInv == ASSUME IInv, NEW v \in Viewers, StepDone(v) PROVE IInv'
  <1>1. Follows(op[v]) \in Steps
    BY DEF Follows, Steps
  <1>2. Len(lines) \in Nat
    BY DEF IInv, TypeOK
  <1>3. since' \in [Viewers -> Nat]
    BY <1>2 DEF StepDone, IInv, TypeOK
  <1>4. QED
    BY <1>1, <1>3, StepInv DEF StepDone, IInv, TypeOK

\* or fails;
LEMMA StepFailsInv == ASSUME IInv, NEW v \in Viewers, StepFails(v) PROVE IInv'
  BY StepInv DEF StepFails, Steps, IInv, TypeOK

\* Only subscribers are called, and those are alive.
LEMMA LogLineInv == ASSUME IInv, NEW level \in Levels, LogLine(level) PROVE IInv'
  <1>1. lines' \in Seq(Levels) /\ Len(lines') \in Nat
    BY DEF LogLine, IInv, TypeOK
  <1>2. posted' \in [Viewers -> Seq(Nat)]
    BY <1>1 DEF LogLine, IInv, TypeOK
  <1>3. \A u \in Viewers : u \notin subscribers => posted'[u] = posted[u]
    BY DEF LogLine
  <1>4. OnlyTheLiving'
    BY <1>3 DEF LogLine, IInv, TypeOK, OnlyTheLiving, sessionVars
  <1>5. QED
    BY <1>1, <1>2, <1>4 DEF LogLine, IInv, TypeOK, sessionVars

\* a posted line is handed to the socket,
LEMMA PostedRunsInv == ASSUME IInv, NEW v \in Viewers, PostedRuns(v) PROVE IInv'
  <1>1. /\ posted[v] \in Seq(Nat) /\ posted[v] # <<>>
        /\ writes[v] \in Seq(Chunks) /\ op[v] \in Steps
    BY DEF PostedRuns, IInv, TypeOK, Chunks
  <1>2. Tail(posted[v]) \in Seq(Nat) /\ Head(posted[v]) \in Nat
    BY <1>1
  <1>3. Append(writes[v], Chunk(Head(posted[v]))) \in Seq(Chunks)
    BY <1>1, <1>2, ChunkType
  <1>4. After(v, op[v], v \in subscribers, Tail(posted[v]),
              Append(writes[v], Chunk(Head(posted[v]))))
    BY DEF PostedRuns
  <1>5. QED
    BY <1>2, <1>3, <1>4, LineInv DEF PostedRuns, IInv, TypeOK

\* which takes it or a part of it,
LEMMA WriteDoneInv == ASSUME IInv, NEW v \in Viewers, WriteDone(v) PROVE IInv'
  <1> DEFINE chunk == Head(writes[v])
  <1>1. /\ writes[v] \in Seq(Chunks) /\ writes[v] # <<>>
        /\ posted[v] \in Seq(Nat) /\ op[v] \in Steps
        /\ received \in [Viewers -> Seq(Nat \X Nat)]
    BY DEF WriteDone, IInv, TypeOK, Chunks
  <1>2. chunk \in Seq(Nat \X Nat) /\ Tail(writes[v]) \in Seq(Chunks)
    BY <1>1 DEF Chunks
  <1>3. PICK n \in 1 .. Len(chunk) :
            /\ received' = [received EXCEPT ![v] = @ \o SubSeq(chunk, 1, n)]
            /\ After(v, op[v], v \in subscribers, posted[v],
                     Rest(writes[v], SubSeq(chunk, n + 1, Len(chunk))))
    BY DEF WriteDone
  <1> DEFINE rest == SubSeq(chunk, n + 1, Len(chunk))
  <1> HIDE DEF chunk
  <1>4. SubSeq(chunk, 1, n) \in Seq(Nat \X Nat) /\ rest \in Seq(Nat \X Nat)
    <2>1. Len(chunk) \in Nat
      BY <1>2
    <2>2. n \in Nat /\ n <= Len(chunk)
      BY <2>1
    <2> QED
      BY <1>2, <2>1, <2>2, PrefixType, RestType
  <1> HIDE DEF rest
  <1>5. Rest(writes[v], rest) \in Seq(Chunks)
    BY <1>2, <1>4 DEF Rest, Chunks
  <1>6. received' \in [Viewers -> Seq(Nat \X Nat)]
    BY <1>1, <1>3, <1>4
  <1>7. After(v, op[v], v \in subscribers, posted[v], Rest(writes[v], rest))
    BY <1>3 DEF rest
  <1>8. QED
    BY <1>1, <1>5, <1>6, <1>7, LineInv DEF WriteDone, IInv, TypeOK

\* or fails;
LEMMA WriteFailsInv == ASSUME IInv, NEW v \in Viewers, WriteFails(v) PROVE IInv'
  <1>1. /\ writes[v] \in Seq(Chunks) /\ writes[v] # <<>>
        /\ posted[v] \in Seq(Nat) /\ op[v] \in Steps
    BY DEF WriteFails, IInv, TypeOK, Chunks
  <1>2. Tail(writes[v]) \in Seq(Chunks)
    BY <1>1
  <1>3. After(v, op[v], v \in subscribers, posted[v], Tail(writes[v]))
    BY DEF WriteFails
  <1>4. socket' \in [Viewers -> {"open", "closed"}]
    BY DEF WriteFails, IInv, TypeOK
  <1>5. QED
    BY <1>1, <1>2, <1>3, <1>4, LineInv DEF WriteFails, IInv, TypeOK

\* the viewer leaves.
LEMMA LeaveInv == ASSUME IInv, NEW v \in Viewers, Leave(v) PROVE IInv'
  BY DEF Leave, IInv, TypeOK, OnlyTheLiving, sessionVars

-----------------------------------------------------------------------------

\* The invariant is inductive: every handler ends in After, or in a call of
\* the log that reaches subscribers only.
THEOREM Lifetime == Spec => []IInv
  <1>1. Init => IInv
    BY ControlAssumption DEF Init, IInv, TypeOK, OnlyTheLiving, Steps
  <1>2. IInv /\ [Next]_vars => IInv'
    <2> SUFFICES ASSUME IInv, [Next]_vars PROVE IInv'
      OBVIOUS
    <2>1. CASE UNCHANGED vars
      BY <2>1 DEF vars, sessionVars, IInv, TypeOK, OnlyTheLiving
    <2>2. ASSUME NEW v \in Viewers, Accept(v) PROVE IInv'
      BY <2>2, AcceptInv
    <2>3. ASSUME NEW v \in Viewers, ReadDone(v) PROVE IInv'
      BY <2>3, ReadDoneInv
    <2>4. ASSUME NEW v \in Viewers, StepDone(v) PROVE IInv'
      BY <2>4, StepDoneInv
    <2>5. ASSUME NEW v \in Viewers, StepFails(v) PROVE IInv'
      BY <2>5, StepFailsInv
    <2>6. ASSUME NEW v \in Viewers, PostedRuns(v) PROVE IInv'
      BY <2>6, PostedRunsInv
    <2>7. ASSUME NEW v \in Viewers, WriteDone(v) PROVE IInv'
      BY <2>7, WriteDoneInv
    <2>8. ASSUME NEW v \in Viewers, WriteFails(v) PROVE IInv'
      BY <2>8, WriteFailsInv
    <2>9. ASSUME NEW v \in Viewers, Leave(v) PROVE IInv'
      BY <2>9, LeaveInv
    <2>10. ASSUME NEW level \in Levels, LogLine(level) PROVE IInv'
      BY <2>10, LogLineInv
    <2>11. QED
      BY <2>1, <2>2, <2>3, <2>4, <2>5, <2>6, <2>7, <2>8, <2>9, <2>10 DEF Next
  <1>3. QED
    BY <1>1, <1>2, PTL DEF Spec

\* Every variable of the API's sessions and of the log keeps its type.
THEOREM TypeCorrect == Spec => []TypeOK
  <1>1. IInv => TypeOK
    BY DEF IInv
  <1>2. QED
    BY <1>1, Lifetime, PTL

\* The log calls back, and handlers run on, sessions that exist only.
THEOREM OnlyTheLivingAreCalled == Spec => []OnlyTheLiving
  <1>1. IInv => OnlyTheLiving
    BY DEF IInv
  <1>2. QED
    BY <1>1, Lifetime, PTL

-----------------------------------------------------------------------------
(* What a viewer is owed, and what flows to it. *)

Piece == Nat \X Nat

\* The chunks of the lines p.
ChunksOf(p) == [i \in DOMAIN p |-> Chunk(p[i])]

\* What has been got, what is being written and what is posted.
FlowOf(r, w, p) == r \o FlattenSeq(w) \o FlattenSeq(ChunksOf(p))

\* Typed so, they are such.
FlowTypes(r, w, p) == r \in Seq(Piece) /\ w \in Seq(Seq(Piece)) /\ p \in Seq(Nat)

\* The flow is what is owed.
Right(v, flow, owed) ==
    /\ ToSet(flow) = owed /\ IsInjective(flow)
    /\ v \notin Slow => InOrder(flow)

OwedOf(from, printed, level) ==
    {i \in from + 1 .. Len(printed) :
        printed[i] >= currentLevel /\ printed[i] >= level} \X (1 .. Pieces)

Accounted(v) ==
    socket[v] = "open" =>
        Right(v, FlowOf(received[v], writes[v], posted[v]),
                 OwedOf(since[v], lines, target[v]))

\* Nothing flows to a viewer that has not subscribed, and one that has takes no
\* other step.
Fresh(v) ==
    /\ (life[v] = "unborn" \/ op[v] # "none")
         => received[v] = <<>> /\ posted[v] = <<>> /\ writes[v] = <<>>
    /\ v \in subscribers => op[v] = "none" /\ since[v] <= Len(lines)

Good(v) == Fresh(v) /\ (v \in subscribers => Accounted(v))

\* A piece of a line.
LEMMA ChunkIs ==
    ASSUME NEW i \in Nat
    PROVE  /\ Chunk(i) \in Seq(Piece)
           /\ Chunk(i) = << <<i, 1>>, <<i, 2>> >>
  BY DEF Chunk, Pieces, Piece

\* The chunks of lines are sequences of pieces.
LEMMA ChunksType ==
    ASSUME NEW p \in Seq(Nat)
    PROVE  ChunksOf(p) \in Seq(Seq(Piece)) /\ Len(ChunksOf(p)) = Len(p)
  <1>1. PICK n \in Nat : n = Len(p) /\ DOMAIN p = 1 .. n
    OBVIOUS
  <1>2. \A i \in 1 .. n : Chunk(p[i]) \in Seq(Piece)
    <2> SUFFICES ASSUME NEW i \in 1 .. n PROVE Chunk(p[i]) \in Seq(Piece)
      OBVIOUS
    <2>1. PICK k \in Nat : k = p[i]
      BY <1>1
    <2>2. Chunk(k) \in Seq(Piece)
      BY ChunkIs
    <2> QED
      BY <2>1, <2>2, Zenon
  <1>3. ChunksOf(p) \in [1 .. n -> Seq(Piece)]
    BY <1>1, <1>2, Zenon DEF ChunksOf
  <1> QED
    BY <1>1, <1>3, FunctionIsSeq

\* One more line, one more chunk.
LEMMA ChunksAppend ==
    ASSUME NEW p \in Seq(Nat), NEW n \in Nat
    PROVE  ChunksOf(Append(p, n)) = Append(ChunksOf(p), Chunk(n))
  <1>1. PICK q \in Seq(Nat), m \in Nat :
            /\ q = Append(p, n) /\ m = Len(p) /\ Len(q) = m + 1
            /\ q[m + 1] = n /\ \A i \in 1 .. m : q[i] = p[i]
    <2>1. PICK q \in Seq(Nat), m \in Nat : q = Append(p, n) /\ m = Len(p)
      <3>1. Append(p, n) \in Seq(Nat) /\ Len(p) \in Nat
        OBVIOUS
      <3> QED
        BY <3>1, Zenon
    <2>2. /\ Len(q) = m + 1 /\ q[m + 1] = n
          /\ \A i \in 1 .. m : q[i] = p[i]
      BY <2>1, AppendProperties
    <2> QED
      BY <2>1, <2>2, Zenon
  <1>2. PICK c \in Seq(Seq(Piece)) : c = ChunksOf(p) /\ Len(c) = m
    BY <1>1, ChunksType
  <1>3. PICK k \in Seq(Piece) : k = Chunk(n)
    BY ChunkIs
  <1>4. PICK d \in Seq(Seq(Piece)) : d = ChunksOf(q) /\ Len(d) = m + 1
    BY <1>1, ChunksType
  <1>5. \A i \in 1 .. m + 1 : d[i] = Append(c, k)[i]
    <2> SUFFICES ASSUME NEW i \in 1 .. m + 1 PROVE d[i] = Append(c, k)[i]
      OBVIOUS
    <2>1. d[i] = Chunk(q[i])
      <3>1. i \in DOMAIN q
        BY <1>1
      <3> QED
        BY <1>4, <3>1, Zenon DEF ChunksOf
    <2>2. CASE i \in 1 .. m
      <3>1. i \in DOMAIN p /\ i \in 1 .. Len(c)
        BY <1>1, <1>2, <2>2
      <3>2. c[i] = Chunk(p[i])
        BY <1>2, <3>1, Zenon DEF ChunksOf
      <3>3. Append(c, k)[i] = c[i]
        BY <3>1, AppendProperties
      <3> QED
        BY <1>1, <2>1, <2>2, <3>2, <3>3, Zenon
    <2>3. CASE i = m + 1
      <3>1. Append(c, k)[Len(c) + 1] = k
        BY AppendProperties
      <3> QED
        BY <1>1, <1>2, <1>3, <2>1, <2>3, <3>1, Zenon
    <2>4. i \in 1 .. m \/ i = m + 1
      OBVIOUS
    <2> QED
      BY <2>2, <2>3, <2>4, Zenon
  <1>6. Append(c, k) \in Seq(Seq(Piece)) /\ Len(Append(c, k)) = m + 1
    BY <1>2
  <1>7. d = Append(c, k)
    BY <1>4, <1>5, <1>6, SeqEqual
  <1> QED
    BY <1>1, <1>2, <1>3, <1>4, <1>7, Zenon

\* Without the first line, without the first chunk.
LEMMA ChunksTail ==
    ASSUME NEW p \in Seq(Nat), p # <<>>
    PROVE  /\ ChunksOf(p) # <<>> /\ Head(ChunksOf(p)) = Chunk(Head(p))
           /\ Tail(ChunksOf(p)) = ChunksOf(Tail(p))
  <1>1. PICK q \in Seq(Nat), m \in Nat :
            /\ q = Tail(p) /\ m = Len(q) /\ Len(p) = m + 1
            /\ \A i \in 1 .. m : q[i] = p[i + 1]
    <2>1. /\ Tail(p) \in Seq(Nat) /\ Len(Tail(p)) = Len(p) - 1
          /\ \A i \in 1 .. Len(Tail(p)) : Tail(p)[i] = p[i + 1]
      BY HeadTailProperties
    <2>2. PICK q \in Seq(Nat) : q = Tail(p)
      BY <2>1, Zenon
    <2>3. PICK m \in Nat : m = Len(q) /\ Len(p) = m + 1
      <3>1. PICK l \in Nat, m \in Nat : l = Len(p) /\ m = Len(q)
        OBVIOUS
      <3>2. m = l - 1
        BY <2>1, <2>2, <3>1, Zenon
      <3>3. l = m + 1
        BY <3>2
      <3> QED
        BY <3>1, <3>3, Zenon
    <2> QED
      BY <2>1, <2>2, <2>3, Zenon
  <1>2. PICK c \in Seq(Seq(Piece)) : c = ChunksOf(p) /\ Len(c) = m + 1
    BY <1>1, ChunksType
  <1>3. PICK d \in Seq(Seq(Piece)) : d = ChunksOf(q) /\ Len(d) = m
    BY <1>1, ChunksType
  <1>4. \A i \in 1 .. m + 1 : c[i] = Chunk(p[i])
    <2>1. \A i \in 1 .. m + 1 : i \in DOMAIN p
      BY <1>1
    <2> QED
      BY <1>2, <2>1, Zenon DEF ChunksOf
  <1>5. \A i \in 1 .. m : d[i] = Chunk(q[i])
    <2>1. \A i \in 1 .. m : i \in DOMAIN q
      BY <1>1
    <2> QED
      BY <1>3, <2>1, Zenon DEF ChunksOf
  <1>6. c # <<>> /\ Head(c) = c[1]
    BY <1>2
  <1>7. Head(p) = p[1] /\ 1 \in 1 .. m + 1
    BY <1>1
  <1>8. Tail(c) = d
    <2>1. /\ Tail(c) \in Seq(Seq(Piece)) /\ Len(Tail(c)) = m
          /\ \A i \in 1 .. m : Tail(c)[i] = c[i + 1]
      BY <1>2, <1>6, HeadTailProperties
    <2>2. \A i \in 1 .. m : d[i] = Tail(c)[i]
      <3> SUFFICES ASSUME NEW i \in 1 .. m PROVE d[i] = Tail(c)[i]
        OBVIOUS
      <3>1. i + 1 \in 1 .. m + 1
        OBVIOUS
      <3> QED
        BY <1>1, <1>4, <1>5, <2>1, <3>1, Zenon
    <2> QED
      BY <1>3, <2>1, <2>2, SeqEqual
  <1> QED
    BY <1>1, <1>2, <1>3, <1>4, <1>6, <1>7, <1>8, Zenon

\* The three parts of a flow are sequences of pieces.
LEMMA FlowParts ==
    ASSUME NEW r, NEW w, NEW p, FlowTypes(r, w, p)
    PROVE  /\ r \in Seq(Piece) /\ FlattenSeq(w) \in Seq(Piece)
           /\ FlattenSeq(ChunksOf(p)) \in Seq(Piece)
           /\ FlowOf(r, w, p) \in Seq(Piece)
  <1>1. r \in Seq(Piece) /\ w \in Seq(Seq(Piece)) /\ p \in Seq(Nat)
    BY DEF FlowTypes
  <1>2. FlattenSeq(w) \in Seq(Piece)
    BY <1>1, FlattenType
  <1>3. ChunksOf(p) \in Seq(Seq(Piece))
    BY <1>1, ChunksType
  <1>4. FlattenSeq(ChunksOf(p)) \in Seq(Piece)
    BY <1>3, FlattenType
  <1>5. PICK x \in Seq(Piece), y \in Seq(Piece) :
            x = FlattenSeq(w) /\ y = FlattenSeq(ChunksOf(p))
    BY <1>2, <1>4, Zenon
  <1>6. r \o x \in Seq(Piece)
    BY <1>1, ConcatProperties
  <1>7. r \o x \o y \in Seq(Piece)
    BY <1>6, ConcatProperties
  <1>8. FlowOf(r, w, p) \in Seq(Piece)
    BY <1>5, <1>7, Zenon DEF FlowOf
  <1> QED
    BY <1>1, <1>2, <1>4, <1>8, Zenon

\* Nothing flows yet.
LEMMA FlowNone == FlowOf(<<>>, <<>>, <<>>) = <<>>
  <1>1. ChunksOf(<<>>) = <<>>
    BY DEF ChunksOf
  <1>2. <<>> \o <<>> \o <<>> = <<>>
    OBVIOUS
  <1> QED
    BY <1>1, <1>2, FlattenEmpty, Zenon DEF FlowOf

\* A line that is posted goes behind all.
LEMMA FlowLine ==
    ASSUME NEW r, NEW w, NEW p, NEW n \in Nat, FlowTypes(r, w, p)
    PROVE  FlowOf(r, w, Append(p, n)) = FlowOf(r, w, p) \o Chunk(n)
  <1>1. p \in Seq(Nat) /\ ChunksOf(p) \in Seq(Seq(Piece)) /\ Chunk(n) \in Seq(Piece)
    BY ChunksType, ChunkIs DEF FlowTypes
  <1>2. PICK s \in Seq(Seq(Piece)), c \in Seq(Piece) : s = ChunksOf(p) /\ c = Chunk(n)
    BY <1>1, Zenon
  <1>3. FlattenSeq(Append(s, c)) = FlattenSeq(s) \o c
    BY FlattenAppend
  <1>4. ChunksOf(Append(p, n)) = Append(s, c)
    BY <1>1, <1>2, ChunksAppend, Zenon
  <1>5. PICK x, y : x = r \o FlattenSeq(w) /\ y = FlattenSeq(s)
    OBVIOUS
  <1>6. x \in Seq(Piece) /\ y \in Seq(Piece)
    <2>1. PICK a \in Seq(Piece), b \in Seq(Piece) : a = r /\ b = FlattenSeq(w)
      BY FlowParts, Zenon
    <2>2. a \o b \in Seq(Piece)
      BY ConcatProperties
    <2>3. y \in Seq(Piece)
      BY <1>2, <1>5, FlowParts, Zenon
    <2> QED
      BY <1>5, <2>1, <2>2, <2>3, Zenon
  <1>7. Cat(Cat(x, y), c) = Cat(x, Cat(y, c))
    BY <1>6, Associative
  <1> QED
    BY <1>2, <1>3, <1>4, <1>5, <1>7, Zenon DEF FlowOf, Cat

\* A posted line that is written now keeps its place.
LEMMA FlowPosted ==
    ASSUME NEW r, NEW w, NEW p, FlowTypes(r, w, p), p # <<>>
    PROVE  /\ FlowTypes(r, Append(w, Chunk(Head(p))), Tail(p))
           /\ FlowOf(r, Append(w, Chunk(Head(p))), Tail(p)) = FlowOf(r, w, p)
  <1>1. p \in Seq(Nat) /\ w \in Seq(Seq(Piece)) /\ r \in Seq(Piece)
    BY DEF FlowTypes
  <1>2. PICK n \in Nat, q \in Seq(Nat) : n = Head(p) /\ q = Tail(p)
    BY <1>1, HeadTailProperties
  <1>3. PICK c \in Seq(Piece) : c = Chunk(n)
    BY ChunkIs
  <1>4. Append(w, c) \in Seq(Seq(Piece))
    BY <1>1
  <1>5. FlowTypes(r, Append(w, c), q)
    BY <1>1, <1>4, Zenon DEF FlowTypes
  <1>6. PICK s \in Seq(Seq(Piece)) : s = ChunksOf(p) /\ s # <<>>
                                     /\ Head(s) = c /\ Tail(s) = ChunksOf(q)
    <2>1. ChunksOf(p) \in Seq(Seq(Piece))
      BY <1>1, ChunksType
    <2>2. /\ ChunksOf(p) # <<>> /\ Head(ChunksOf(p)) = Chunk(Head(p))
          /\ Tail(ChunksOf(p)) = ChunksOf(Tail(p))
      BY <1>1, ChunksTail
    <2> QED
      BY <1>2, <1>3, <2>1, <2>2, Zenon
  <1>7. FlattenSeq(s) = c \o FlattenSeq(Tail(s))
    BY <1>6, FlattenCons, Zenon
  <1>8. FlattenSeq(Append(w, c)) = FlattenSeq(w) \o c
    BY <1>1, FlattenAppend
  <1>9. PICK x \in Seq(Piece), y \in Seq(Piece) :
            x = FlattenSeq(w) /\ y = FlattenSeq(ChunksOf(q))
    BY <1>5, FlowParts, FlattenType, <1>1
  <1>10. r \o (x \o c) \o y = r \o x \o (c \o y)
    <2>1. Cat(r, Cat(x, c)) = Cat(Cat(r, x), c)
      BY <1>1, Associative
    <2>2. Cat(r, x) \in Seq(Piece)
      BY <1>1, ConcatProperties DEF Cat
    <2>3. Cat(Cat(Cat(r, x), c), y) = Cat(Cat(r, x), Cat(c, y))
      BY <2>2, Associative
    <2> QED
      BY <2>1, <2>3, Zenon DEF Cat
  <1>11. FlowOf(r, Append(w, c), q) = FlowOf(r, w, p)
    BY <1>6, <1>7, <1>8, <1>9, <1>10, Zenon DEF FlowOf
  <1> QED
    BY <1>2, <1>3, <1>5, <1>11, Zenon

\* The first write is a and b.
FirstIs(w, a, b) ==
    w # <<>> /\ a \in Seq(Piece) /\ b \in Seq(Piece) /\ Head(w) = a \o b

\* The flow before a is taken of it, when all is taken, and when b is left.
Taken(r, w, p, a, b) ==
    \E t \in Seq(Seq(Piece)), x \in Seq(Piece), y \in Seq(Piece) :
        /\ t = Tail(w)
        /\ FlowOf(r, w, p) = r \o a \o b \o x \o y
        /\ FlowOf(r \o a, t, p) = r \o a \o x \o y
        /\ FlowOf(r \o a, Append(t, b), p) = r \o a \o x \o b \o y

\* What is taken of the first write: a of it, and b is left.
LEMMA FlowFirst ==
    ASSUME NEW r, NEW w, NEW p, NEW a, NEW b, FlowTypes(r, w, p), FirstIs(w, a, b)
    PROVE  Taken(r, w, p, a, b)
  <1>1. /\ p \in Seq(Nat) /\ w \in Seq(Seq(Piece)) /\ r \in Seq(Piece)
        /\ a \in Seq(Piece) /\ b \in Seq(Piece) /\ w # <<>> /\ Head(w) = a \o b
    BY DEF FlowTypes, FirstIs
  <1>2. PICK t \in Seq(Seq(Piece)) : t = Tail(w)
    BY <1>1, HeadTailProperties
  <1>3. PICK x \in Seq(Piece), y \in Seq(Piece) :
            x = FlattenSeq(t) /\ y = FlattenSeq(ChunksOf(p))
    <2>1. FlattenSeq(t) \in Seq(Piece)
      BY FlattenType
    <2> QED
      BY <2>1, FlowParts, Zenon
  <1>4. FlattenSeq(w) = a \o b \o x
    <2>1. FlattenSeq(w) = Head(w) \o FlattenSeq(Tail(w))
      BY <1>1, FlattenCons
    <2> QED
      BY <1>1, <1>2, <1>3, <2>1, Zenon
  <1>5. FlattenSeq(Append(t, b)) = x \o b
    BY <1>1, <1>3, FlattenAppend
  <1>6. r \o a \in Seq(Piece) /\ Append(t, b) \in Seq(Seq(Piece))
    BY <1>1, ConcatProperties
  <1>7. PICK s \in Seq(Piece) : s = r \o a
    BY <1>6
  <1>8. r \o (a \o b \o x) = s \o b \o x
    <2>1. Cat(a, b) \in Seq(Piece)
      BY <1>1, ConcatProperties DEF Cat
    <2>2. Cat(r, Cat(Cat(a, b), x)) = Cat(Cat(r, Cat(a, b)), x)
      BY <1>1, <2>1, Associative
    <2>3. Cat(r, Cat(a, b)) = Cat(Cat(r, a), b)
      BY <1>1, Associative
    <2> QED
      BY <1>7, <2>2, <2>3, Zenon DEF Cat
  <1>9. s \o (x \o b) = s \o x \o b
    <2>1. Cat(s, Cat(x, b)) = Cat(Cat(s, x), b)
      BY <1>1, Associative
    <2> QED
      BY <2>1, Zenon DEF Cat
  <1>10. FlowOf(r, w, p) = s \o b \o x \o y
    BY <1>3, <1>4, <1>8, Zenon DEF FlowOf
  <1>11. FlowOf(s, t, p) = s \o x \o y
    BY <1>3, Zenon DEF FlowOf
  <1>12. FlowOf(s, Append(t, b), p) = s \o x \o b \o y
    BY <1>3, <1>5, <1>9, Zenon DEF FlowOf
  <1> QED
    BY <1>2, <1>7, <1>10, <1>11, <1>12, Zenon DEF Taken

-----------------------------------------------------------------------------
(* The flow stays what is owed. *)

\* Four sequences hold nothing twice.
Distinct(a, b, c, d) ==
    /\ IsInjective(a) /\ IsInjective(b) /\ IsInjective(c) /\ IsInjective(d)
    /\ ToSet(a) \cap ToSet(b) = {} /\ ToSet(a) \cap ToSet(c) = {}
    /\ ToSet(a) \cap ToSet(d) = {} /\ ToSet(b) \cap ToSet(c) = {}
    /\ ToSet(b) \cap ToSet(d) = {} /\ ToSet(c) \cap ToSet(d) = {}

\* What four sequences hold together, and when nothing twice.
LEMMA FourTogether ==
    ASSUME NEW a \in Seq(Piece), NEW b \in Seq(Piece),
           NEW c \in Seq(Piece), NEW d \in Seq(Piece)
    PROVE  /\ ToSet(a \o b \o c \o d) = ToSet(a) \cup ToSet(b) \cup ToSet(c) \cup ToSet(d)
           /\ IsInjective(a \o b \o c \o d) <=> Distinct(a, b, c, d)
  <1>1. PICK x \in Seq(Piece) : x = a \o b
    BY ConcatProperties
  <1>2. PICK y \in Seq(Piece) : y = x \o c
    BY ConcatProperties
  <1>3. ToSet(x) = ToSet(a) \cup ToSet(b)
    <2>1. ToSet(a \o b) = ToSet(a) \cup ToSet(b)
      BY ToSetConcat
    <2> QED
      BY <1>1, <2>1, Zenon
  <1>4. ToSet(y) = ToSet(x) \cup ToSet(c)
    <2>1. ToSet(x \o c) = ToSet(x) \cup ToSet(c)
      BY ToSetConcat
    <2> QED
      BY <1>2, <2>1, Zenon
  <1>5. ToSet(y \o d) = ToSet(y) \cup ToSet(d)
    BY ToSetConcat
  <1>6. IsInjective(x) <=> /\ IsInjective(a) /\ IsInjective(b)
                           /\ ToSet(a) \cap ToSet(b) = {}
    BY <1>1, InjectiveConcat, Zenon
  <1>7. IsInjective(y) <=> /\ IsInjective(x) /\ IsInjective(c)
                           /\ ToSet(x) \cap ToSet(c) = {}
    BY <1>2, InjectiveConcat, Zenon
  <1>8. IsInjective(y \o d) <=> /\ IsInjective(y) /\ IsInjective(d)
                                /\ ToSet(y) \cap ToSet(d) = {}
    BY InjectiveConcat
  <1>9. ToSet(x) \cap ToSet(c) = {} <=> /\ ToSet(a) \cap ToSet(c) = {}
                                        /\ ToSet(b) \cap ToSet(c) = {}
    BY <1>3
  <1>10. ToSet(y) \cap ToSet(d) = {} <=> /\ ToSet(a) \cap ToSet(d) = {}
                                         /\ ToSet(b) \cap ToSet(d) = {}
                                         /\ ToSet(c) \cap ToSet(d) = {}
    BY <1>3, <1>4
  <1>11. IsInjective(y \o d) <=> Distinct(a, b, c, d)
    BY <1>6, <1>7, <1>8, <1>9, <1>10, Zenon DEF Distinct
  <1>12. ToSet(y \o d) = ToSet(a) \cup ToSet(b) \cup ToSet(c) \cup ToSet(d)
    BY <1>3, <1>4, <1>5
  <1> QED
    BY <1>1, <1>2, <1>11, <1>12, Zenon

\* The rest of a write goes behind the other writes: all is there as before.
LEMMA PartBehind ==
    ASSUME NEW a \in Seq(Piece), NEW b \in Seq(Piece),
           NEW c \in Seq(Piece), NEW d \in Seq(Piece)
    PROVE  /\ ToSet(a \o c \o b \o d) = ToSet(a \o b \o c \o d)
           /\ IsInjective(a \o b \o c \o d) => IsInjective(a \o c \o b \o d)
  <1>1. /\ ToSet(a \o b \o c \o d) = ToSet(a) \cup ToSet(b) \cup ToSet(c) \cup ToSet(d)
        /\ IsInjective(a \o b \o c \o d) <=> Distinct(a, b, c, d)
    BY FourTogether
  <1>2. /\ ToSet(a \o c \o b \o d) = ToSet(a) \cup ToSet(c) \cup ToSet(b) \cup ToSet(d)
        /\ IsInjective(a \o c \o b \o d) <=> Distinct(a, c, b, d)
    BY FourTogether
  <1>3. ToSet(b) \cap ToSet(c) = ToSet(c) \cap ToSet(b)
    OBVIOUS
  <1>4. Distinct(a, b, c, d) => Distinct(a, c, b, d)
    BY <1>3, Zenon DEF Distinct
  <1>5. ToSet(a) \cup ToSet(b) \cup ToSet(c) \cup ToSet(d)
          = ToSet(a) \cup ToSet(c) \cup ToSet(b) \cup ToSet(d)
    OBVIOUS
  <1> QED
    BY <1>1, <1>2, <1>4, <1>5, Zenon

\* What is owed when a line more has been printed.
LEMMA OwedLine ==
    ASSUME NEW printed \in Seq(Levels), NEW level \in Levels, NEW from \in Nat,
           NEW asked \in Nat, from <= Len(printed), NEW n \in Nat,
           n = Len(printed) + 1
    PROVE  /\ \A x \in OwedOf(from, printed, asked) : x[1] < n
           /\ OwedOf(from, Append(printed, level), asked)
                = IF level >= currentLevel /\ level >= asked
                  THEN OwedOf(from, printed, asked) \cup {<<n, 1>>, <<n, 2>>}
                  ELSE OwedOf(from, printed, asked)
  <1>1. PICK more \in Seq(Levels) : more = Append(printed, level)
    <2>1. Append(printed, level) \in Seq(Levels)
      BY AppendProperties, Zenon
    <2> QED
      BY <2>1, Zenon
  <1>2. /\ Len(more) = n /\ more[n] = level
        /\ \A i \in 1 .. n - 1 : more[i] = printed[i]
    BY <1>1, AppendProperties
  <1> DEFINE Lines(l) == {i \in from + 1 .. Len(l) : l[i] >= currentLevel /\ l[i] >= asked}
  <1>3. Lines(more) = IF level >= currentLevel /\ level >= asked
                      THEN Lines(printed) \cup {n} ELSE Lines(printed)
    <2>1. \A i : i \in from + 1 .. n <=> i \in from + 1 .. Len(printed) \/ i = n
      OBVIOUS
    <2>2. \A i \in from + 1 .. Len(printed) : more[i] = printed[i] /\ i # n
      BY <1>2
    <2> QED
      BY <1>2, <2>1, <2>2
  <1>4. \A i \in Lines(printed) : i < n
    OBVIOUS
  <1>5. /\ OwedOf(from, more, asked) = Lines(more) \X (1 .. 2)
        /\ OwedOf(from, printed, asked) = Lines(printed) \X (1 .. 2)
    BY Zenon DEF OwedOf, Pieces
  <1> HIDE DEF Lines
  <1>6. 1 .. 2 = {1, 2}
    OBVIOUS
  <1>7. (Lines(printed) \cup {n}) \X {1, 2}
          = (Lines(printed) \X {1, 2}) \cup {<<n, 1>>, <<n, 2>>}
    OBVIOUS
  <1>8. \A x \in Lines(printed) \X (1 .. 2) : x[1] < n
    BY <1>4
  <1> QED
    BY <1>1, <1>3, <1>5, <1>6, <1>7, <1>8, Zenon

\* A line behind a flow that has lower ones only.
LEMMA LineRight ==
    ASSUME NEW v, NEW flow \in Seq(Piece), NEW owed, NEW n \in Nat,
           Right(v, flow, owed), \A x \in owed : x[1] < n
    PROVE  Right(v, flow \o Chunk(n), owed \cup {<<n, 1>>, <<n, 2>>})
  <1>1. PICK c \in Seq(Piece) : c = Chunk(n) /\ c = << <<n, 1>>, <<n, 2>> >>
    BY ChunkIs
  <1>2. /\ ToSet(flow) = owed /\ IsInjective(flow)
        /\ v \notin Slow => InOrder(flow)
    BY DEF Right
  <1>3. ToSet(c) = {<<n, 1>>, <<n, 2>>} /\ IsInjective(c) /\ InOrder(c)
    <2>1. DOMAIN c = {1, 2} /\ c[1] = <<n, 1>> /\ c[2] = <<n, 2>>
      BY <1>1
    <2>2. ToSet(c) = {<<n, 1>>, <<n, 2>>}
      BY <2>1 DEF ToSet
    <2>3. IsInjective(c)
      BY <2>1 DEF IsInjective
    <2>4. InOrder(c)
      BY <2>1 DEF InOrder, Before
    <2> QED
      BY <2>2, <2>3, <2>4
  <1>4. ToSet(flow \o c) = owed \cup {<<n, 1>>, <<n, 2>>}
    <2>1. ToSet(flow \o c) = ToSet(flow) \cup ToSet(c)
      BY ToSetConcat
    <2> QED
      BY <1>2, <1>3, <2>1, Zenon
  <1>5. IsInjective(flow \o c)
    <2>1. IsInjective(flow \o c) <=> /\ IsInjective(flow) /\ IsInjective(c)
                                     /\ ToSet(flow) \cap ToSet(c) = {}
      BY InjectiveConcat
    <2>2. owed \cap {<<n, 1>>, <<n, 2>>} = {}
      <3>1. ~(n < n)
        OBVIOUS
      <3>2. <<n, 1>>[1] = n /\ <<n, 2>>[1] = n
        OBVIOUS
      <3>3. <<n, 1>> \notin owed /\ <<n, 2>> \notin owed
        BY <3>1, <3>2
      <3> QED
        BY <3>3
    <2> QED
      BY <1>2, <1>3, <2>1, <2>2, Zenon
  <1>6. ASSUME v \notin Slow PROVE InOrder(flow \o c)
    <2>1. PICK u : u = flow \o c
      OBVIOUS
    <2>2. PICK m \in Nat, k \in Nat : Joins(u, m, k, flow, c)
      BY <2>1, ConcatJoins
    <2>3. /\ DOMAIN u = 1 .. m + k /\ DOMAIN flow = 1 .. m /\ DOMAIN c = 1 .. k
          /\ \A i \in 1 .. m : u[i] = flow[i]
          /\ \A i \in 1 .. k : u[m + i] = c[i]
          /\ \A i \in 1 .. m + k : i \in 1 .. m \/ \E l \in 1 .. k : i = m + l
      BY <2>2, Zenon DEF Joins
    <2>4. ASSUME NEW i \in 1 .. m + k, NEW j \in 1 .. m + k, i < j
          PROVE  Before(u[i], u[j])
      <3>1. CASE i \in 1 .. m /\ j \in 1 .. m
        <4>1. Before(flow[i], flow[j])
          BY <1>2, <1>6, <2>3, <2>4, <3>1, Zenon DEF InOrder
        <4> QED
          BY <2>3, <3>1, <4>1, Zenon
      <3>2. CASE i \in 1 .. m /\ j \notin 1 .. m
        <4>1. PICK l \in 1 .. k : j = m + l
          BY <2>3, <3>2, Zenon
        <4>2. flow[i][1] < n
          <5>1. flow[i] \in owed
            BY <1>2, <2>3, <3>2, Zenon DEF ToSet
          <5> QED
            BY <5>1
        <4>3. c[l] \in {<<n, 1>>, <<n, 2>>}
          BY <1>3, <2>3, Zenon DEF ToSet
        <4>4. c[l][1] = n
          BY <4>3
        <4>5. Before(flow[i], c[l])
          BY <4>2, <4>4, Zenon DEF Before
        <4> QED
          BY <2>3, <3>2, <4>1, <4>5, Zenon
      <3>3. CASE i \notin 1 .. m
        <4>1. PICK l \in 1 .. k, q \in 1 .. k : i = m + l /\ j = m + q
          <5>1. j \notin 1 .. m
            BY <2>4, <3>3
          <5> QED
            BY <2>3, <3>3, <5>1, Zenon
        <4>2. l < q
          BY <2>4, <4>1
        <4>3. Before(c[l], c[q])
          BY <1>3, <2>3, <4>2, Zenon DEF InOrder
        <4> QED
          BY <2>3, <4>1, <4>3, Zenon
      <3> QED
        BY <3>1, <3>2, <3>3
    <2>5. InOrder(u)
      BY <2>3, <2>4, Zenon DEF InOrder
    <2> QED
      BY <2>1, <2>5, Zenon
  <1>7. Right(v, flow \o c, owed \cup {<<n, 1>>, <<n, 2>>})
    BY <1>4, <1>5, <1>6, Zenon DEF Right
  <1> QED
    BY <1>1, <1>7, Zenon

-----------------------------------------------------------------------------
(* The handlers, and each viewer. *)

\* Nothing of u changes, and no line is printed.
Same(u) ==
    /\ life'[u] = life[u] /\ op'[u] = op[u] /\ socket'[u] = socket[u]
    /\ target'[u] = target[u] /\ posted'[u] = posted[u] /\ writes'[u] = writes[u]
    /\ received'[u] = received[u] /\ since'[u] = since[u] /\ lines' = lines
    /\ u \in subscribers' <=> u \in subscribers

\* Then all is as well with u as it was.
LEMMA SameGood == ASSUME NEW u, Good(u), Same(u) PROVE Good(u)'
  BY Zenon DEF Good, Fresh, Accounted, Same

\* The types, of a viewer.
LEMMA ViewerTypes ==
    ASSUME IInv, NEW v \in Viewers
    PROVE  /\ FlowTypes(received[v], writes[v], posted[v])
           /\ target[v] \in Nat /\ since[v] \in Nat /\ lines \in Seq(Levels)
           /\ op[v] \in Steps
           /\ op \in [Viewers -> Steps]
           /\ received \in [Viewers -> Seq(Piece)]
           /\ posted \in [Viewers -> Seq(Nat)]
           /\ writes \in [Viewers -> Seq(Chunks)]
           /\ life \in [Viewers -> {"unborn", "alive", "gone"}]
           /\ socket \in [Viewers -> {"open", "closed"}]
           /\ target \in [Viewers -> Nat] /\ since \in [Viewers -> Nat]
  <1>1. /\ op \in [Viewers -> Steps]
        /\ received \in [Viewers -> Seq(Piece)]
        /\ posted \in [Viewers -> Seq(Nat)]
        /\ writes \in [Viewers -> Seq(Chunks)]
        /\ life \in [Viewers -> {"unborn", "alive", "gone"}]
        /\ socket \in [Viewers -> {"open", "closed"}]
        /\ target \in [Viewers -> Nat] /\ since \in [Viewers -> Nat]
        /\ lines \in Seq(Levels)
    BY DEF IInv, TypeOK, Chunks, Piece
  <1>2. writes[v] \in Seq(Seq(Piece))
    <2>1. writes[v] \in Seq(Chunks)
      BY <1>1
    <2>2. \A c \in Chunks : c \in Seq(Piece)
      BY DEF Chunks, Piece
    <2> QED
      BY <2>1, <2>2
  <1>3. received[v] \in Seq(Piece) /\ posted[v] \in Seq(Nat)
    BY <1>1
  <1>4. FlowTypes(received[v], writes[v], posted[v])
    BY <1>2, <1>3, Zenon DEF FlowTypes
  <1> QED
    BY <1>1, <1>4

\* What After does to its viewer, and to the others nothing.
LEMMA AfterDoes ==
    ASSUME IInv, NEW v \in Viewers, NEW o, NEW subscribed, NEW ps, NEW ws,
           After(v, o, subscribed, ps, ws)
    PROVE  /\ op'[v] = o /\ posted'[v] = ps /\ writes'[v] = ws
           /\ life'[v] # "unborn"
           /\ v \in subscribers' => subscribed
           /\ \A u \in Viewers \ {v} :
                /\ op'[u] = op[u] /\ posted'[u] = posted[u]
                /\ writes'[u] = writes[u] /\ life'[u] = life[u]
                /\ u \in subscribers' <=> u \in subscribers
  <1>1. /\ op \in [Viewers -> Steps] /\ posted \in [Viewers -> Seq(Nat)]
        /\ writes \in [Viewers -> Seq(Chunks)]
        /\ life \in [Viewers -> {"unborn", "alive", "gone"}]
    BY ViewerTypes
  <1> DEFINE held == Held(o, subscribed, ps, ws)
             l == IF held THEN "alive" ELSE "gone"
  <1>2. /\ op' = [op EXCEPT ![v] = o]
        /\ posted' = [posted EXCEPT ![v] = ps]
        /\ writes' = [writes EXCEPT ![v] = ws]
        /\ life' = [life EXCEPT ![v] = l]
    BY Zenon DEF After
  <1>3. \/ subscribed /\ subscribers' = subscribers \cup {v}
        \/ subscribers' = subscribers \ {v}
    BY Zenon DEF After
  <1>4. l # "unborn"
    OBVIOUS
  <1> HIDE DEF l
  <1>5. op'[v] = o /\ posted'[v] = ps /\ writes'[v] = ws /\ life'[v] = l
    BY <1>1, <1>2
  <1>6. ASSUME NEW u \in Viewers \ {v}
        PROVE  /\ op'[u] = op[u] /\ posted'[u] = posted[u]
               /\ writes'[u] = writes[u] /\ life'[u] = life[u]
    BY <1>1, <1>2
  <1>7. v \in subscribers' => subscribed
    BY <1>3
  <1>8. \A u \in Viewers \ {v} : u \in subscribers' <=> u \in subscribers
    BY <1>3
  <1> QED
    BY <1>4, <1>5, <1>6, <1>7, <1>8, Zenon

\* All is well with every viewer.
AllGood == \A u \in Viewers : Good(u)

\* A handler of v: the others are as they were.
LEMMA HandlerGood ==
    ASSUME IInv, AllGood, NEW v \in Viewers, NEW o, NEW subscribed, NEW ps, NEW ws,
           After(v, o, subscribed, ps, ws), lines' = lines,
           \A u \in Viewers \ {v} :
              /\ socket'[u] = socket[u] /\ target'[u] = target[u]
              /\ received'[u] = received[u] /\ since'[u] = since[u],
           Good(v)'
    PROVE  AllGood'
  <1>1. ASSUME NEW u \in Viewers \ {v} PROVE Good(u)'
    <2>1. Same(u)
      BY AfterDoes, Zenon DEF Same
    <2>2. Good(u)
      BY Zenon DEF AllGood
    <2> QED
      BY <2>1, <2>2, SameGood
  <1>2. \A u \in Viewers : u = v \/ u \in Viewers \ {v}
    OBVIOUS
  <1> QED
    BY <1>1, <1>2, Zenon DEF AllGood

\* Before it subscribes, nothing flows to a viewer whose step goes on.
LEMMA StepGood ==
    ASSUME IInv, AllGood, NEW v \in Viewers, NEW o \in Steps,
           life[v] = "unborn" \/ op[v] # "none",
           Step(v, o, FALSE), UNCHANGED <<socket, received, lines, since>>,
           \A u \in Viewers \ {v} : target'[u] = target[u]
    PROVE  AllGood'
  <1>1. After(v, o, FALSE, posted[v], writes[v])
    BY DEF Step
  <1>2. received[v] = <<>> /\ posted[v] = <<>> /\ writes[v] = <<>>
    BY Zenon DEF AllGood, Good, Fresh
  <1>3. /\ v \notin subscribers' /\ received'[v] = received[v]
        /\ posted'[v] = posted[v] /\ writes'[v] = writes[v]
    BY <1>1, AfterDoes
  <1>4. Good(v)'
    BY <1>2, <1>3, Zenon DEF Good, Fresh
  <1>5. \A u \in Viewers \ {v} :
            /\ socket'[u] = socket[u] /\ target'[u] = target[u]
            /\ received'[u] = received[u] /\ since'[u] = since[u]
    OBVIOUS
  <1> QED
    BY <1>1, <1>4, <1>5, HandlerGood

\* The actions keep what is right for each viewer: a session is accepted,
LEMMA AcceptGood ==
    ASSUME IInv, AllGood, NEW v \in Viewers, Accept(v) PROVE AllGood'
  <1>1. "read" \in Steps
    BY DEF Steps
  <1> QED
    BY <1>1, StepGood DEF Accept

\* its request is read,
LEMMA ReadDoneGood ==
    ASSUME IInv, AllGood, NEW v \in Viewers, ReadDone(v) PROVE AllGood'
  <1>1. target \in [Viewers -> Nat]
    BY ViewerTypes
  <1>2. \A u \in Viewers \ {v} : target'[u] = target[u]
    BY <1>1 DEF ReadDone
  <1>3. PICK o \in Steps : Step(v, o, FALSE)
    BY DEF ReadDone, Steps
  <1>4. op[v] # "none" /\ UNCHANGED <<socket, received, lines, since>>
    BY DEF ReadDone
  <1> QED
    BY <1>2, <1>3, <1>4, StepGood

\* a step of it fails.
LEMMA StepFailsGood ==
    ASSUME IInv, AllGood, NEW v \in Viewers, StepFails(v) PROVE AllGood'
  <1>1. "none" \in Steps
    BY DEF Steps
  <1> QED
    BY <1>1, StepGood DEF StepFails

\* A subscription begins with nothing owed and nothing flowing.
LEMMA StepDoneGood ==
    ASSUME IInv, AllGood, NEW v \in Viewers, StepDone(v) PROVE AllGood'
  <1>1. Follows(op[v]) \in Steps
    BY DEF Follows, Steps
  <1>2. op[v] # "none" /\ UNCHANGED <<socket, target, received, lines>>
    BY DEF StepDone
  <1>3. CASE op[v] # "logsHead"
    <2>1. Step(v, Follows(op[v]), FALSE) /\ since' = since
      <3>1. (op[v] = "logsHead") = FALSE
        BY <1>3
      <3> QED
        BY <1>3, <3>1, Zenon DEF StepDone
    <2> QED
      BY <1>1, <1>2, <2>1, StepGood
  <1>4. CASE op[v] = "logsHead"
    <2>1. Follows(op[v]) = "none"
      BY <1>4 DEF Follows
    <2>2. After(v, "none", TRUE, posted[v], writes[v])
      <3>1. (op[v] = "logsHead") = TRUE
        BY <1>4
      <3> QED
        BY <2>1, <3>1, Zenon DEF StepDone, Step
    <2>3. since' = [since EXCEPT ![v] = Len(lines)] /\ since \in [Viewers -> Nat]
      BY <1>4, ViewerTypes DEF StepDone
    <2>4. since'[v] = Len(lines) /\ \A u \in Viewers \ {v} : since'[u] = since[u]
      BY <2>3
    <2>5. received[v] = <<>> /\ posted[v] = <<>> /\ writes[v] = <<>>
      BY <1>2, Zenon DEF AllGood, Good, Fresh
    <2>6. /\ received'[v] = <<>> /\ posted'[v] = <<>> /\ writes'[v] = <<>>
          /\ op'[v] = "none"
      <3>1. posted'[v] = posted[v] /\ writes'[v] = writes[v] /\ op'[v] = "none"
        BY <2>2, AfterDoes, Zenon
      <3> QED
        BY <1>2, <2>5, <3>1
    <2>7. Len(lines) \in Nat /\ lines' = lines
      BY <1>2, ViewerTypes
    <2>8. Fresh(v)'
      <3>1. since'[v] <= Len(lines')
        BY <2>4, <2>7
      <3> QED
        BY <2>6, <3>1, Zenon DEF Fresh
    <2>9. OwedOf(since'[v], lines', target'[v]) = {}
      BY <2>4, <2>7 DEF OwedOf
    <2>10. FlowOf(received'[v], writes'[v], posted'[v]) = <<>>
      BY <2>6, FlowNone, Zenon
    <2>11. Right(v, <<>>, {})
      <3>1. DOMAIN <<>> = {}
        OBVIOUS
      <3>2. ToSet(<<>>) = {} /\ IsInjective(<<>>) /\ InOrder(<<>>)
        BY <3>1 DEF ToSet, IsInjective, InOrder
      <3> QED
        BY <3>2, Zenon DEF Right
    <2>12. Accounted(v)'
      BY <2>9, <2>10, <2>11, Zenon DEF Accounted
    <2>13. Good(v)'
      BY <2>8, <2>12, Zenon DEF Good
    <2>14. \A u \in Viewers \ {v} :
              /\ socket'[u] = socket[u] /\ target'[u] = target[u]
              /\ received'[u] = received[u] /\ since'[u] = since[u]
      BY <1>2, <2>4
    <2> QED
      BY <1>2, <2>2, <2>13, <2>14, HandlerGood
  <1> QED
    BY <1>3, <1>4

\* A handler of a line: v stays in its place, and its flow is what is owed.
LEMMA LineGood ==
    ASSUME IInv, AllGood, NEW v \in Viewers, NEW ps, NEW ws,
           posted[v] # <<>> \/ writes[v] # <<>>,
           After(v, op[v], v \in subscribers, ps, ws),
           UNCHANGED <<target, lines, since>>,
           \A u \in Viewers \ {v} :
              socket'[u] = socket[u] /\ received'[u] = received[u],
           (v \in subscribers /\ socket'[v] = "open") =>
              Right(v, FlowOf(received'[v], ws, ps),
                       OwedOf(since[v], lines, target[v]))
    PROVE  AllGood'
  <1>1. \E subscribed \in BOOLEAN : subscribed = (v \in subscribers)
    <2>1. CASE v \in subscribers
      <3>1. TRUE = (v \in subscribers)
        BY <2>1
      <3> QED
        BY <3>1, Zenon
    <2>2. CASE v \notin subscribers
      <3>1. FALSE = (v \in subscribers)
        BY <2>2
      <3> QED
        BY <3>1, Zenon
    <2> QED
      BY <2>1, <2>2
  <1>2. PICK subscribed \in BOOLEAN : /\ subscribed => v \in subscribers
                                      /\ After(v, op[v], subscribed, ps, ws)
    BY <1>1, Zenon
  <1>3. op[v] = "none"
    BY Zenon DEF AllGood, Good, Fresh
  <1>4. /\ op'[v] = op[v] /\ posted'[v] = ps /\ writes'[v] = ws
        /\ life'[v] # "unborn" /\ (v \in subscribers' => v \in subscribers)
    <2>1. /\ op'[v] = op[v] /\ posted'[v] = ps /\ writes'[v] = ws
          /\ life'[v] # "unborn" /\ (v \in subscribers' => subscribed)
      BY <1>2, AfterDoes
    <2> QED
      BY <1>2, <2>1, Zenon
  <1>5. since' = since /\ lines' = lines /\ target' = target
    OBVIOUS
  <1>6. Fresh(v)'
    <2>1. v \in subscribers => since[v] <= Len(lines)
      BY Zenon DEF AllGood, Good, Fresh
    <2>2. v \in subscribers' => since'[v] <= Len(lines')
      BY <1>4, <1>5, <2>1, Zenon
    <2>3. op'[v] = "none"
      BY <1>3, <1>4, Zenon
    <2> QED
      BY <1>4, <2>2, <2>3, Zenon DEF Fresh
  <1>7. v \in subscribers' => Accounted(v)'
    BY <1>4, <1>5, Zenon DEF Accounted
  <1>8. Good(v)'
    BY <1>6, <1>7, Zenon DEF Good
  <1>9. \A u \in Viewers \ {v} :
            /\ socket'[u] = socket[u] /\ target'[u] = target[u]
            /\ received'[u] = received[u] /\ since'[u] = since[u]
    BY <1>5, Zenon
  <1> QED
    BY <1>2, <1>5, <1>8, <1>9, HandlerGood, Zenon

\* What is known of a subscriber whose socket is open.
LEMMA Standing ==
    ASSUME AllGood, NEW v \in Viewers, v \in subscribers, socket[v] = "open"
    PROVE  Right(v, FlowOf(received[v], writes[v], posted[v]),
                    OwedOf(since[v], lines, target[v]))
  BY Zenon DEF AllGood, Good, Accounted

\* A posted line goes behind the writes of before.
LEMMA PostedRunsGood ==
    ASSUME IInv, AllGood, NEW v \in Viewers, PostedRuns(v) PROVE AllGood'
  <1>1. /\ posted[v] # <<>> /\ UNCHANGED <<socket, target, received, lines, since>>
        /\ After(v, op[v], v \in subscribers, Tail(posted[v]),
                 Append(writes[v], Chunk(Head(posted[v]))))
    BY DEF PostedRuns
  <1>2. FlowTypes(received[v], writes[v], posted[v])
    BY ViewerTypes
  <1>3. FlowOf(received[v], Append(writes[v], Chunk(Head(posted[v]))), Tail(posted[v]))
          = FlowOf(received[v], writes[v], posted[v])
    BY <1>1, <1>2, FlowPosted
  <1>4. (v \in subscribers /\ socket'[v] = "open") =>
            Right(v, FlowOf(received'[v], Append(writes[v], Chunk(Head(posted[v]))),
                            Tail(posted[v])),
                     OwedOf(since[v], lines, target[v]))
    <2>1. socket'[v] = socket[v] /\ received'[v] = received[v]
      BY <1>1
    <2> QED
      BY <1>3, <2>1, Standing, Zenon
  <1>5. \A u \in Viewers \ {v} :
            socket'[u] = socket[u] /\ received'[u] = received[u]
    BY <1>1
  <1>6. UNCHANGED <<target, lines, since>>
    BY <1>1
  <1> QED
    BY <1>1, <1>4, <1>5, <1>6, LineGood

\* A socket that takes all of the line keeps the flow; one that takes a part
\* puts the rest behind.
LEMMA WriteDoneGood ==
    ASSUME IInv, AllGood, NEW v \in Viewers, WriteDone(v) PROVE AllGood'
  <1>1. /\ writes[v] # <<>> /\ socket[v] = "open"
        /\ UNCHANGED <<socket, target, lines, since>>
    BY DEF WriteDone
  <1>2. PICK r, w, p : r = received[v] /\ w = writes[v] /\ p = posted[v]
    OBVIOUS
  <1>3. FlowTypes(r, w, p)
    BY <1>2, ViewerTypes, Zenon
  <1>4. w \in Seq(Seq(Piece)) /\ w # <<>>
    BY <1>1, <1>2, <1>3, Zenon DEF FlowTypes
  <1>5. PICK chunk \in Seq(Piece) : chunk = Head(w)
    BY <1>4, HeadTailProperties
  <1>6. PICK n \in 1 .. Len(chunk) :
            /\ n < Len(chunk) => v \in Slow
            /\ received' = [received EXCEPT ![v] = @ \o SubSeq(chunk, 1, n)]
            /\ After(v, op[v], v \in subscribers, p,
                     Rest(w, SubSeq(chunk, n + 1, Len(chunk))))
    BY <1>2, <1>5, Zenon DEF WriteDone
  <1>7. PICK a \in Seq(Piece), b \in Seq(Piece) :
            /\ a = SubSeq(chunk, 1, n) /\ b = SubSeq(chunk, n + 1, Len(chunk))
            /\ chunk = a \o b /\ (n = Len(chunk) => b = <<>>)
    <2>1. /\ SubSeq(chunk, 1, n) \in Seq(Piece)
          /\ SubSeq(chunk, n + 1, Len(chunk)) \in Seq(Piece)
      <3>1. Len(chunk) \in Nat
        OBVIOUS
      <3>2. n \in Nat /\ n <= Len(chunk)
        BY <3>1
      <3> QED
        BY <3>1, <3>2, PrefixType, RestType
    <2>2. SubSeq(chunk, 1, n) \o SubSeq(chunk, n + 1, Len(chunk)) = chunk
      <3>1. n \in 0 .. Len(chunk)
        OBVIOUS
      <3> QED
        BY <3>1, SplitSeq
    <2>3. n = Len(chunk) => SubSeq(chunk, n + 1, Len(chunk)) = <<>>
      OBVIOUS
    <2> QED
      BY <2>1, <2>2, <2>3, Zenon
  <1>8. received'[v] = r \o a /\ \A u \in Viewers \ {v} : received'[u] = received[u]
    <2>1. received \in [Viewers -> Seq(Piece)]
      BY ViewerTypes
    <2>2. received' = [received EXCEPT ![v] = received[v] \o SubSeq(chunk, 1, n)]
      BY <1>6
    <2> DEFINE all == received[v] \o SubSeq(chunk, 1, n)
    <2>3. all = r \o a
      BY <1>2, <1>7, Zenon
    <2> HIDE DEF all
    <2>4. received'[v] = all /\ \A u \in Viewers \ {v} : received'[u] = received[u]
      BY <2>1, <2>2 DEF all
    <2> QED
      BY <2>3, <2>4, Zenon
  <1>9. PICK t \in Seq(Seq(Piece)), x \in Seq(Piece), y \in Seq(Piece) :
             /\ t = Tail(w)
             /\ FlowOf(r, w, p) = r \o a \o b \o x \o y
             /\ FlowOf(r \o a, t, p) = r \o a \o x \o y
             /\ FlowOf(r \o a, Append(t, b), p) = r \o a \o x \o b \o y
    <2>1. FirstIs(w, a, b)
      BY <1>4, <1>5, <1>7, Zenon DEF FirstIs
    <2>2. Taken(r, w, p, a, b)
      BY <1>3, <2>1, FlowFirst, Zenon
    <2> QED
      BY <2>2, Zenon DEF Taken
  <1>10. PICK s \in Seq(Piece) : s = r \o a
    BY <1>3, ConcatProperties DEF FlowTypes
  <1>11. After(v, op[v], v \in subscribers, p, Rest(w, b))
    BY <1>6, <1>7, Zenon
  <1>12. (v \in subscribers /\ socket'[v] = "open") =>
            Right(v, FlowOf(received'[v], Rest(w, b), p),
                     OwedOf(since[v], lines, target[v]))
    <2> SUFFICES ASSUME v \in subscribers
                 PROVE  Right(v, FlowOf(s, Rest(w, b), p),
                                 OwedOf(since[v], lines, target[v]))
      BY <1>8, <1>10, Zenon
    <2>1. Right(v, s \o b \o x \o y, OwedOf(since[v], lines, target[v]))
      BY <1>1, <1>2, <1>9, <1>10, Standing, Zenon
    <2>2. CASE b = <<>>
      <3>1. Rest(w, b) = t
        BY <1>9, <2>2, Zenon DEF Rest
      <3>2. s \o b = s
        BY <2>2, ConcatEmptySeq
      <3>3. FlowOf(s, t, p) = s \o b \o x \o y
        BY <1>9, <1>10, <3>2, Zenon
      <3> QED
        BY <2>1, <3>1, <3>3, Zenon
    <2>3. CASE b # <<>>
      <3>1. Rest(w, b) = Append(t, b)
        BY <1>9, <2>3, Zenon DEF Rest
      <3>2. v \in Slow
        <4>1. n # Len(chunk)
          BY <1>7, <2>3
        <4>2. n < Len(chunk)
          BY <4>1
        <4> QED
          BY <1>6, <4>2, Zenon
      <3>3. FlowOf(s, Append(t, b), p) = s \o x \o b \o y
        BY <1>9, <1>10, Zenon
      <3>4. /\ ToSet(s \o x \o b \o y) = ToSet(s \o b \o x \o y)
            /\ IsInjective(s \o b \o x \o y) => IsInjective(s \o x \o b \o y)
        BY PartBehind
      <3>5. Right(v, s \o x \o b \o y, OwedOf(since[v], lines, target[v]))
        BY <2>1, <3>2, <3>4, Zenon DEF Right
      <3> QED
        BY <3>1, <3>3, <3>5, Zenon
    <2> QED
      BY <2>2, <2>3
  <1>13. \A u \in Viewers \ {v} :
            socket'[u] = socket[u] /\ received'[u] = received[u]
    BY <1>1, <1>8
  <1>14. UNCHANGED <<target, lines, since>>
    BY <1>1
  <1>15. posted[v] # <<>> \/ writes[v] # <<>>
    BY <1>1
  <1> QED
    BY <1>11, <1>12, <1>13, <1>14, <1>15, LineGood, Zenon

\* The handler closes the socket: nothing more is promised.
LEMMA WriteFailsGood ==
    ASSUME IInv, AllGood, NEW v \in Viewers, WriteFails(v) PROVE AllGood'
  <1>1. /\ writes[v] # <<>>
        /\ socket' = [socket EXCEPT ![v] = "closed"]
        /\ After(v, op[v], v \in subscribers, posted[v], Tail(writes[v]))
        /\ UNCHANGED <<peer, target, received, lines, since>>
    BY DEF WriteFails
  <1>2. socket \in [Viewers -> {"open", "closed"}]
    BY ViewerTypes
  <1>3. socket'[v] = "closed" /\ \A u \in Viewers \ {v} : socket'[u] = socket[u]
    BY <1>1, <1>2
  <1>4. (v \in subscribers /\ socket'[v] = "open") =>
            Right(v, FlowOf(received'[v], Tail(writes[v]), posted[v]),
                     OwedOf(since[v], lines, target[v]))
    BY <1>3
  <1>5. \A u \in Viewers \ {v} :
            socket'[u] = socket[u] /\ received'[u] = received[u]
    BY <1>1, <1>3
  <1>6. UNCHANGED <<target, lines, since>>
    BY <1>1
  <1> QED
    BY <1>1, <1>4, <1>5, <1>6, LineGood

\* A viewer that leaves takes nothing from the others.
LEMMA LeaveGood ==
    ASSUME IInv, AllGood, NEW v \in Viewers, Leave(v) PROVE AllGood'
  <1>1. ASSUME NEW u \in Viewers PROVE Good(u)'
    <2>1. Same(u)
      BY DEF Leave, sessionVars, Same
    <2>2. Good(u)
      BY Zenon DEF AllGood
    <2> QED
      BY <2>1, <2>2, SameGood
  <1> QED
    BY <1>1, Zenon DEF AllGood

\* The log posts the line to those that are owed it, and to no other.
LEMMA LogLineGood ==
    ASSUME IInv, AllGood, NEW level \in Levels, LogLine(level) PROVE AllGood'
  <1>1. /\ lines' = Append(lines, level)
        /\ posted' = [v \in Viewers |->
              IF v \in subscribers /\ level >= currentLevel /\ Wanted(v, level)
              THEN Append(posted[v], Len(lines')) ELSE posted[v]]
        /\ UNCHANGED <<sessionVars, peer, writes, received, since>>
    BY DEF LogLine
  <1>2. PICK n \in Nat : n = Len(lines) + 1 /\ Len(lines') = n /\ lines \in Seq(Levels)
    BY <1>1 DEF IInv, TypeOK
  <1>3. ASSUME NEW u \in Viewers PROVE Good(u)'
    <2>1. /\ life'[u] = life[u] /\ op'[u] = op[u] /\ socket'[u] = socket[u]
          /\ target'[u] = target[u] /\ writes'[u] = writes[u]
          /\ received'[u] = received[u] /\ since'[u] = since[u]
          /\ u \in subscribers' <=> u \in subscribers
      BY <1>1 DEF sessionVars
    <2>2. posted'[u] = IF u \in subscribers /\ level >= currentLevel /\ level >= target[u]
                       THEN Append(posted[u], n) ELSE posted[u]
      BY <1>1, <1>2, Zenon DEF Wanted
    <2>3. Fresh(u) /\ (u \in subscribers => Accounted(u))
      BY Zenon DEF AllGood, Good
    <2>4. Fresh(u)'
      <3>1. u \in subscribers => since[u] <= Len(lines) /\ since[u] \in Nat
        BY <2>3, ViewerTypes DEF Fresh
      <3>2. u \in subscribers => since[u] <= Len(lines')
        BY <1>2, <3>1
      <3>3. op[u] # "none" => u \notin subscribers
        BY <2>3, Zenon DEF Fresh
      <3>4. life[u] = "unborn" => u \notin subscribers
        BY DEF IInv, OnlyTheLiving
      <3> QED
        BY <2>1, <2>2, <2>3, <3>2, <3>3, <3>4, Zenon DEF Fresh
    <2>5. ASSUME u \in subscribers, socket[u] = "open"
          PROVE  Right(u, FlowOf(received[u], writes[u], posted'[u]),
                          OwedOf(since[u], lines', target[u]))
      <3>1. Right(u, FlowOf(received[u], writes[u], posted[u]),
                     OwedOf(since[u], lines, target[u]))
        BY <2>5, Standing
      <3>2. /\ FlowTypes(received[u], writes[u], posted[u])
            /\ since[u] \in Nat /\ target[u] \in Nat /\ since[u] <= Len(lines)
        BY <2>3, <2>5, ViewerTypes DEF Fresh
      <3>3. PICK from \in Nat, asked \in Nat : from = since[u] /\ asked = target[u]
        BY <3>2, Zenon
      <3>4. /\ \A x \in OwedOf(from, lines, asked) : x[1] < n
            /\ OwedOf(from, Append(lines, level), asked)
                 = IF level >= currentLevel /\ level >= asked
                   THEN OwedOf(from, lines, asked) \cup {<<n, 1>>, <<n, 2>>}
                   ELSE OwedOf(from, lines, asked)
        <4>1. from <= Len(lines)
          BY <3>2, <3>3, Zenon
        <4> QED
          BY <1>2, <4>1, OwedLine
      <3>5. CASE level >= currentLevel /\ level >= asked
        <4>1. PICK flow \in Seq(Piece) : flow = FlowOf(received[u], writes[u], posted[u])
          BY <3>2, FlowParts, Zenon
        <4>2. Right(u, flow \o Chunk(n),
                       OwedOf(from, lines, asked) \cup {<<n, 1>>, <<n, 2>>})
          <5>1. Right(u, flow, OwedOf(from, lines, asked))
            BY <3>1, <3>3, <4>1, Zenon
          <5> QED
            BY <3>4, <5>1, LineRight, Zenon
        <4>3. FlowOf(received[u], writes[u], Append(posted[u], n)) = flow \o Chunk(n)
          <5>1. FlowOf(received[u], writes[u], Append(posted[u], n))
                  = FlowOf(received[u], writes[u], posted[u]) \o Chunk(n)
            BY <3>2, FlowLine
          <5> QED
            BY <4>1, <5>1, Zenon
        <4>4. posted'[u] = Append(posted[u], n)
          BY <2>2, <2>5, <3>3, <3>5, Zenon
        <4> QED
          BY <1>1, <3>3, <3>4, <3>5, <4>2, <4>3, <4>4, Zenon
      <3>6. CASE ~(level >= currentLevel /\ level >= asked)
        <4>1. posted'[u] = posted[u]
          BY <2>2, <3>3, <3>6, Zenon
        <4>2. OwedOf(from, lines', asked) = OwedOf(from, lines, asked)
          BY <1>1, <3>4, <3>6, Zenon
        <4> QED
          BY <3>1, <3>3, <4>1, <4>2, Zenon
      <3> QED
        BY <3>5, <3>6
    <2>6. u \in subscribers' => Accounted(u)'
      BY <2>1, <2>5, Zenon DEF Accounted
    <2> QED
      BY <2>4, <2>6, Zenon DEF Good
  <1> QED
    BY <1>3, Zenon DEF AllGood

-----------------------------------------------------------------------------

\* The lines invariant is inductive beside the lifetimes: whoever the log
\* posts a line to is owed it, and a line that was posted is written whole, or
\* its rest goes on.
THEOREM LinesInvariance == Spec => []AllGood
  <1>1. Init => AllGood
    <2> SUFFICES ASSUME Init, NEW u \in Viewers PROVE Good(u)
      BY Zenon DEF AllGood
    <2>1. /\ received[u] = <<>> /\ posted[u] = <<>> /\ writes[u] = <<>>
          /\ u \notin subscribers
      BY DEF Init
    <2> QED
      BY <2>1, Zenon DEF Good, Fresh
  <1>2. IInv /\ AllGood /\ [Next]_vars => AllGood'
    <2> SUFFICES ASSUME IInv, AllGood, [Next]_vars PROVE AllGood'
      OBVIOUS
    <2>1. CASE UNCHANGED vars
      <3>1. ASSUME NEW u \in Viewers PROVE Good(u)'
        <4>1. Same(u)
          BY <2>1 DEF vars, sessionVars, Same
        <4>2. Good(u)
          BY Zenon DEF AllGood
        <4> QED
          BY <4>1, <4>2, SameGood
      <3> QED
        BY <3>1, Zenon DEF AllGood
    <2>2. ASSUME NEW v \in Viewers, Accept(v) PROVE AllGood'
      BY <2>2, AcceptGood
    <2>3. ASSUME NEW v \in Viewers, ReadDone(v) PROVE AllGood'
      BY <2>3, ReadDoneGood
    <2>4. ASSUME NEW v \in Viewers, StepDone(v) PROVE AllGood'
      BY <2>4, StepDoneGood
    <2>5. ASSUME NEW v \in Viewers, StepFails(v) PROVE AllGood'
      BY <2>5, StepFailsGood
    <2>6. ASSUME NEW v \in Viewers, PostedRuns(v) PROVE AllGood'
      BY <2>6, PostedRunsGood
    <2>7. ASSUME NEW v \in Viewers, WriteDone(v) PROVE AllGood'
      BY <2>7, WriteDoneGood
    <2>8. ASSUME NEW v \in Viewers, WriteFails(v) PROVE AllGood'
      BY <2>8, WriteFailsGood
    <2>9. ASSUME NEW v \in Viewers, Leave(v) PROVE AllGood'
      BY <2>9, LeaveGood
    <2>10. ASSUME NEW level \in Levels, LogLine(level) PROVE AllGood'
      BY <2>10, LogLineGood
    <2> QED
      BY <2>1, <2>2, <2>3, <2>4, <2>5, <2>6, <2>7, <2>8, <2>9, <2>10 DEF Next
  <1> QED
    BY <1>1, <1>2, Lifetime, PTL DEF Spec

\* While a viewer's socket is open, what it has got, what is being written and
\* what is posted are the lines it is owed, each piece once, and in order
\* unless its socket takes parts of lines.
THEOREM LinesAreAccounted == Spec => []LinesAccounted
  <1>1. IInv /\ AllGood => LinesAccounted
    <2> SUFFICES ASSUME IInv, AllGood, NEW v \in subscribers, socket[v] = "open"
                 PROVE  /\ ToSet(Flow(v)) = Owed(v) /\ IsInjective(Flow(v))
                        /\ v \notin Slow => InOrder(Flow(v))
      BY DEF LinesAccounted
    <2>1. v \in Viewers
      BY DEF IInv, TypeOK
    <2>2. Right(v, FlowOf(received[v], writes[v], posted[v]),
                   OwedOf(since[v], lines, target[v]))
      BY <2>1, Standing
    <2>3. Flow(v) = FlowOf(received[v], writes[v], posted[v])
      BY Zenon DEF Flow, FlowOf, ChunksOf
    <2>4. Owed(v) = OwedOf(since[v], lines, target[v])
      BY Zenon DEF Owed, OwedOf
    <2> QED
      BY <2>2, <2>3, <2>4, Zenon DEF Right
  <1> QED
    BY <1>1, Lifetime, LinesInvariance, PTL

-----------------------------------------------------------------------------
\* Routing: linking, dialling, choosing, and what the rules decide.

\* A set of positions that is not empty has a last one.
LEMMA LastMember ==
    ASSUME NEW k \in Nat, NEW s \in SUBSET (1 .. k), s # {}
    PROVE  \E i \in s : \A j \in s : j <= i
  <1> DEFINE T == {k - x : x \in s}
  <1>1. T \subseteq Nat /\ T # {}
    <2>1. \A x \in s : k - x \in Nat
      OBVIOUS
    <2> QED
      BY <2>1
  <1>2. PICK d \in T : \A e \in T : d <= e
    BY <1>1, LeastMember
  <1>3. PICK x \in s : d = k - x
    BY <1>2
  <1>4. ASSUME NEW y \in s
        PROVE  y <= x
    <2>1. k - y \in T
      OBVIOUS
    <2>2. d <= k - y
      BY <1>2, <2>1
    <2>3. x \in Nat /\ y \in Nat
      OBVIOUS
    <2> HIDE DEF T
    <2> QED
      BY <1>3, <2>2, <2>3
  <1> QED
    BY <1>4

\* The parts of a configuration.
GroupSpecs == [name : STRING, type : STRING, strategy : STRING, proxies : Seq(STRING)]

\* The parts of a configuration have the types of what is read from it.
LEMMA ConfigType ==
    ASSUME NEW c \in Configs
    PROVE  /\ c.groups \in Seq(GroupSpecs) /\ Len(c.groups) \in Nat
           /\ DOMAIN c.groups = 1 .. Len(c.groups)
           /\ \A i \in DOMAIN c.groups : c.groups[i] \in GroupSpecs
  <1>1. c.groups \in Seq(GroupSpecs)
    BY RoutingAssumption DEF GroupSpecs
  <1> HIDE DEF GroupSpecs
  <1> QED
    BY <1>1

\* A created group of a name has a last one of the name.
LEMMA LastGroupIs ==
    ASSUME NEW c \in Configs, NEW n, \E i \in Created(c) : c.groups[i].name = n
    PROVE  /\ LastGroup(c, n) \in Created(c)
           /\ c.groups[LastGroup(c, n)].name = n
  <1> DEFINE s == {i \in Created(c) : c.groups[i].name = n}
  <1>1. s \in SUBSET (1 .. Len(c.groups)) /\ s # {} /\ Len(c.groups) \in Nat
    BY ConfigType DEF Created
  <1>2. PICK i \in s : \A j \in s : j <= i
    BY <1>1, LastMember
  <1>3. /\ i \in Created(c) /\ c.groups[i].name = n
        /\ \A j \in Created(c) : c.groups[j].name = n => j <= i
    BY <1>2
  <1> QED
    BY <1>3, Zenon DEF LastGroup

\* Adapters gives each name a type; among the names is DIRECT.
LEMMA AdaptersType ==
    ASSUME NEW c \in Configs
    PROVE  /\ DOMAIN Adapters(c) \subseteq Named(c)
           /\ "DIRECT" \in DOMAIN Adapters(c)
           /\ \A n \in DOMAIN Adapters(c) : Adapters(c)[n] \in GroupTypes \cup {"leaf"}
           /\ Adapters(c) # <<>>
  <1> DEFINE grouped == {c.groups[i].name : i \in Created(c)}
  <1>1. /\ DOMAIN Adapters(c) = Leaves(c) \cup grouped
        /\ \A n \in DOMAIN Adapters(c) : Adapters(c)[n] =
              IF n \in grouped THEN c.groups[LastGroup(c, n)].type ELSE "leaf"
    BY DEF Adapters
  <1>2. Leaves(c) \cup grouped \subseteq Named(c)
    BY DEF Leaves, Named, Created
  <1>3. ASSUME NEW n \in grouped
        PROVE  c.groups[LastGroup(c, n)].type \in GroupTypes
    BY LastGroupIs DEF Created
  <1>4. "DIRECT" \in DOMAIN Adapters(c)
    BY <1>1 DEF Leaves
  <1>5. DOMAIN <<>> = {}
    OBVIOUS
  <1>6. Adapters(c) # <<>>
    BY <1>4, <1>5
  <1> QED
    BY <1>1, <1>2, <1>3, <1>4, <1>6

\* What the load makes of one group after the other, up to the n-th.
Accumulated == [members : [Names -> Seq(Names)], active : [Names -> Names \cup {None}]]
Linking(f, c, all, n) ==
    /\ f[0] = [members |-> members, active |-> active]
    /\ \A i \in 1 .. n : f[i] = LinkGroup(all, f[i - 1], c.groups[i])

\* The members that are linked are listed, and exist.
LEMMA LinkedType ==
    ASSUME NEW all, NEW list \in Seq(STRING)
    PROVE  Linked(all, list) \in Seq(DOMAIN all \cap Range(list))
  <1> DEFINE T  == DOMAIN all \cap Range(list)
             ss == [i \in DOMAIN list |->
                       IF list[i] \in DOMAIN all THEN << list[i] >> ELSE <<>>]
  <1>1. DOMAIN list = 1 .. Len(list) /\ Len(list) \in Nat
    OBVIOUS
  <1>2. ASSUME NEW i \in DOMAIN list
        PROVE  ss[i] \in Seq(T)
    <2>1. CASE list[i] \in DOMAIN all
      <3>1. list[i] \in T
        BY <2>1 DEF Range
      <3> HIDE DEF T
      <3> QED
        BY <2>1, <3>1
    <2>2. CASE list[i] \notin DOMAIN all
      BY <2>2
    <2> QED
      BY <2>1, <2>2
  <1>3. ss \in Seq(Seq(T))
    <2>1. ss \in [1 .. Len(list) -> Seq(T)]
      BY <1>1, <1>2
    <2> HIDE DEF ss, T
    <2> QED
      BY <1>1, <2>1, FunctionIsSeq
  <1>4. Linked(all, list) = FlattenSeq(ss)
    BY DEF Linked
  <1> HIDE DEF ss, T
  <1>5. FlattenSeq(ss) \in Seq(T)
    BY <1>3, FlattenType
  <1> QED
    BY <1>4, <1>5 DEF T

\* What a group has active once it is linked, by its type.
LEMMA SetProxiesIs ==
    ASSUME NEW T, NEW type \in GroupTypes, NEW list \in Seq(T), NEW now,
           None \notin T
    PROVE  LET new == SetProxies(type, list, now)
           IN  /\ new = now \/ new = None \/ new \in Range(list)
               /\ type = "select" => IF list = <<>> THEN new = None
                                                    ELSE new \in Range(list)
               /\ type \in {"url-test", "fallback"} /\ list # <<>> => new \in Range(list)
               /\ type # "load-balance" /\ now = None =>
                    new = IF list = <<>> THEN None ELSE list[1]
  <1>1. list # <<>> => list[1] \in Range(list)
    <2>1. list # <<>> => 1 \in DOMAIN list
      OBVIOUS
    <2> QED
      BY <2>1 DEF Range
  <1>2. CASE type = "select"
    <2>1. SetProxies(type, list, now) =
            IF list = <<>> THEN None ELSE IF now \in Range(list) THEN now ELSE list[1]
      BY <1>2 DEF SetProxies
    <2>2. None \notin Range(list)
      <3>1. \A i \in DOMAIN list : list[i] \in T
        OBVIOUS
      <3> QED
        BY <3>1 DEF Range
    <2> QED
      BY <1>1, <1>2, <2>1, <2>2
  <1>3. CASE type \in {"url-test", "fallback"}
    <2>1. SetProxies(type, list, now) = IF list = <<>> THEN now ELSE list[1]
      BY <1>3 DEF SetProxies
    <2> QED
      BY <1>1, <1>3, <2>1
  <1>4. CASE type = "load-balance"
    <2>1. SetProxies(type, list, now) = now
      BY <1>4 DEF SetProxies
    <2> QED
      BY <1>4, <2>1
  <1> QED
    BY <1>2, <1>3, <1>4 DEF GroupTypes

\* All adapters of a configuration, as what the lemmas on linking ask of them.
Sound(all) == DOMAIN all \subseteq Names /\ None \notin DOMAIN all

\* The adapters have names, and none is called what stands for no adapter.
LEMMA AdaptersSound ==
    ASSUME NEW c \in Configs
    PROVE  Sound(Adapters(c))
  <1>1. Named(c) \subseteq Names
    BY DEF Names
  <1> QED
    BY <1>1, AdaptersType, RoutingAssumption DEF Sound

\* Linking one group touches that group only.
LEMMA LinkGroupIs ==
    ASSUME NEW all, Sound(all), NEW acc \in Accumulated, NEW g \in GroupSpecs
    PROVE  LET new  == LinkGroup(all, acc, g)
               list == Linked(all, g.proxies)
           IN  /\ new \in Accumulated
               /\ \A n \in Names : n # g.name => /\ new.members[n] = acc.members[n]
                                                 /\ new.active[n] = acc.active[n]
               /\ \/ new = acc /\ (g.name \in DOMAIN all => all[g.name] # g.type
                                                      \/ g.type \notin GroupTypes)
                  \/ /\ g.type \in GroupTypes
                     /\ g.name \in DOMAIN all /\ all[g.name] = g.type
                     /\ new.members[g.name] = list
                     /\ new.active[g.name] = SetProxies(g.type, list, acc.active[g.name])
  <1> DEFINE list == Linked(all, g.proxies)
  <1>1. g.proxies \in Seq(STRING)
    BY DEF GroupSpecs
  <1>2. list \in Seq(DOMAIN all \cap Range(g.proxies))
    BY <1>1, LinkedType
  <1>3. list \in Seq(Names) /\ list \in Seq(DOMAIN all)
    <2> DEFINE T == DOMAIN all \cap Range(g.proxies)
    <2>1. T \subseteq Names /\ T \subseteq DOMAIN all
      BY DEF Sound
    <2>2. list \in Seq(T)
      BY <1>2
    <2> HIDE DEF T, list
    <2> QED
      BY <2>1, <2>2
  <1>4. Range(list) \subseteq Names
    <2> HIDE DEF list
    <2>1. \A i \in DOMAIN list : list[i] \in Names
      BY <1>3
    <2> QED
      BY <2>1 DEF Range
  <1>5. CASE g.type \in GroupTypes /\ g.name \in DOMAIN all /\ all[g.name] = g.type
    <2> DEFINE now == acc.active[g.name]
               to  == SetProxies(g.type, list, now)
    <2>1. LinkGroup(all, acc, g) =
            [members |-> [acc.members EXCEPT ![g.name] = list],
             active  |-> [acc.active EXCEPT ![g.name] = to]]
      BY <1>5, Zenon DEF LinkGroup
    <2>2. g.name \in Names /\ now \in Names \cup {None}
      BY <1>5 DEF Sound, Accumulated
    <2>3. to = now \/ to = None \/ to \in Range(list)
      <3> HIDE DEF list, now
      <3> QED
        BY <1>3, <1>5, SetProxiesIs, Zenon DEF Sound
    <2>4. to \in Names \cup {None}
      BY <1>4, <2>2, <2>3
    <2> HIDE DEF to, list
    <2> DEFINE new == LinkGroup(all, acc, g)
    <2>5. /\ new.members = [acc.members EXCEPT ![g.name] = list]
          /\ new.active = [acc.active EXCEPT ![g.name] = to]
          /\ new = [members |-> new.members, active |-> new.active]
      BY <2>1
    <2>6. acc.members \in [Names -> Seq(Names)] /\ acc.active \in [Names -> Names \cup {None}]
      BY DEF Accumulated
    <2> HIDE DEF new
    <2>7. new \in Accumulated
      <3>1. [acc.members EXCEPT ![g.name] = list] \in [Names -> Seq(Names)]
        BY <1>3, <2>2, <2>6
      <3>2. [acc.active EXCEPT ![g.name] = to] \in [Names -> Names \cup {None}]
        BY <2>2, <2>4, <2>6
      <3> QED
        BY <2>5, <3>1, <3>2 DEF Accumulated
    <2>8. \A n \in Names : n # g.name => /\ new.members[n] = acc.members[n]
                                        /\ new.active[n] = acc.active[n]
      BY <2>5, <2>6
    <2>9. new.members[g.name] = list /\ new.active[g.name] = to
      BY <2>2, <2>5, <2>6
    <2> QED
      BY <1>5, <2>7, <2>8, <2>9, Zenon DEF new, list, to
  <1>6. CASE ~(g.type \in GroupTypes /\ g.name \in DOMAIN all /\ all[g.name] = g.type)
    <2>1. LinkGroup(all, acc, g) = acc
      BY <1>6, Zenon DEF LinkGroup
    <2> QED
      BY <1>6, <2>1
  <1> QED
    BY <1>5, <1>6

\* The fold over the groups is such a chain of links.
LEMMA LinkGroupsIs ==
    ASSUME NEW c \in Configs, NEW all, Sound(all),
           [members |-> members, active |-> active] \in Accumulated
    PROVE  \E f \in [0 .. Len(c.groups) -> Accumulated] :
                /\ Linking(f, c, all, Len(c.groups))
                /\ f[Len(c.groups)] = LinkGroups(c, all)
  <1> DEFINE gs   == c.groups
             m    == Len(gs)
             V    == Accumulated
             base == [members |-> members, active |-> active]
             Body(h) == [s \in SUBSET DOMAIN gs |->
                            IF s = {} THEN base
                            ELSE LET x == Max(s) IN LinkGroup(all, h[s \ {x}], gs[x])]
             g == CHOOSE h : h = Body(h)
  <1>1. LinkGroups(c, all) = g[DOMAIN gs]
    BY Zenon DEF LinkGroups, FoldLeft, MapThenFoldSet
  <1>2. DOMAIN gs = 1 .. m /\ m \in Nat
    BY ConfigType
  <1>3. \A i \in 1 .. m : gs[i] \in GroupSpecs
    BY ConfigType
  <1>4. \A v \in V, i \in 1 .. m : LinkGroup(all, v, gs[i]) \in V
    BY <1>3, LinkGroupIs
  <1> DEFINE F == [q \in V \X (1 .. m) |-> LinkGroup(all, q[1], gs[q[2]])]
  <1>5. F \in [V \X (1 .. m) -> V]
    BY <1>4
  <1>6. \A v \in V, i \in 1 .. m : F[<<v, i>>] = LinkGroup(all, v, gs[i])
    OBVIOUS
  <1>7. base \in V
    OBVIOUS
  <1> HIDE DEF F, gs, m, V, base
  <1>8. PICK h \in [SUBSET (1 .. m) -> V] : Folds(h, F, base, m)
    BY <1>2, <1>5, <1>7, FoldExists
  <1>9. h = Body(h)
    <2>1. ASSUME NEW s \in SUBSET (1 .. m)
          PROVE  h[s] = Body(h)[s]
      <3>1. CASE s = {}
        <4>1. Body(h)[s] = base
          BY <1>2, <3>1
        <4> QED
          BY <1>8, <3>1, <4>1, Zenon DEF Folds
      <3>2. CASE s # {}
        <4>1. Max(s) \in 1 .. m
          BY <1>2, <3>2, GreatestIn
        <4>2. h[s \ {Max(s)}] \in V
          OBVIOUS
        <4>3. h[s] = F[<<h[s \ {Max(s)}], Max(s)>>]
          BY <1>8, <3>2, Zenon DEF Folds
        <4>4. Body(h)[s] = LinkGroup(all, h[s \ {Max(s)}], gs[Max(s)])
          BY <1>2, <3>2, Zenon
        <4> HIDE DEF Body
        <4> QED
          BY <1>6, <4>1, <4>2, <4>3, <4>4, Zenon
      <3> QED
        BY <3>1, <3>2
    <2> QED
      BY <1>2, <2>1
  <1>10. g = Body(g)
    BY <1>9, Zenon
  <1> HIDE DEF g
  <1>11. \A s \in SUBSET (1 .. m) : g[s] =
            IF s = {} THEN base ELSE LinkGroup(all, g[s \ {Max(s)}], gs[Max(s)])
    BY <1>2, <1>10, Zenon
  <1> HIDE DEF Body
  <1>12. g[1 .. 0] = base
    <2>1. 1 .. 0 = {} /\ 1 .. 0 \in SUBSET (1 .. m)
      OBVIOUS
    <2> QED
      BY <1>11, <2>1, Zenon
  <1>13. ASSUME NEW i \in 1 .. m
         PROVE  g[1 .. i] = LinkGroup(all, g[1 .. i - 1], gs[i])
    <2>1. 1 .. i \in SUBSET (1 .. m) /\ 1 .. i # {} /\ i \in 1 .. i /\ i \in Nat
      <3>1. i \in Nat /\ i <= m
        BY <1>2
      <3>2. i \in 1 .. i
        BY <1>2
      <3>3. \A j \in 1 .. i : j \in 1 .. m
        BY <1>2, <3>1
      <3> QED
        BY <3>1, <3>2, <3>3, Zenon
    <2>2. Max(1 .. i) = i
      BY <2>1, GreatestUpto
    <2>3. (1 .. i) \ {i} = 1 .. i - 1
      BY <2>1
    <2> QED
      BY <1>11, <2>1, <2>2, <2>3, Zenon
  <1> DEFINE f == [i \in 0 .. m |-> g[1 .. i]]
  <1>14. \A i \in 1 .. m : f[i] = LinkGroup(all, f[i - 1], gs[i])
    BY <1>2, <1>13
  <1>15. f[0] = base
    BY <1>2, <1>12
  <1>16. f[m] = LinkGroups(c, all)
    BY <1>1, <1>2
  <1>17. DOMAIN f = 0 .. m /\ f = [i \in 0 .. m |-> f[i]]
    OBVIOUS
  <1> HIDE DEF f
  <1>18. f \in [0 .. m -> V]
    <2> DEFINE P == {i \in Nat : i \in 0 .. m => f[i] \in V}
    <2>1. 0 \in P
      BY <1>7, <1>15
    <2>2. ASSUME NEW i \in Nat, i \in P
          PROVE  i + 1 \in P
      <3> SUFFICES ASSUME i + 1 \in 0 .. m
                   PROVE  f[i + 1] \in V
        OBVIOUS
      <3>1. i \in 0 .. m /\ i + 1 \in 1 .. m /\ (i + 1) - 1 = i
        BY <1>2
      <3>2. f[i] \in V
        BY <2>2, <3>1
      <3>3. f[i + 1] = LinkGroup(all, f[i], gs[i + 1])
        BY <1>14, <3>1
      <3> QED
        BY <1>4, <3>1, <3>2, <3>3
    <2> HIDE DEF P
    <2>3. Nat \subseteq P
      BY <2>1, <2>2, Inductive
    <2>4. \A i \in 0 .. m : f[i] \in V
      BY <2>3 DEF P
    <2> QED
      BY <1>17, <2>4
  <1> QED
    BY <1>14, <1>15, <1>16, <1>18, Zenon DEF Linking, base, gs, m, V

\* A group, and the members and the active one it has after k links: listed,
\* existing, nothing before its own link, the first if it is listed once.
Fits(c, all, list, now, n, k) ==
    /\ Range(list) \subseteq DOMAIN all \cap Listed(c, n)
    /\ now # None => now \in DOMAIN all \cap Listed(c, n)
    /\ n \in DOMAIN all /\ all[n] # "load-balance" /\ now = None => list = <<>>
    /\ (\A i \in 1 .. k : c.groups[i].name # n) => list = <<>> /\ now = None
    /\ Once(c, n) /\ n \in DOMAIN all /\ all[n] # "load-balance" =>
            now = IF list = <<>> THEN None ELSE list[1]

\* A link keeps that.
LEMMA FitsStep ==
    ASSUME NEW c \in Configs, NEW all, Sound(all), NEW k \in Nat,
           k + 1 \in 1 .. Len(c.groups), NEW acc \in Accumulated, NEW n \in Names,
           Fits(c, all, acc.members[n], acc.active[n], n, k)
    PROVE  LET new == LinkGroup(all, acc, c.groups[k + 1])
           IN  Fits(c, all, new.members[n], new.active[n], n, k + 1)
  <1> DEFINE g    == c.groups[k + 1]
             new  == LinkGroup(all, acc, g)
             list == Linked(all, g.proxies)
             now  == acc.active[n]
  <1>1. g \in GroupSpecs /\ k + 1 \in DOMAIN c.groups
    BY ConfigType
  <1>2. g.proxies \in Seq(STRING)
    BY <1>1 DEF GroupSpecs
  <1>3. /\ \A x \in Names : x # g.name => /\ new.members[x] = acc.members[x]
                                          /\ new.active[x] = acc.active[x]
        /\ \/ new = acc
           \/ /\ g.type \in GroupTypes
              /\ g.name \in DOMAIN all /\ all[g.name] = g.type
              /\ new.members[g.name] = list
              /\ new.active[g.name] = SetProxies(g.type, list, acc.active[g.name])
    <2>1. /\ \A x \in Names : x # g.name => /\ new.members[x] = acc.members[x]
                                            /\ new.active[x] = acc.active[x]
          /\ \/ new = acc /\ (g.name \in DOMAIN all => all[g.name] # g.type
                                                 \/ g.type \notin GroupTypes)
             \/ /\ g.type \in GroupTypes
                /\ g.name \in DOMAIN all /\ all[g.name] = g.type
                /\ new.members[g.name] = list
                /\ new.active[g.name] = SetProxies(g.type, list, acc.active[g.name])
      <3> HIDE DEF g
      <3> QED
        BY <1>1, LinkGroupIs DEF new
    <2> QED
      BY <2>1, Zenon
  <1>4. \A i \in 1 .. k : i \in 1 .. k + 1
    OBVIOUS
  <1>5. k + 1 \in 1 .. k + 1
    OBVIOUS
  <1> HIDE DEF new
  <1>6. CASE n # g.name
    <2>1. new.members[n] = acc.members[n] /\ new.active[n] = acc.active[n]
      BY <1>3, <1>6
    <2>2. (\A i \in 1 .. k + 1 : c.groups[i].name # n) =>
                (\A i \in 1 .. k : c.groups[i].name # n)
      BY <1>4, Zenon
    <2> QED
      BY <2>1, <2>2, Zenon DEF Fits, new
  <1>7. CASE n = g.name /\ new = acc
    BY <1>5, <1>7, Zenon DEF Fits, new
  <1>8. CASE /\ n = g.name /\ g.type \in GroupTypes
             /\ g.name \in DOMAIN all /\ all[g.name] = g.type
             /\ new.members[g.name] = list
             /\ new.active[g.name] = SetProxies(g.type, list, acc.active[g.name])
    <2> DEFINE T  == DOMAIN all \cap Range(g.proxies)
               to == SetProxies(g.type, list, now)
    <2>1. list \in Seq(T)
      BY <1>2, LinkedType
    <2>2. None \notin T /\ T \subseteq DOMAIN all
      BY DEF Sound
    <2>3. T \subseteq Listed(c, n)
      <3>1. Range(g.proxies) \in {Range(c.groups[i].proxies) :
                i \in {j \in DOMAIN c.groups : c.groups[j].name = n}}
        BY <1>1, <1>8
      <3> QED
        BY <3>1 DEF Listed
    <2> HIDE DEF T, list
    <2>4. Range(list) \subseteq T
      <3>1. \A i \in DOMAIN list : list[i] \in T
        BY <2>1
      <3> QED
        BY <3>1 DEF Range
    <2>5. /\ to = now \/ to = None \/ to \in Range(list)
          /\ g.type = "select" => IF list = <<>> THEN to = None
                                                 ELSE to \in Range(list)
          /\ g.type \in {"url-test", "fallback"} /\ list # <<>> => to \in Range(list)
          /\ g.type # "load-balance" /\ now = None =>
               to = IF list = <<>> THEN None ELSE list[1]
      BY <1>8, <2>1, <2>2, SetProxiesIs
    <2> HIDE DEF to
    <2>6. new.members[n] = list /\ new.active[n] = to
      BY <1>8, Zenon DEF to
    <2>7. Range(list) \subseteq DOMAIN all \cap Listed(c, n)
      BY <2>2, <2>3, <2>4
    <2>8. to # None => to \in DOMAIN all \cap Listed(c, n)
      BY <2>5, <2>7 DEF Fits
    <2>9. ASSUME all[n] # "load-balance", to = None
          PROVE  list = <<>>
      BY <1>8, <2>2, <2>4, <2>5, <2>9 DEF GroupTypes
    <2>10. ~(\A i \in 1 .. k + 1 : c.groups[i].name # n)
      BY <1>5, <1>8
    <2>11. ASSUME Once(c, n), all[n] # "load-balance"
           PROVE  to = IF list = <<>> THEN None ELSE list[1]
      <3>1. ASSUME NEW i \in 1 .. k, c.groups[i].name = n
            PROVE  FALSE
        <4>1. i \in DOMAIN c.groups /\ i # k + 1
          BY ConfigType
        <4> QED
          BY <1>1, <1>8, <2>11, <3>1, <4>1 DEF Once
      <3>2. now = None
        BY <3>1 DEF Fits
      <3> QED
        BY <1>8, <2>5, <2>11, <3>2
    <2> QED
      BY <2>6, <2>7, <2>8, <2>9, <2>10, <2>11 DEF Fits, new
  <1> QED
    BY <1>3, <1>6, <1>7, <1>8

\* Before the groups are linked they have nothing.
Unlinked == \A n \in Names : members[n] = <<>> /\ active[n] = None

\* What the load makes of the groups.
LEMMA LinkedIs ==
    ASSUME NEW c \in Configs, Unlinked,
           members \in [Names -> Seq(Names)], active \in [Names -> Names \cup {None}]
    PROVE  LET all == Adapters(c)
               new == LinkGroups(c, all)
           IN  /\ new \in Accumulated
               /\ \A n \in Names :
                    Fits(c, all, new.members[n], new.active[n], n, Len(c.groups))
  <1> DEFINE all  == Adapters(c)
             m    == Len(c.groups)
             base == [members |-> members, active |-> active]
  <1>1. Sound(all) /\ base \in Accumulated
    BY AdaptersSound DEF Accumulated
  <1> HIDE DEF all
  <1>2. PICK f \in [0 .. m -> Accumulated] :
            Linking(f, c, all, m) /\ f[m] = LinkGroups(c, all)
    BY <1>1, LinkGroupsIs
  <1>3. m \in Nat
    BY ConfigType
  <1>4. f[0].members = members /\ f[0].active = active
    BY <1>2 DEF Linking
  <1> HIDE DEF m
  <1> SUFFICES ASSUME NEW n \in Names
               PROVE  Fits(c, all, f[m].members[n], f[m].active[n], n, m)
    <2>1. f[m] \in Accumulated
      BY <1>3
    <2> QED
      BY <1>2, <2>1 DEF all, m
  <1> DEFINE Q(k) == Fits(c, all, f[k].members[n], f[k].active[n], n, k)
             P    == {k \in Nat : k <= m => Q(k)}
  <1>5. Q(0)
    <2>1. f[0].members[n] = <<>> /\ f[0].active[n] = None
      BY <1>4 DEF Unlinked
    <2>2. Range(<<>>) = {}
      BY DEF Range
    <2> HIDE DEF Q
    <2>3. Fits(c, all, <<>>, None, n, 0)
      BY <2>2 DEF Fits
    <2> QED
      BY <2>1, <2>3, Zenon DEF Q
  <1>6. ASSUME NEW k \in Nat, k + 1 <= m, Q(k)
        PROVE  Q(k + 1)
    <2>1. k + 1 \in 1 .. m /\ k \in 0 .. m /\ (k + 1) - 1 = k
      <3> HIDE DEF P, Q, base
      <3>1. k + 1 \in 1 .. m
        BY <1>3, <1>6
      <3>2. k \in 0 .. m
        BY <1>3, <1>6
      <3>3. (k + 1) - 1 = k
        OBVIOUS
      <3> QED
        BY <3>1, <3>2, <3>3
    <2>2. f[k + 1] = LinkGroup(all, f[k], c.groups[k + 1])
      BY <1>2, <2>1 DEF Linking
    <2>3. f[k] \in Accumulated
      BY <2>1
    <2>4. LET new == LinkGroup(all, f[k], c.groups[k + 1])
          IN  Fits(c, all, new.members[n], new.active[n], n, k + 1)
      BY <1>1, <1>6, <2>1, <2>3, FitsStep DEF m
    <2> QED
      BY <2>2, <2>4, Zenon
  <1> HIDE DEF Q
  <1>7. Nat \subseteq P
    <2>1. 0 \in P
      BY <1>5
    <2>2. ASSUME NEW k \in Nat, k \in P
          PROVE  k + 1 \in P
      BY <1>3, <1>6, <2>2
    <2> HIDE DEF P
    <2> QED
      BY <2>1, <2>2, Inductive
  <1> QED
    BY <1>3, <1>7 DEF Q

\* The levels of what is below a name: the name, and each time what the
\* adapters so far list.
Within(c, n) == {n} \cup UNION {Range(c.groups[i].proxies) : i \in DOMAIN c.groups}
Lower(c, s) == s \cup UNION {Listed(c, m) : m \in s}
Tiers(B, c, n) ==
    /\ B \in [0 .. Len(c.groups) -> SUBSET Within(c, n)]
    /\ B[0] = {n}
    /\ \A k \in 1 .. Len(c.groups) : B[k] = Lower(c, B[k - 1])
    /\ Below(c, n) = B[Len(c.groups)]

\* What is listed below members of a set of names is within it.
LEMMA LowerWithin ==
    ASSUME NEW c, NEW n, NEW s \in SUBSET Within(c, n)
    PROVE  Lower(c, s) \in SUBSET Within(c, n)
  <1>1. ASSUME NEW m, NEW x \in Listed(c, m)
        PROVE  x \in Within(c, n)
    <2>1. PICK i \in DOMAIN c.groups : x \in Range(c.groups[i].proxies)
      BY DEF Listed
    <2>2. Range(c.groups[i].proxies) \in {Range(c.groups[j].proxies) : j \in DOMAIN c.groups}
      OBVIOUS
    <2> QED
      BY <2>1, <2>2 DEF Within
  <1> QED
    BY <1>1 DEF Lower

\* Below is the last of the levels.
LEMMA TiersExist ==
    ASSUME NEW c \in Configs, NEW n
    PROVE  \E B : Tiers(B, c, n)
  <1> DEFINE m == Len(c.groups)
             U == Within(c, n)
             V == SUBSET U
             Body(B) == [k \in 0 .. m |->
                            IF k = 0 THEN {n}
                            ELSE LET above == B[k - 1]
                                 IN  above \cup UNION {Listed(c, x) : x \in above}]
             g == CHOOSE B : B = Body(B)
             F == [q \in V \X (1 .. m) |-> Lower(c, q[1])]
  <1>1. Below(c, n) = g[m]
    BY Zenon DEF Below
  <1>2. m \in Nat
    BY ConfigType
  <1>3. \A v \in V : Lower(c, v) \in V
    BY LowerWithin
  <1>4. F \in [V \X (1 .. m) -> V]
    BY <1>3
  <1>5. \A v \in V, i \in 1 .. m : F[<<v, i>>] = Lower(c, v)
    OBVIOUS
  <1>6. {n} \in V
    BY DEF Within
  <1> HIDE DEF F, V, m
  <1>7. PICK h \in [SUBSET (1 .. m) -> V] : Folds(h, F, {n}, m)
    BY <1>2, <1>4, <1>6, FoldExists
  <1> DEFINE f == [i \in 0 .. m |-> h[1 .. i]]
  <1>8. f \in [0 .. m -> V]
    BY <1>2
  <1>9. f[0] = {n}
    <2>1. 1 .. 0 = {} /\ 1 .. 0 \in SUBSET (1 .. m) /\ 0 \in 0 .. m
      BY <1>2
    <2> QED
      BY <1>7, <2>1, Zenon DEF Folds
  <1>10. ASSUME NEW i \in 1 .. m
         PROVE  f[i] = Lower(c, f[i - 1])
    <2>1. 1 .. i \in SUBSET (1 .. m) /\ 1 .. i # {} /\ i \in 1 .. i /\ i \in Nat
      <3>1. i \in Nat /\ i <= m
        BY <1>2
      <3>2. i \in 1 .. i
        BY <1>2
      <3>3. \A j \in 1 .. i : j \in 1 .. m
        BY <1>2, <3>1
      <3> QED
        BY <3>1, <3>2, <3>3, Zenon
    <2>2. Max(1 .. i) = i
      BY <2>1, GreatestUpto
    <2>3. (1 .. i) \ {i} = 1 .. i - 1
      BY <2>1
    <2>4. h[1 .. i] = F[<<h[1 .. i - 1], i>>]
      BY <1>7, <2>1, <2>2, <2>3, Zenon DEF Folds
    <2>5. i - 1 \in 0 .. m /\ i \in 0 .. m /\ 1 .. i - 1 \in SUBSET (1 .. m)
      BY <1>2
    <2>6. h[1 .. i - 1] \in V
      BY <2>5
    <2>7. h[1 .. i] = Lower(c, h[1 .. i - 1])
      BY <1>5, <2>4, <2>6, Zenon
    <2> QED
      BY <2>5, <2>7
  <1>11. f = Body(f)
    <2>1. ASSUME NEW k \in 0 .. m
          PROVE  f[k] = Body(f)[k]
      <3>1. CASE k = 0
        BY <1>9, <3>1
      <3>2. CASE k # 0
        <4>1. k \in 1 .. m
          BY <1>2, <3>2
        <4>2. f[k] = Lower(c, f[k - 1])
          BY <1>10, <4>1
        <4>3. Body(f)[k] = Lower(c, f[k - 1])
          BY <3>2, Zenon DEF Lower
        <4> QED
          BY <4>2, <4>3, Zenon
      <3> QED
        BY <3>1, <3>2
    <2> HIDE DEF f
    <2> QED
      BY <1>8, <2>1
  <1> HIDE DEF f
  <1>12. g = Body(g)
    BY <1>11, Zenon
  <1> HIDE DEF g
  <1>13. g = [k \in 0 .. m |-> g[k]]
    BY <1>12, Zenon
  <1>14. \A k \in 0 .. m : g[k] = IF k = 0 THEN {n} ELSE Lower(c, g[k - 1])
    <2> SUFFICES ASSUME NEW k \in 0 .. m
                 PROVE  g[k] = IF k = 0 THEN {n} ELSE Lower(c, g[k - 1])
      OBVIOUS
    <2>1. g[k] = Body(g)[k]
      BY <1>12, Zenon
    <2>2. Body(g)[k] = IF k = 0 THEN {n} ELSE Lower(c, g[k - 1])
      BY Zenon DEF Lower
    <2> QED
      BY <2>1, <2>2, Zenon
  <1> HIDE DEF Body
  <1>15. \A k \in 1 .. m : g[k] = Lower(c, g[k - 1])
    <2> SUFFICES ASSUME NEW k \in 1 .. m
                 PROVE  g[k] = Lower(c, g[k - 1])
      OBVIOUS
    <2>1. k \in 0 .. m /\ k # 0
      BY <1>2
    <2> QED
      BY <1>14, <2>1, Zenon
  <1>16. g[0] = {n}
    BY <1>2, <1>14
  <1> DEFINE P == {k \in Nat : k \in 0 .. m => g[k] \in V}
  <1>17. 0 \in P
    BY <1>6, <1>16
  <1>18. ASSUME NEW k \in Nat, k \in P
         PROVE  k + 1 \in P
    <2> SUFFICES ASSUME k + 1 \in 0 .. m
                 PROVE  g[k + 1] \in V
      OBVIOUS
    <2>1. k \in 0 .. m /\ k + 1 \in 1 .. m /\ (k + 1) - 1 = k
      BY <1>2
    <2>2. g[k] \in V
      BY <1>18, <2>1
    <2>3. g[k + 1] = Lower(c, g[k])
      BY <1>15, <2>1
    <2> QED
      BY <1>3, <2>2, <2>3
  <1> HIDE DEF P
  <1>19. Nat \subseteq P
    BY <1>17, <1>18, Inductive
  <1>20. \A k \in 0 .. m : g[k] \in V
    BY <1>19 DEF P
  <1>21. g \in [0 .. m -> V]
    BY <1>13, <1>20
  <1>22. Tiers(g, c, n)
    BY <1>1, <1>15, <1>16, <1>21, Zenon DEF Tiers, m, V
  <1> QED
    BY <1>22, Zenon

\* The positions of the groups whose names are among some.
GroupsAmong(c, s) == {i \in DOMAIN c.groups : c.groups[i].name \in s}
Closed(c, s) == Lower(c, s) = s

\* What a name lists comes from a group of the name.
LEMMA ListedBy ==
    ASSUME NEW c, NEW m, NEW x \in Listed(c, m)
    PROVE  \E i \in DOMAIN c.groups : c.groups[i].name = m
  BY DEF Listed

\* A level is closed, or has met one more group than its number.
LEMMA LevelIs ==
    ASSUME NEW c \in Configs, NEW n, NEW B, Tiers(B, c, n),
           NEW k \in 0 .. Len(c.groups)
    PROVE  Closed(c, B[k]) \/ Cardinality(GroupsAmong(c, B[k])) >= k + 1
  <1> DEFINE m == Len(c.groups)
             I(j) == GroupsAmong(c, B[j])
             Q(j) == Closed(c, B[j]) \/ Cardinality(I(j)) >= j + 1
             P == {j \in Nat : j \in 0 .. m => Q(j)}
  <1>1. m \in Nat /\ DOMAIN c.groups = 1 .. m
    BY ConfigType
  <1>2. IsFiniteSet(1 .. m)
    BY <1>1, FS_Interval
  <1>3. \A j \in 0 .. m : IsFiniteSet(I(j)) /\ Cardinality(I(j)) \in Nat
    <2>1. \A j \in 0 .. m : I(j) \in SUBSET (1 .. m)
      BY <1>1 DEF GroupsAmong
    <2> HIDE DEF I
    <2>2. ASSUME NEW j \in 0 .. m
          PROVE  IsFiniteSet(I(j)) /\ Cardinality(I(j)) \in Nat
      <3>1. IsFiniteSet(I(j))
        BY <1>2, <2>1, FS_Subset
      <3> QED
        BY <3>1, FS_CardinalityType
    <2> QED
      BY <2>2
  <1>4. ASSUME NEW j \in 0 .. m, j + 1 \in 0 .. m
        PROVE  B[j + 1] = Lower(c, B[j])
    <2>1. j + 1 \in 1 .. m /\ (j + 1) - 1 = j
      BY <1>1, <1>4
    <2> QED
      BY <2>1 DEF Tiers
  <1>5. 0 \in P
    <2>1. CASE I(0) = {}
      <3>1. B[0] = {n}
        BY DEF Tiers
      <3>2. \A i \in DOMAIN c.groups : c.groups[i].name # n
        BY <2>1, <3>1 DEF GroupsAmong
      <3>3. \A x : x \notin Listed(c, n)
        BY <3>2, ListedBy
      <3>4. Closed(c, B[0])
        BY <3>1, <3>3 DEF Closed, Lower
      <3> QED
        BY <3>4
    <2>2. CASE I(0) # {}
      <3>1. 0 \in 0 .. m
        BY <1>1
      <3> HIDE DEF I
      <3>2. Cardinality(I(0)) # 0 /\ Cardinality(I(0)) \in Nat
        BY <1>3, <2>2, <3>1, FS_EmptySet
      <3>3. Cardinality(I(0)) >= 0 + 1
        BY <3>2
      <3> QED
        BY <3>3 DEF I
    <2> QED
      BY <2>1, <2>2
  <1>6. ASSUME NEW j \in Nat, j \in P
        PROVE  j + 1 \in P
    <2> SUFFICES ASSUME j + 1 \in 0 .. m
                 PROVE  Q(j + 1)
      OBVIOUS
    <2>1. j \in 0 .. m
      BY <1>1
    <2>2. B[j + 1] = Lower(c, B[j])
      BY <1>4, <2>1
    <2>3. Q(j)
      BY <1>6, <2>1
    <2>4. CASE Closed(c, B[j])
      <3>1. B[j + 1] = B[j]
        BY <2>2, <2>4 DEF Closed
      <3> QED
        BY <2>4, <3>1
    <2>5. CASE ~Closed(c, B[j])
      <3>1. Cardinality(I(j)) >= j + 1
        BY <2>3, <2>5
      <3>2. I(j) \subseteq I(j + 1)
        BY <2>2 DEF GroupsAmong, Lower
      <3>3. CASE I(j) = I(j + 1)
        <4>1. ASSUME NEW x \in B[j + 1], NEW y \in Listed(c, x)
              PROVE  y \in B[j + 1]
          <5>1. PICK i \in DOMAIN c.groups : c.groups[i].name = x
            BY ListedBy, <4>1
          <5>2. i \in I(j + 1)
            BY <5>1 DEF GroupsAmong
          <5>3. x \in B[j]
            BY <3>3, <5>1, <5>2 DEF GroupsAmong
          <5> QED
            BY <2>2, <5>3 DEF Lower
        <4>2. Closed(c, B[j + 1])
          BY <4>1 DEF Closed, Lower
        <4> QED
          BY <4>2
      <3>4. CASE I(j) # I(j + 1)
        <4> HIDE DEF I
        <4>1. /\ IsFiniteSet(I(j + 1)) /\ Cardinality(I(j + 1)) \in Nat
              /\ Cardinality(I(j)) \in Nat
          BY <1>3, <2>1
        <4>2. /\ Cardinality(I(j)) <= Cardinality(I(j + 1))
              /\ Cardinality(I(j + 1)) = Cardinality(I(j)) => I(j + 1) = I(j)
          BY <3>2, <4>1, FS_Subset
        <4>3. Cardinality(I(j + 1)) >= (j + 1) + 1
          BY <3>1, <3>4, <4>1, <4>2
        <4> QED
          BY <4>3 DEF I
      <3> QED
        BY <3>3, <3>4
    <2> QED
      BY <2>4, <2>5
  <1> HIDE DEF P
  <1>7. Nat \subseteq P
    BY <1>5, <1>6, Inductive
  <1>8. k \in P /\ k \in 0 .. m
    BY <1>1, <1>7
  <1> HIDE DEF Q
  <1>9. Q(k)
    BY <1>8 DEF P
  <1> QED
    BY <1>9 DEF Q

\* Below goes to any depth: whatever an adapter below a name lists is below it.
LEMMA BelowClosed ==
    ASSUME NEW c \in Configs, NEW n
    PROVE  /\ n \in Below(c, n)
           /\ \A m \in Below(c, n) : Listed(c, m) \subseteq Below(c, n)
  <1> DEFINE l == Len(c.groups)
  <1>1. PICK B : Tiers(B, c, n)
    BY TiersExist
  <1>2. l \in Nat /\ DOMAIN c.groups = 1 .. l
    BY ConfigType
  <1>3. Below(c, n) = B[l]
    BY <1>1 DEF Tiers
  <1>4. Closed(c, B[l])
    <2> SUFFICES ASSUME ~Closed(c, B[l])
                 PROVE  FALSE
      OBVIOUS
    <2> DEFINE I == GroupsAmong(c, B[l])
    <2>1. l \in 0 .. l
      BY <1>2
    <2>2. Cardinality(I) >= l + 1
      BY <1>1, <2>1, LevelIs
    <2>3. I \in SUBSET (1 .. l)
      BY <1>2 DEF GroupsAmong
    <2> HIDE DEF I
    <2>4. IsFiniteSet(1 .. l) /\ Cardinality(1 .. l) = l
      BY <1>2, FS_Interval
    <2>5. Cardinality(I) <= l /\ Cardinality(I) \in Nat
      BY <2>3, <2>4, FS_Subset, FS_CardinalityType
    <2> QED
      BY <1>2, <2>2, <2>5
  <1> DEFINE P == {k \in Nat : k \in 0 .. l => n \in B[k]}
  <1>5. 0 \in P
    BY <1>1 DEF Tiers
  <1>6. ASSUME NEW k \in Nat, k \in P
        PROVE  k + 1 \in P
    <2> SUFFICES ASSUME k + 1 \in 0 .. l
                 PROVE  n \in B[k + 1]
      OBVIOUS
    <2>1. k \in 0 .. l /\ k + 1 \in 1 .. l /\ (k + 1) - 1 = k
      BY <1>2
    <2>2. n \in B[k]
      BY <1>6, <2>1
    <2>3. B[k + 1] = Lower(c, B[k])
      BY <1>1, <2>1 DEF Tiers
    <2> QED
      BY <2>2, <2>3 DEF Lower
  <1> HIDE DEF P
  <1>7. Nat \subseteq P
    BY <1>5, <1>6, Inductive
  <1>8. n \in B[l]
    BY <1>2, <1>7 DEF P
  <1>9. ASSUME NEW m \in B[l]
        PROVE  Listed(c, m) \subseteq B[l]
    <2>1. Listed(c, m) \subseteq Lower(c, B[l])
      BY DEF Lower
    <2> QED
      BY <1>4, <2>1 DEF Closed
  <1> QED
    BY <1>3, <1>8, <1>9

\* Match on what it reads.
MatchIn(c, all, m) ==
    LET hit  == {i \in ParsedRules(c.rules) : Hits(c.rules[i], m)}
        name == CASE c.mode = "global" -> "GLOBAL"
                  [] c.mode = "direct" -> "DIRECT"
                  [] OTHER -> IF hit = {} THEN "DIRECT"
                              ELSE c.rules[CHOOSE i \in hit : \A j \in hit : i <= j].adapter
    IN  IF name \in DOMAIN all THEN name ELSE "DIRECT"

\* Before the load nothing is there, after it the adapters of the configuration.
LoadInv ==
    /\ proxies = <<>> => at = None /\ trip = NoTrip /\ chosen = <<>>
                         /\ Unlinked /\ \A n \in Names : cursor[n] = 0
    /\ proxies # <<>> => proxies = Adapters(cfg)

\* Groups have adapters that exist and are listed, and nothing active only
\* where they have no members.
GroupsInv ==
    \A n \in Names :
        /\ Range(members[n]) \subseteq DOMAIN proxies \cap Listed(cfg, n)
        /\ active[n] # None => active[n] \in DOMAIN proxies \cap Listed(cfg, n)
        /\ n \in DOMAIN proxies /\ proxies[n] # "load-balance" /\ active[n] = None =>
                members[n] = <<>>

\* A dial began where match() says, or there was none yet.
DialInv ==
    /\ trip = [dest |-> trip.dest, src |-> trip.src, first |-> trip.first,
               end |-> trip.end, failed |-> trip.failed]
    /\ \/ trip = NoTrip /\ at = None
       \/ /\ trip.dest \in Destinations /\ trip.src \in Sources
          /\ proxies # <<>>
          /\ trip.first = MatchIn(cfg, proxies, Metadata(trip.dest, trip.src))

\* And it is below that.
PathInv == StaysBelowRule /\ (at # None => at \in Below(cfg, trip.first))

\* What was chosen: by the cursor exactly where the strategy or an unknown
\* source asks for it, elsewhere by the hash of the source.
Chosen == [group : Names, cursor : BOOLEAN, src : {s.ip : s \in Sources}, index : Nat]
ChosenInv ==
    /\ chosen \in Seq(Chosen)
    /\ \A k \in DOMAIN chosen :
        LET e == chosen[k]
        IN  /\ e.cursor <=> cfg.groups[LastGroup(cfg, e.group)].strategy = "round-robin"
                             \/ e.src = NoAddr
            /\ ~e.cursor => e.index = (hash[e.src] % Len(members[e.group])) + 1

\* A member's turns are known from the cursor.
TurnsInv ==
    \A g \in Names : \A i \in DOMAIN members[g] :
        Turns(g, i) = (cursor[g] + Len(members[g]) - i) \div Len(members[g])

RoutingInv ==
    /\ RoutingTypeOK /\ LoadInv /\ GroupsInv /\ DialInv /\ PathInv
    /\ ChosenInv /\ TurnsInv

-----------------------------------------------------------------------------

\* match() is that operator on the state.
LEMMA MatchIs ==
    ASSUME NEW m
    PROVE  Match(m) = MatchIn(cfg, proxies, m)
  BY Zenon DEF Match, ByRule, TunnelRules, MatchIn

\* A dial begins at an adapter that exists.
LEMMA MatchExists ==
    ASSUME NEW c \in Configs, NEW m
    PROVE  MatchIn(c, Adapters(c), m) \in DOMAIN Adapters(c)
  BY AdaptersType DEF MatchIn

\* The adapters that exist have names.
LEMMA AdaptersNamed ==
    ASSUME NEW c \in Configs
    PROVE  DOMAIN Adapters(c) \subseteq Names /\ None \notin DOMAIN Adapters(c)
  BY AdaptersSound DEF Sound

\* The invariant holds before the load.
LEMMA RoutingStarts ==
    ASSUME RoutingInit
    PROVE  RoutingInv
  <1>1. DOMAIN proxies = {}
    BY DEF RoutingInit
  <1>2. RoutingTypeOK
    BY <1>1 DEF RoutingInit, RoutingTypeOK
  <1>3. LoadInv
    BY DEF RoutingInit, LoadInv, Unlinked
  <1>4. GroupsInv
    <2>1. Range(<<>>) = {}
      BY DEF Range
    <2> QED
      BY <1>1, <2>1 DEF RoutingInit, GroupsInv
  <1>5. DialInv
    BY DEF RoutingInit, DialInv, NoTrip
  <1>6. PathInv
    BY DEF RoutingInit, PathInv, StaysBelowRule, NoTrip
  <1>7. ChosenInv
    BY DEF RoutingInit, ChosenInv
  <1>8. TurnsInv
    BY DEF RoutingInit, TurnsInv
  <1> QED
    BY <1>2, <1>3, <1>4, <1>5, <1>6, <1>7, <1>8 DEF RoutingInv

-----------------------------------------------------------------------------

\* The load keeps the invariant.
LEMMA LoadKeeps ==
    ASSUME RoutingInv, Load
    PROVE  RoutingInv'
  <1> DEFINE all == Adapters(cfg)
             new == LinkGroups(cfg, all)
  <1>1. cfg \in Configs /\ cursor \in [Names -> Nat] /\ at \in Names \cup {None}
        /\ members \in [Names -> Seq(Names)] /\ active \in [Names -> Names \cup {None}]
    BY DEF RoutingInv, RoutingTypeOK
  <1>2. /\ proxies = <<>> /\ at = None /\ trip = NoTrip /\ chosen = <<>>
        /\ Unlinked /\ \A n \in Names : cursor[n] = 0
    BY DEF Load, RoutingInv, LoadInv
  <1>3. /\ proxies' = all /\ members' = new.members /\ active' = new.active
        /\ cfg' = cfg /\ cursor' = cursor /\ at' = at /\ trip' = trip
        /\ chosen' = chosen
    BY DEF Load
  <1>4. /\ new \in Accumulated
        /\ \A n \in Names :
             Fits(cfg, all, new.members[n], new.active[n], n, Len(cfg.groups))
    BY <1>1, <1>2, LinkedIs
  <1>5. all # <<>> /\ \A n \in DOMAIN all : all[n] \in GroupTypes \cup {"leaf"}
    BY <1>1, AdaptersType
  <1> HIDE DEF all, new
  <1>6. RoutingTypeOK'
    BY <1>1, <1>3, <1>4, <1>5 DEF RoutingTypeOK, Accumulated
  <1>7. LoadInv'
    BY <1>3, <1>5 DEF LoadInv, all
  <1>8. GroupsInv'
    <2> SUFFICES ASSUME NEW n \in Names
                 PROVE  /\ Range(members'[n]) \subseteq DOMAIN proxies' \cap Listed(cfg', n)
                        /\ active'[n] # None => active'[n] \in DOMAIN proxies' \cap Listed(cfg', n)
                        /\ n \in DOMAIN proxies' /\ proxies'[n] # "load-balance"
                             /\ active'[n] = None => members'[n] = <<>>
      BY Zenon DEF GroupsInv
    <2>1. Fits(cfg, all, members'[n], active'[n], n, Len(cfg.groups))
      BY <1>3, <1>4, Zenon
    <2> QED
      BY <1>3, <2>1 DEF Fits
  <1>9. DialInv'
    BY <1>2, <1>3 DEF DialInv, NoTrip
  <1>10. PathInv'
    BY <1>2, <1>3 DEF PathInv, StaysBelowRule, NoTrip
  <1>11. ChosenInv'
    BY <1>2, <1>3 DEF ChosenInv
  <1>12. TurnsInv'
    <2> SUFFICES ASSUME NEW g \in Names, NEW i \in DOMAIN members'[g]
                 PROVE  Turns(g, i)' = (cursor'[g] + Len(members'[g]) - i)
                                            \div Len(members'[g])
      BY DEF TurnsInv
    <2>1. members' \in [Names -> Seq(Names)]
      BY <1>3, <1>4 DEF Accumulated
    <2> DEFINE l == Len(members'[g])
    <2>2. l \in Nat /\ i \in 1 .. l
      BY <2>1
    <2>3. cursor'[g] = 0
      BY <1>2, <1>3
    <2>4. Turns(g, i)' = 0
      <3>1. {k \in DOMAIN chosen' : chosen'[k].group = g /\ chosen'[k].cursor
                                      /\ chosen'[k].index = i} = {}
        BY <1>2, <1>3
      <3> QED
        BY <3>1, FS_EmptySet DEF Turns
    <2> HIDE DEF l
    <2>5. (0 + l - i) \div l = 0
      BY <2>2
    <2> QED
      BY <2>3, <2>4, <2>5 DEF l
  <1> QED
    BY <1>6, <1>7, <1>8, <1>9, <1>10, <1>11, <1>12 DEF RoutingInv

-----------------------------------------------------------------------------

\* What the steps of a dial have in common: they leave the groups alone, and
\* begin only after the load.
LEMMA TablesStay ==
    ASSUME RoutingInv, UNCHANGED tables, proxies # <<>>
    PROVE  /\ LoadInv'
           /\ UNCHANGED active => GroupsInv'
  <1>1. LoadInv'
    BY DEF RoutingInv, LoadInv, tables
  <1>2. ASSUME UNCHANGED active
        PROVE  GroupsInv'
    BY <1>2 DEF RoutingInv, GroupsInv, tables
  <1> QED
    BY <1>1, <1>2

\* And what was chosen stays as it was, when nothing is.
LEMMA ChoicesStay ==
    ASSUME RoutingInv, UNCHANGED <<tables, cursor, chosen>>
    PROVE  ChosenInv' /\ TurnsInv'
  <1>1. ChosenInv'
    BY DEF RoutingInv, ChosenInv, tables
  <1>2. TurnsInv'
    BY DEF RoutingInv, TurnsInv, Turns, tables
  <1> QED
    BY <1>1, <1>2

\* A dial that begins keeps the invariant.
LEMMA DialKeeps ==
    ASSUME RoutingInv, NEW dest \in Destinations, NEW src \in Sources, Dial(dest, src)
    PROVE  RoutingInv'
  <1> DEFINE first == Match(Metadata(dest, src))
  <1>1. /\ proxies # <<>> /\ at' = first
        /\ trip' = [dest |-> dest, src |-> src, first |-> first, end |-> None,
                    failed |-> FALSE]
        /\ UNCHANGED <<tables, active, cursor, chosen>>
    BY DEF Dial
  <1>2. cfg \in Configs /\ proxies = Adapters(cfg)
    BY <1>1 DEF RoutingInv, RoutingTypeOK, LoadInv
  <1>3. first = MatchIn(cfg, proxies, Metadata(dest, src))
    BY MatchIs
  <1>4. first \in DOMAIN proxies /\ first \in Names
    BY <1>2, <1>3, MatchExists, AdaptersNamed
  <1> HIDE DEF first
  <1>5. RoutingTypeOK'
    BY <1>1, <1>4 DEF RoutingInv, RoutingTypeOK, tables
  <1>6. LoadInv' /\ GroupsInv'
    BY <1>1, TablesStay
  <1>7. DialInv'
    BY <1>1, <1>3 DEF DialInv, tables
  <1>8. PathInv'
    <2>1. first \in Below(cfg, first)
      BY <1>2, BelowClosed
    <2> QED
      BY <1>1, <1>4, <2>1 DEF PathInv, StaysBelowRule, tables
  <1>9. ChosenInv' /\ TurnsInv'
    BY <1>1, ChoicesStay
  <1> QED
    BY <1>5, <1>6, <1>7, <1>8, <1>9 DEF RoutingInv

\* While a dial is under way the adapters are there.
LEMMA OnTheWay ==
    ASSUME RoutingInv, at # None
    PROVE  /\ cfg \in Configs /\ proxies # <<>> /\ proxies = Adapters(cfg)
           /\ at \in DOMAIN proxies /\ at \in Names /\ at \in Below(cfg, trip.first)
           /\ trip.dest \in Destinations /\ trip.src \in Sources
           /\ trip.first = MatchIn(cfg, proxies, Metadata(trip.dest, trip.src))
  BY DEF RoutingInv, RoutingTypeOK, LoadInv, DialInv, PathInv, StaysBelowRule

\* The dial goes on at a member, or has met a group without members.
LEMMA PassKeeps ==
    ASSUME RoutingInv, at # None, NEW n, Pass(n), UNCHANGED tables,
           n # None => n \in DOMAIN proxies \cap Listed(cfg, at),
           n = None => proxies[at] # "leaf" /\ members[at] = <<>>
    PROVE  at' \in Names \cup {None} /\ DialInv' /\ PathInv'
  <1>1. /\ cfg \in Configs /\ proxies # <<>> /\ proxies = Adapters(cfg)
        /\ at \in DOMAIN proxies /\ at \in Names /\ at \in Below(cfg, trip.first)
        /\ trip.dest \in Destinations /\ trip.src \in Sources
        /\ trip.first = MatchIn(cfg, proxies, Metadata(trip.dest, trip.src))
    BY OnTheWay
  <1>2. trip = [dest |-> trip.dest, src |-> trip.src, first |-> trip.first,
                end |-> trip.end, failed |-> trip.failed]
    BY DEF RoutingInv, DialInv
  <1>3. cfg' = cfg /\ proxies' = proxies /\ members' = members
    BY DEF tables
  <1>4. StaysBelowRule
    BY DEF RoutingInv, PathInv
  <1>5. CASE n # None
    <2>1. at' = n /\ trip' = trip
      BY <1>5 DEF Pass
    <2>2. n \in Names
      BY <1>1, <1>5, AdaptersNamed
    <2>3. n \in Below(cfg, trip.first)
      BY <1>1, <1>5, BelowClosed
    <2>4. DialInv'
      BY <1>1, <1>2, <1>3, <2>1 DEF DialInv
    <2>5. PathInv'
      BY <1>3, <1>4, <1>5, <2>1, <2>3 DEF PathInv, StaysBelowRule
    <2> QED
      BY <2>1, <2>2, <2>4, <2>5
  <1>6. CASE n = None
    <2>1. at' = None /\ trip' = [trip EXCEPT !.failed = TRUE]
      BY <1>6 DEF Pass
    <2>2. /\ trip'.dest = trip.dest /\ trip'.src = trip.src
          /\ trip'.first = trip.first /\ trip'.end = trip.end
          /\ trip' = [dest |-> trip'.dest, src |-> trip'.src, first |-> trip'.first,
                      end |-> trip'.end, failed |-> trip'.failed]
      BY <1>2, <2>1
    <2>3. DialInv'
      BY <1>1, <1>3, <2>2 DEF DialInv
    <2>4. PathInv'
      <3>1. \E g \in Below(cfg, trip.first) :
                g \in DOMAIN proxies /\ proxies[g] # "leaf" /\ members[g] = <<>>
        BY <1>1, <1>6
      <3> QED
        BY <1>3, <1>4, <2>1, <2>2, <3>1 DEF PathInv, StaysBelowRule
    <2> QED
      BY <2>1, <2>3, <2>4
  <1> QED
    BY <1>5, <1>6

\* A group with a choice passes the dial on to it.
LEMMA PassActiveKeeps ==
    ASSUME RoutingInv, PassActive
    PROVE  RoutingInv'
  <1>1. /\ at # None /\ proxies[at] \in {"select", "url-test", "fallback"}
        /\ Pass(active[at]) /\ UNCHANGED <<tables, active, cursor, chosen>>
    BY DEF PassActive
  <1>2. proxies # <<>> /\ at \in DOMAIN proxies /\ at \in Names
    BY <1>1, OnTheWay
  <1>3. /\ active[at] # None => active[at] \in DOMAIN proxies \cap Listed(cfg, at)
        /\ active[at] = None => members[at] = <<>>
    BY <1>1, <1>2 DEF RoutingInv, GroupsInv
  <1>4. at' \in Names \cup {None} /\ DialInv' /\ PathInv'
    BY <1>1, <1>3, PassKeeps
  <1>5. RoutingTypeOK'
    BY <1>1, <1>4 DEF RoutingInv, RoutingTypeOK, tables
  <1>6. LoadInv' /\ GroupsInv'
    BY <1>1, <1>2, TablesStay
  <1>7. ChosenInv' /\ TurnsInv'
    BY <1>1, ChoicesStay
  <1> QED
    BY <1>4, <1>5, <1>6, <1>7 DEF RoutingInv

\* The turns of a member, counted among some choices.
TurnsIn(s, g, i) == Cardinality({k \in DOMAIN s :
    s[k].group = g /\ s[k].cursor /\ s[k].index = i})

\* A choice more is a turn more of the member it is of, if the cursor made it.
TurnCounts(s, t, e, g, i) ==
    /\ TurnsIn(s, g, i) \in Nat
    /\ e.group = g /\ e.cursor /\ e.index = i => TurnsIn(t, g, i) = TurnsIn(s, g, i) + 1
    /\ ~(e.group = g /\ e.cursor /\ e.index = i) => TurnsIn(t, g, i) = TurnsIn(s, g, i)

\* A choice more counts as TurnCounts says.
LEMMA TurnsAppend ==
    ASSUME NEW s \in Seq(Chosen), NEW e \in Chosen, NEW t, t = Append(s, e),
           NEW g, NEW i
    PROVE  TurnCounts(s, t, e, g, i)
  <1> DEFINE n  == Len(s)
             S  == {k \in DOMAIN s : s[k].group = g /\ s[k].cursor /\ s[k].index = i}
             S1 == {k \in DOMAIN t : t[k].group = g /\ t[k].cursor /\ t[k].index = i}
  <1>1. n \in Nat /\ DOMAIN s = 1 .. n
    OBVIOUS
  <1>2. /\ DOMAIN t = 1 .. n + 1 /\ t[n + 1] = e
        /\ \A k \in 1 .. n : t[k] = s[k]
    OBVIOUS
  <1>3. TurnsIn(s, g, i) = Cardinality(S) /\ TurnsIn(t, g, i) = Cardinality(S1)
    BY DEF TurnsIn
  <1>4. S \in SUBSET (1 .. n) /\ n + 1 \notin S
    BY <1>1
  <1>5. S1 = IF e.group = g /\ e.cursor /\ e.index = i THEN S \cup {n + 1} ELSE S
    <2>1. 1 .. n + 1 = (1 .. n) \cup {n + 1}
      BY <1>1
    <2>2. \A k \in 1 .. n : k \in S1 <=> k \in S
      BY <1>1, <1>2, <2>1
    <2>3. n + 1 \in S1 <=> e.group = g /\ e.cursor /\ e.index = i
      BY <1>1, <1>2
    <2>4. S1 \subseteq 1 .. n + 1 /\ S \subseteq 1 .. n
      BY <1>1, <1>2
    <2> HIDE DEF S, S1, n
    <2>5. CASE e.group = g /\ e.cursor /\ e.index = i
      <3>1. S1 = S \cup {n + 1}
        BY <2>1, <2>2, <2>3, <2>4, <2>5
      <3> QED
        BY <2>5, <3>1
    <2>6. CASE ~(e.group = g /\ e.cursor /\ e.index = i)
      <3>1. S1 = S
        BY <2>1, <2>2, <2>3, <2>4, <2>6
      <3> QED
        BY <2>6, <3>1
    <2> QED
      BY <2>5, <2>6
  <1> HIDE DEF S, S1
  <1>6. IsFiniteSet(S) /\ Cardinality(S) \in Nat
    <2>1. IsFiniteSet(1 .. n)
      BY <1>1, FS_Interval
    <2>2. IsFiniteSet(S)
      BY <1>4, <2>1, FS_Subset
    <2> QED
      BY <2>2, FS_CardinalityType
  <1>7. Cardinality(S \cup {n + 1}) = Cardinality(S) + 1
    BY <1>4, <1>6, FS_AddElement
  <1> QED
    BY <1>3, <1>5, <1>6, <1>7 DEF TurnCounts

\* Quotient and remainder of a number.
LEMMA Divided ==
    ASSUME NEW x \in Int, NEW n \in Nat \ {0}, NEW q \in Int, NEW r \in 0 .. n - 1,
           x = n * q + r
    PROVE  x \div n = q /\ x % n = r
  OBVIOUS

\* When the cursor moves on, the turn of the member it pointed at is over, and
\* no other.
LEMMA CursorMoves ==
    ASSUME NEW c \in Nat, NEW n \in Nat \ {0}, NEW i \in 1 .. n
    PROVE  (c + 1 + n - i) \div n =
                IF i = (c % n) + 1 THEN ((c + n - i) \div n) + 1 ELSE (c + n - i) \div n
  <1> DEFINE q == c \div n
             r == c % n
  <1>1. q \in Nat /\ r \in 0 .. n - 1 /\ c = n * q + r
    OBVIOUS
  <1> HIDE DEF q, r
  <1>2. n * (q + 1) = n * q + n
    BY <1>1
  <1> DEFINE p == n * q
  <1>3. p \in Int /\ n * (q + 1) = p + n /\ c = p + r
    BY <1>1, <1>2
  <1>4. CASE i = r + 1
    <2>1. c + n - i = p + (n - 1) /\ c + 1 + n - i = (p + n) + 0
      BY <1>1, <1>3, <1>4
    <2>2. (c + n - i) \div n = q
      <3> HIDE DEF p
      <3>1. c + n - i \in Int /\ n - 1 \in 0 .. n - 1
        BY <1>3, <1>4
      <3>2. c + n - i = n * q + (n - 1)
        BY <2>1 DEF p
      <3> QED
        BY <1>1, <3>1, <3>2, Divided
    <2>3. (c + 1 + n - i) \div n = q + 1
      <3>1. c + 1 + n - i \in Int /\ 0 \in 0 .. n - 1 /\ q + 1 \in Int
        BY <1>1
      <3>2. c + 1 + n - i = n * (q + 1) + 0
        BY <1>3, <2>1
      <3> QED
        BY <3>1, <3>2, Divided
    <2> QED
      BY <1>4, <2>2, <2>3 DEF r
  <1>5. CASE i < r + 1
    <2>1. c + n - i = (p + n) + (r - i) /\ c + 1 + n - i = (p + n) + (r + 1 - i)
      BY <1>1, <1>3
    <2>2. (c + n - i) \div n = q + 1
      <3>1. c + n - i \in Int /\ r - i \in 0 .. n - 1 /\ q + 1 \in Int
        BY <1>1, <1>5
      <3>2. c + n - i = n * (q + 1) + (r - i)
        BY <1>3, <2>1
      <3> QED
        BY <3>1, <3>2, Divided
    <2>3. (c + 1 + n - i) \div n = q + 1
      <3>1. c + 1 + n - i \in Int /\ r + 1 - i \in 0 .. n - 1 /\ q + 1 \in Int
        BY <1>1, <1>5
      <3>2. c + 1 + n - i = n * (q + 1) + (r + 1 - i)
        BY <1>3, <2>1
      <3> QED
        BY <3>1, <3>2, Divided
    <2>4. i # (c % n) + 1
      BY <1>1, <1>5 DEF r
    <2> QED
      BY <2>2, <2>3, <2>4
  <1>6. CASE i > r + 1
    <2>1. c + n - i = p + (n + r - i) /\ c + 1 + n - i = p + (n + r + 1 - i)
      BY <1>1, <1>3
    <2>2. (c + n - i) \div n = q
      <3>1. c + n - i \in Int /\ n + r - i \in 0 .. n - 1
        BY <1>1, <1>6
      <3>2. c + n - i = n * q + (n + r - i)
        BY <2>1
      <3> QED
        BY <1>1, <3>1, <3>2, Divided
    <2>3. (c + 1 + n - i) \div n = q
      <3>1. c + 1 + n - i \in Int /\ n + r + 1 - i \in 0 .. n - 1
        BY <1>1, <1>6
      <3>2. c + 1 + n - i = n * q + (n + r + 1 - i)
        BY <2>1
      <3> QED
        BY <1>1, <3>1, <3>2, Divided
    <2>4. i # (c % n) + 1
      BY <1>1, <1>6 DEF r
    <2> QED
      BY <2>2, <2>3, <2>4
  <1> QED
    BY <1>1, <1>4, <1>5, <1>6

\* A choice by the cursor, or by the hash of the source.
BalancedChoice(byCursor, by) ==
    /\ byCursor <=> ByCursor(at)
    /\ by = IF byCursor THEN cursor[at] ELSE hash[trip.src.ip]
    /\ cursor' = IF byCursor THEN NextCursor(at) ELSE cursor
    /\ chosen' = Append(chosen, [group |-> at, cursor |-> byCursor,
                                 src |-> trip.src.ip,
                                 index |-> (by % Len(members[at])) + 1])

\* It keeps what is known of the choices.
LEMMA BalancedKeeps ==
    ASSUME RoutingInv, UNCHANGED tables, at \in Names, trip.src \in Sources,
           members[at] # <<>>,
           NEW byCursor \in BOOLEAN, NEW by \in Nat, BalancedChoice(byCursor, by)
    PROVE  /\ cursor' \in [Names -> Nat]
           /\ ChosenInv' /\ TurnsInv'
  <1> DEFINE n == Len(members[at])
             e == [group |-> at, cursor |-> byCursor, src |-> trip.src.ip,
                   index |-> (by % n) + 1]
  <1>1. /\ members \in [Names -> Seq(Names)] /\ cursor \in [Names -> Nat]
        /\ cfg' = cfg /\ members' = members
        /\ chosen \in Seq(Chosen)
    BY DEF RoutingInv, RoutingTypeOK, ChosenInv, tables
  <1>2. n \in Nat \ {0}
    BY <1>1
  <1>3. (by % n) + 1 \in Nat
    <2> HIDE DEF n
    <2> QED
      BY <1>2
  <1>4. e \in Chosen /\ chosen' = Append(chosen, e)
    <2>1. (by % n) + 1 \in Nat
      BY <1>3, Zenon
    <2>2. trip.src.ip \in {s.ip : s \in Sources}
      OBVIOUS
    <2> HIDE DEF n
    <2> QED
      BY <2>1, <2>2 DEF Chosen, n, BalancedChoice
  <1>5. /\ e.group = at /\ e.cursor = byCursor /\ e.src = trip.src.ip
        /\ e.index = (by % n) + 1
    OBVIOUS
  <1> HIDE DEF e
  <1>6. cursor' \in [Names -> Nat]
    <2>1. CASE byCursor
      <3>1. cursor' = [cursor EXCEPT ![at] = @ + 1]
        BY <2>1 DEF NextCursor, BalancedChoice
      <3>2. cursor[at] + 1 \in Nat
        BY <1>1
      <3> QED
        BY <1>1, <3>1, <3>2
    <2>2. CASE ~byCursor
      BY <1>1, <2>2 DEF BalancedChoice
    <2> QED
      BY <2>1, <2>2
  <1>7. ChosenInv'
    <2>1. chosen' \in Seq(Chosen)
      BY <1>1, <1>4
    <2>2. ASSUME NEW k \in DOMAIN chosen'
          PROVE  LET x == chosen'[k]
                 IN  /\ x.cursor <=> cfg'.groups[LastGroup(cfg', x.group)].strategy
                                            = "round-robin" \/ x.src = NoAddr
                     /\ ~x.cursor => x.index = (hash[x.src] % Len(members'[x.group])) + 1
      <3>1. CASE k \in DOMAIN chosen
        <4>1. chosen'[k] = chosen[k]
          BY <1>1, <1>4, <3>1
        <4>2. LET x == chosen[k]
              IN  /\ x.cursor <=> cfg.groups[LastGroup(cfg, x.group)].strategy
                                        = "round-robin" \/ x.src = NoAddr
                  /\ ~x.cursor => x.index = (hash[x.src] % Len(members[x.group])) + 1
          BY <3>1 DEF RoutingInv, ChosenInv
        <4> QED
          BY <1>1, <4>1, <4>2
      <3>2. CASE k \notin DOMAIN chosen
        <4>1. chosen'[k] = e
          <5> DEFINE m == Len(chosen)
          <5>1. /\ m \in Nat /\ DOMAIN chosen = 1 .. m
                /\ DOMAIN chosen' = 1 .. m + 1 /\ chosen'[m + 1] = e
            BY <1>1, <1>4
          <5> HIDE DEF m
          <5>2. k = m + 1
            BY <3>2, <5>1
          <5> QED
            BY <5>1, <5>2
        <4>2. e.cursor <=> cfg.groups[LastGroup(cfg, at)].strategy = "round-robin"
                             \/ trip.src.ip = NoAddr
          BY <1>5 DEF ByCursor, Strategy, BalancedChoice
        <4>3. ~e.cursor => e.index = (hash[trip.src.ip] % n) + 1
          BY <1>5 DEF BalancedChoice
        <4> QED
          BY <1>1, <1>5, <4>1, <4>2, <4>3 DEF n
      <3> QED
        BY <3>1, <3>2
    <2> QED
      BY <2>1, <2>2 DEF ChosenInv
  <1>8. TurnsInv'
    <2> SUFFICES ASSUME NEW g \in Names, NEW i \in DOMAIN members'[g]
                 PROVE  Turns(g, i)' = (cursor'[g] + Len(members'[g]) - i)
                                            \div Len(members'[g])
      BY DEF TurnsInv
    <2> DEFINE l == Len(members[g])
    <2>1. i \in 1 .. l /\ l \in Nat \ {0}
      <3>1. members[g] \in Seq(Names) /\ i \in DOMAIN members[g]
        BY <1>1
      <3>2. l \in Nat /\ i \in 1 .. l
        BY <3>1
      <3> QED
        BY <3>2
    <2>2. Turns(g, i) = (cursor[g] + l - i) \div l
      BY <1>1 DEF RoutingInv, TurnsInv
    <2>3. /\ e.group = g /\ e.cursor /\ e.index = i =>
                    Turns(g, i)' = Turns(g, i) + 1
          /\ ~(e.group = g /\ e.cursor /\ e.index = i) =>
                    Turns(g, i)' = Turns(g, i)
      <3>1. Turns(g, i) = TurnsIn(chosen, g, i) /\ Turns(g, i)' = TurnsIn(chosen', g, i)
        BY DEF Turns, TurnsIn
      <3> QED
        <4>1. TurnCounts(chosen, chosen', e, g, i)
          BY <1>1, <1>4, TurnsAppend, Zenon
        <4> QED
          BY <3>1, <4>1 DEF TurnCounts
    <2>4. cursor[g] \in Nat
      BY <1>1
    <2> HIDE DEF l
    <2>5. CASE g = at /\ byCursor
      <3>1. cursor'[g] = cursor[g] + 1
        BY <1>1, <2>5 DEF NextCursor, BalancedChoice
      <3>2. l = n /\ by = cursor[g]
        BY <2>5 DEF l, BalancedChoice
      <3> HIDE DEF n
      <3>3. e.group = g /\ e.cursor /\ (e.index = i <=> i = (cursor[g] % l) + 1)
        BY <1>5, <2>5, <3>2
      <3>4. (cursor[g] + 1 + l - i) \div l =
                IF i = (cursor[g] % l) + 1 THEN ((cursor[g] + l - i) \div l) + 1
                                           ELSE (cursor[g] + l - i) \div l
        BY <2>1, <2>4, CursorMoves
      <3> QED
        BY <1>1, <2>2, <2>3, <3>1, <3>3, <3>4 DEF l
    <2>6. CASE ~(g = at /\ byCursor)
      <3>1. cursor'[g] = cursor[g]
        BY <1>1, <2>6 DEF NextCursor, BalancedChoice
      <3>2. ~(e.group = g /\ e.cursor)
        BY <1>5, <2>6
      <3> QED
        BY <1>1, <2>2, <2>3, <3>1, <3>2 DEF l
    <2> QED
      BY <2>5, <2>6
  <1> QED
    BY <1>6, <1>7, <1>8

\* A balancing group passes the dial on to a member.
LEMMA PassBalancedKeeps ==
    ASSUME RoutingInv, PassBalanced
    PROVE  RoutingInv'
  <1>1. /\ at # None /\ proxies[at] = "load-balance"
        /\ UNCHANGED <<tables, active>>
    BY DEF PassBalanced
  <1>2. proxies # <<>> /\ at \in DOMAIN proxies /\ at \in Names /\ trip.src \in Sources
    BY <1>1, OnTheWay
  <1>3. LoadInv' /\ GroupsInv'
    BY <1>1, <1>2, TablesStay
  <1>4. CASE members[at] = <<>>
    <2>1. Pass(None) /\ UNCHANGED <<cursor, chosen>>
      BY <1>4 DEF PassBalanced
    <2>2. at' \in Names \cup {None} /\ DialInv' /\ PathInv'
      BY <1>1, <1>4, <2>1, PassKeeps
    <2>3. RoutingTypeOK'
      BY <1>1, <2>1, <2>2 DEF RoutingInv, RoutingTypeOK, tables
    <2>4. ChosenInv' /\ TurnsInv'
      BY <1>1, <2>1, ChoicesStay
    <2> QED
      BY <1>3, <2>2, <2>3, <2>4 DEF RoutingInv
  <1>5. CASE members[at] # <<>>
    <2> DEFINE by    == IF ByCursor(at) THEN cursor[at] ELSE hash[trip.src.ip]
               index == (by % Len(members[at])) + 1
    <2>1. /\ cursor' = IF ByCursor(at) THEN NextCursor(at) ELSE cursor
          /\ chosen' = Append(chosen, [group |-> at, cursor |-> ByCursor(at),
                                       src |-> trip.src.ip, index |-> index])
          /\ Pass(members[at][index])
      BY <1>5, Zenon DEF PassBalanced
    <2>2. PICK byCursor \in BOOLEAN : byCursor = ByCursor(at)
      BY DEF ByCursor
    <2>3. members \in [Names -> Seq(Names)] /\ cursor \in [Names -> Nat]
      BY DEF RoutingInv, RoutingTypeOK
    <2>4. by \in Nat
      <3>1. CASE ByCursor(at)
        BY <1>2, <2>3, <3>1
      <3>2. CASE ~ByCursor(at)
        <4>1. trip.src.ip # NoAddr
          BY <3>2 DEF ByCursor
        <4>2. hash[trip.src.ip] \in Nat
          BY <1>2, <4>1, RoutingAssumption
        <4> QED
          BY <3>2, <4>2
      <3> QED
        BY <3>1, <3>2
    <2>5. Len(members[at]) \in Nat \ {0} /\ members[at] \in Seq(Names)
      BY <1>2, <1>5, <2>3
    <2>6. index \in DOMAIN members[at]
      <3> HIDE DEF by
      <3> DEFINE l == Len(members[at])
      <3>1. l \in Nat \ {0} /\ DOMAIN members[at] = 1 .. l
        BY <2>5
      <3>2. index = (by % l) + 1
        OBVIOUS
      <3> HIDE DEF l, index
      <3>3. by % l \in 0 .. l - 1
        BY <2>4, <3>1
      <3> QED
        BY <3>1, <3>2, <3>3
    <2>7. /\ members[at][index] \in DOMAIN proxies \cap Listed(cfg, at)
          /\ members[at][index] # None
      <3> HIDE DEF index
      <3>1. members[at][index] \in Range(members[at])
        BY <2>6 DEF Range
      <3>2. members[at][index] \in DOMAIN proxies \cap Listed(cfg, at)
        BY <1>2, <3>1 DEF RoutingInv, GroupsInv
      <3>3. None \notin DOMAIN proxies
        BY <1>1, OnTheWay, AdaptersNamed
      <3> QED
        BY <3>2, <3>3
    <2> HIDE DEF index
    <2>8. at' \in Names \cup {None} /\ DialInv' /\ PathInv'
      BY <1>1, <2>1, <2>7, PassKeeps
    <2> HIDE DEF by
    <2>9. /\ cursor' \in [Names -> Nat] /\ ChosenInv' /\ TurnsInv'
      <3>1. by = IF byCursor THEN cursor[at] ELSE hash[trip.src.ip]
        BY <2>2 DEF by
      <3>2. cursor' = IF byCursor THEN NextCursor(at) ELSE cursor
        BY <2>1, <2>2
      <3>3. chosen' = Append(chosen, [group |-> at, cursor |-> byCursor,
                                      src |-> trip.src.ip,
                                      index |-> (by % Len(members[at])) + 1])
        BY <2>1, <2>2, Zenon DEF index
      <3>4. byCursor <=> ByCursor(at)
        BY <2>2
      <3> QED
        BY <1>1, <1>2, <1>5, <2>4, <3>1, <3>2, <3>3, <3>4, BalancedKeeps
           DEF BalancedChoice
    <2>10. RoutingTypeOK'
      BY <1>1, <2>8, <2>9 DEF RoutingInv, RoutingTypeOK, tables
    <2> QED
      BY <1>3, <2>8, <2>9, <2>10 DEF RoutingInv
  <1> QED
    BY <1>4, <1>5

\* A dial that ends at a leaf.
LEMMA ArriveKeeps ==
    ASSUME RoutingInv, Arrive
    PROVE  RoutingInv'
  <1>1. /\ at # None /\ at' = None /\ trip' = [trip EXCEPT !.end = at]
        /\ UNCHANGED <<tables, active, cursor, chosen>>
    BY DEF Arrive
  <1>2. /\ proxies # <<>> /\ at \in Below(cfg, trip.first)
        /\ trip.dest \in Destinations /\ trip.src \in Sources
        /\ trip.first = MatchIn(cfg, proxies, Metadata(trip.dest, trip.src))
    BY <1>1, OnTheWay
  <1>3. trip = [dest |-> trip.dest, src |-> trip.src, first |-> trip.first,
                end |-> trip.end, failed |-> trip.failed]
    BY DEF RoutingInv, DialInv
  <1>4. /\ trip'.dest = trip.dest /\ trip'.src = trip.src
        /\ trip'.first = trip.first /\ trip'.failed = trip.failed /\ trip'.end = at
        /\ trip' = [dest |-> trip'.dest, src |-> trip'.src, first |-> trip'.first,
                    end |-> trip'.end, failed |-> trip'.failed]
    BY <1>1, <1>3
  <1>5. cfg' = cfg /\ proxies' = proxies /\ members' = members
    BY <1>1 DEF tables
  <1>6. RoutingTypeOK'
    BY <1>1 DEF RoutingInv, RoutingTypeOK, tables
  <1>7. LoadInv' /\ GroupsInv'
    BY <1>1, <1>2, TablesStay
  <1>8. DialInv'
    BY <1>1, <1>2, <1>4, <1>5 DEF DialInv
  <1>9. PathInv'
    <2>1. StaysBelowRule
      BY DEF RoutingInv, PathInv
    <2> QED
      BY <1>1, <1>2, <1>4, <1>5, <2>1 DEF PathInv, StaysBelowRule
  <1>10. ChosenInv' /\ TurnsInv'
    BY <1>1, ChoicesStay
  <1> QED
    BY <1>6, <1>7, <1>8, <1>9, <1>10 DEF RoutingInv

\* The user, or a test, gives a group a member between two dials.
LEMMA SwitchKeeps ==
    ASSUME RoutingInv, NEW g \in Names, NEW n, proxies # <<>>,
           \/ active' = active
           \/ n \in Range(members[g]) /\ active' = [active EXCEPT ![g] = n],
           UNCHANGED <<tables, cursor, at, trip, chosen>>
    PROVE  RoutingInv'
  <1>1. /\ members \in [Names -> Seq(Names)] /\ active \in [Names -> Names \cup {None}]
        /\ cfg' = cfg /\ proxies' = proxies /\ members' = members
        /\ cfg \in Configs /\ proxies = Adapters(cfg)
    BY DEF RoutingInv, RoutingTypeOK, LoadInv, tables
  <1>2. ASSUME n \in Range(members[g])
        PROVE  n \in DOMAIN proxies \cap Listed(cfg, g) /\ n \in Names /\ n # None
    <2>1. n \in DOMAIN proxies \cap Listed(cfg, g)
      BY <1>2 DEF RoutingInv, GroupsInv
    <2> QED
      BY <1>1, <2>1, AdaptersNamed
  <1>3. RoutingTypeOK'
    BY <1>1, <1>2 DEF RoutingInv, RoutingTypeOK, tables
  <1>4. LoadInv'
    BY TablesStay
  <1>5. GroupsInv'
    <2> SUFFICES ASSUME NEW m \in Names
                 PROVE  /\ Range(members'[m]) \subseteq DOMAIN proxies' \cap Listed(cfg', m)
                        /\ active'[m] # None => active'[m] \in DOMAIN proxies' \cap Listed(cfg', m)
                        /\ m \in DOMAIN proxies' /\ proxies'[m] # "load-balance"
                             /\ active'[m] = None => members'[m] = <<>>
      BY Zenon DEF GroupsInv
    <2>1. /\ Range(members[m]) \subseteq DOMAIN proxies \cap Listed(cfg, m)
          /\ active[m] # None => active[m] \in DOMAIN proxies \cap Listed(cfg, m)
          /\ m \in DOMAIN proxies /\ proxies[m] # "load-balance" /\ active[m] = None =>
                members[m] = <<>>
      BY DEF RoutingInv, GroupsInv
    <2>2. CASE active'[m] = active[m]
      BY <1>1, <2>1, <2>2
    <2>3. CASE active'[m] # active[m]
      <3>1. m = g /\ n \in Range(members[g]) /\ active'[m] = n
        BY <1>1, <2>3
      <3> QED
        BY <1>1, <1>2, <2>1, <3>1
    <2> QED
      BY <2>2, <2>3
  <1>6. DialInv'
    BY <1>1 DEF RoutingInv, DialInv
  <1>7. PathInv'
    BY <1>1 DEF RoutingInv, PathInv, StaysBelowRule
  <1>8. ChosenInv' /\ TurnsInv'
    BY ChoicesStay
  <1> QED
    BY <1>3, <1>4, <1>5, <1>6, <1>7, <1>8 DEF RoutingInv

\* Every step keeps the invariant.
LEMMA RoutingStep ==
    ASSUME RoutingInv, [RoutingNext]_routingVars
    PROVE  RoutingInv'
  <1>1. CASE Load
    BY <1>1, LoadKeeps
  <1>2. ASSUME NEW dest \in Destinations, NEW src \in Sources, Dial(dest, src)
        PROVE  RoutingInv'
    BY <1>2, DialKeeps
  <1>3. CASE PassActive
    BY <1>3, PassActiveKeeps
  <1>4. CASE PassBalanced
    BY <1>4, PassBalancedKeeps
  <1>5. CASE Arrive
    BY <1>5, ArriveKeeps
  <1>6. ASSUME NEW g \in Named(cfg), NEW n \in Named(cfg), Select(g, n) \/ Tested(g, n)
        PROVE  RoutingInv'
    <2>1. g \in Names
      BY DEF Names, RoutingInv, RoutingTypeOK
    <2>2. /\ proxies # <<>> /\ UNCHANGED <<tables, cursor, at, trip, chosen>>
          /\ \/ active' = active
             \/ n \in Range(members[g]) /\ active' = [active EXCEPT ![g] = n]
      BY <1>6 DEF Select, Tested
    <2> QED
      BY <2>1, <2>2, SwitchKeeps
  <1>7. CASE UNCHANGED routingVars
    <2>1. UNCHANGED <<tables, active, cursor, at, trip, chosen>>
      BY <1>7 DEF routingVars
    <2>2. ChosenInv' /\ TurnsInv'
      BY <2>1, ChoicesStay
    <2> QED
      BY <2>1, <2>2 DEF RoutingInv, RoutingTypeOK, LoadInv, Unlinked, GroupsInv,
                        DialInv, PathInv, StaysBelowRule, tables
  <1> QED
    BY <1>1, <1>2, <1>3, <1>4, <1>5, <1>6, <1>7 DEF RoutingNext

\* The inductive invariant holds, whatever is configured and dialled: what the
\* tables hold after the load, where a dial began and has come, and what the
\* choices of the load balancers and their cursors have in common.
THEOREM RoutingInvariance == RoutingSpec => []RoutingInv
  <1>1. RoutingInit => RoutingInv
    BY RoutingStarts
  <1>2. RoutingInv /\ [RoutingNext]_routingVars => RoutingInv'
    BY RoutingStep
  <1> QED
    BY <1>1, <1>2, PTL DEF RoutingSpec

\* Type correctness of the tunnel's tables, choices and dials.
THEOREM RoutingTypeCorrect == RoutingSpec => []RoutingTypeOK
  <1>1. RoutingInv => RoutingTypeOK
    BY DEF RoutingInv
  <1> QED
    BY <1>1, RoutingInvariance, PTL

\* A dial reaches only adapters below the one its rule names: groups pass it on
\* to members of theirs, however they are nested (Tunnel::dial, the groups'
\* dialTCP).
THEOREM DialsStayBelow == RoutingSpec => []StaysBelowRule
  <1>1. RoutingInv => StaysBelowRule
    BY DEF RoutingInv, PathInv
  <1> QED
    BY <1>1, RoutingInvariance, PTL

\* A load balancer that is not round-robin takes one source to one member,
\* between whatever other dials (load_balance.cpp: the hash of the source).
THEOREM SourcesStick == RoutingSpec => []SourceSticks
  <1>1. RoutingInv => SourceSticks
    <2> SUFFICES ASSUME RoutingInv, NEW i \in DOMAIN chosen, NEW j \in DOMAIN chosen,
                        chosen[i].group = chosen[j].group, chosen[i].src = chosen[j].src,
                        chosen[i].src # NoAddr,
                        Strategy(chosen[i].group) # "round-robin"
                 PROVE  chosen[i].index = chosen[j].index
      BY DEF SourceSticks
    <2>1. ~chosen[i].cursor /\ ~chosen[j].cursor
      BY DEF RoutingInv, ChosenInv, Strategy
    <2> QED
      BY <2>1 DEF RoutingInv, ChosenInv
  <1> QED
    BY <1>1, RoutingInvariance, PTL

\* Turns of two members differ by one at most.
LEMMA TurnsApart ==
    ASSUME NEW c \in Nat, NEW n \in Nat \ {0}, NEW i \in 1 .. n, NEW j \in 1 .. n
    PROVE  (c + n - i) \div n <= ((c + n - j) \div n) + 1
  <1> DEFINE x == c + n - i
             y == c + n - j
             q == x \div n
             p == y \div n
  <1>1. x \in Nat /\ y \in Nat /\ x <= y + (n - 1)
    OBVIOUS
  <1> HIDE DEF x, y
  <1>2. /\ q \in Nat /\ n * q <= x
    BY <1>1
  <1>3. /\ p \in Nat /\ y < n * p + n
    BY <1>1
  <1> HIDE DEF q, p
  <1>4. n * q < n * p + n + n
    <2> DEFINE a == n * q
               b == n * p
    <2>1. a \in Int /\ b \in Int /\ a <= x /\ y < b + n
      BY <1>2, <1>3
    <2> HIDE DEF a, b
    <2>2. a < b + n + n
      BY <1>1, <2>1
    <2> QED
      BY <2>2 DEF a, b
  <1>5. n * p + n + n = n * (p + 2)
    BY <1>3
  <1>6. q < p + 2
    <2>1. n * q < n * (p + 2)
      BY <1>4, <1>5
    <2>2. p + 2 \in Nat
      BY <1>3
    <2> QED
      BY <1>2, <2>1, <2>2
  <1>7. q <= p + 1
    BY <1>2, <1>3, <1>6
  <1> QED
    BY <1>7 DEF q, p, x, y

\* The cursor of a load balancer goes through its members in turn: none is ahead
\* of another by two, for any number of dials and groups.
THEOREM MembersTakeTurns == RoutingSpec => []TakeTurns
  <1>1. RoutingInv => TakeTurns
    <2> SUFFICES ASSUME RoutingInv, NEW g \in Names,
                        NEW i \in DOMAIN members[g], NEW j \in DOMAIN members[g]
                 PROVE  Turns(g, i) <= Turns(g, j) + 1
      BY DEF TakeTurns
    <2> DEFINE l == Len(members[g])
    <2>1. cursor[g] \in Nat /\ members[g] \in Seq(Names)
      BY DEF RoutingInv, RoutingTypeOK
    <2>2. l \in Nat \ {0} /\ i \in 1 .. l /\ j \in 1 .. l
      BY <2>1
    <2>3. /\ Turns(g, i) = (cursor[g] + l - i) \div l
          /\ Turns(g, j) = (cursor[g] + l - j) \div l
      BY DEF RoutingInv, TurnsInv
    <2> HIDE DEF l
    <2> QED
      BY <2>1, <2>2, <2>3, TurnsApart
  <1> QED
    BY <1>1, RoutingInvariance, PTL

\* What a selector that is configured once promises of a step.
SelectorSteps(g) ==
    g \in DOMAIN proxies' /\ proxies'[g] = "select" /\ Once(cfg, g) =>
        [AsGroup(g)!GroupNext]_(AsGroup(g)!groupVars)

\* The load links it to its members.
LEMMA SelectorLinked ==
    ASSUME RoutingInv, Load, NEW g \in Names
    PROVE  SelectorSteps(g)
  <1> SUFFICES ASSUME g \in DOMAIN proxies', proxies'[g] = "select", Once(cfg, g)
               PROVE  AsGroup(g)!Link
    BY DEF SelectorSteps, AsGroup!GroupNext
  <1> DEFINE all == Adapters(cfg)
             new == LinkGroups(cfg, all)
  <1>1. /\ cfg \in Configs /\ Unlinked
        /\ members \in [Names -> Seq(Names)] /\ active \in [Names -> Names \cup {None}]
    BY DEF Load, RoutingInv, RoutingTypeOK, LoadInv
  <1>2. /\ new \in Accumulated
        /\ \A n \in Names :
             Fits(cfg, all, new.members[n], new.active[n], n, Len(cfg.groups))
    BY <1>1, LinkedIs
  <1>3. proxies' = all /\ members' = new.members /\ active' = new.active
    BY DEF Load
  <1> HIDE DEF all, new
  <1>4. Fits(cfg, all, members'[g], active'[g], g, Len(cfg.groups))
    BY <1>2, <1>3, Zenon
  <1>5. active'[g] = IF members'[g] = <<>> THEN None ELSE members'[g][1]
    BY <1>3, <1>4 DEF Fits
  <1>6. members[g] = <<>> /\ members'[g] \in Seq(Names)
    BY <1>1, <1>2, <1>3 DEF Unlinked, Accumulated
  <1> QED
    BY <1>5, <1>6 DEF AsGroup!Link

\* A step that leaves a group alone.
LEMMA SelectorStutters ==
    ASSUME NEW g \in Names, members' = members, active'[g] = active[g]
    PROVE  SelectorSteps(g)
  BY DEF SelectorSteps, AsGroup!groupVars

\* Every step of the program is one of such a selector, or none for it.
LEMMA SelectorKeepsStep ==
    ASSUME RoutingInv, [RoutingNext]_routingVars, NEW g \in Names
    PROVE  SelectorSteps(g)
  <1>1. CASE Load
    BY <1>1, SelectorLinked
  <1>2. ASSUME UNCHANGED <<tables, active>>
        PROVE  SelectorSteps(g)
    BY <1>2, SelectorStutters DEF tables
  <1>3. ASSUME NEW dest \in Destinations, NEW src \in Sources, Dial(dest, src)
        PROVE  SelectorSteps(g)
    BY <1>2, <1>3 DEF Dial
  <1>4. CASE PassActive
    BY <1>2, <1>4 DEF PassActive
  <1>5. CASE PassBalanced
    BY <1>2, <1>5 DEF PassBalanced
  <1>6. CASE Arrive
    BY <1>2, <1>6 DEF Arrive
  <1>7. ASSUME NEW h \in Named(cfg), NEW n \in Named(cfg), Select(h, n)
        PROVE  SelectorSteps(g)
    <2>1. members' = members /\ proxies' = proxies /\ active \in [Names -> Names \cup {None}]
      BY <1>7 DEF Select, tables, RoutingInv, RoutingTypeOK
    <2>2. CASE g = h /\ n \in Range(members[h]) /\ active' = [active EXCEPT ![h] = n]
      <3>1. active'[g] \in Range(members[g])
        BY <2>1, <2>2
      <3>2. AsGroup(g)!Switch
        BY <2>1, <3>1 DEF AsGroup!Switch, AsGroup!Range, Range
      <3> QED
        BY <3>2 DEF SelectorSteps, AsGroup!GroupNext
    <2>3. CASE ~(g = h /\ n \in Range(members[h]) /\ active' = [active EXCEPT ![h] = n])
      <3>1. active'[g] = active[g]
        BY <1>7, <2>1, <2>3 DEF Select
      <3> QED
        BY <2>1, <3>1, SelectorStutters
    <2> QED
      BY <2>2, <2>3
  <1>8. ASSUME NEW h \in Named(cfg), NEW n \in Named(cfg), Tested(h, n)
        PROVE  SelectorSteps(g)
    <2>1. /\ members' = members /\ proxies' = proxies
          /\ active \in [Names -> Names \cup {None}]
          /\ proxies[h] \in {"url-test", "fallback"} /\ active' = [active EXCEPT ![h] = n]
      BY <1>8 DEF Tested, tables, RoutingInv, RoutingTypeOK
    <2>2. CASE g = h
      <3>1. proxies'[g] # "select"
        BY <2>1, <2>2
      <3> QED
        BY <3>1 DEF SelectorSteps
    <2>3. CASE g # h
      <3>1. active'[g] = active[g]
        BY <2>1, <2>3
      <3> QED
        BY <2>1, <3>1, SelectorStutters
    <2> QED
      BY <2>2, <2>3
  <1>9. CASE UNCHANGED routingVars
    BY <1>2, <1>9 DEF routingVars
  <1> QED
    BY <1>1, <1>3, <1>4, <1>5, <1>6, <1>7, <1>8, <1>9 DEF RoutingNext

\* A selector configured once is a Group: linked to its members with the first
\* one active, then moved by select() alone, and to a member.
THEOREM SelectorsAreGroups == RoutingSpec => SelectorIsGroup
  <1>1. RoutingInit => \A g \in Names : AsGroup(g)!GroupInit
    BY DEF RoutingInit, AsGroup!GroupInit
  <1>2. RoutingInv /\ [RoutingNext]_routingVars =>
            [\A g \in Names :
                g \in DOMAIN proxies' /\ proxies'[g] = "select" /\ Once(cfg, g) =>
                    [AsGroup(g)!GroupNext]_(AsGroup(g)!groupVars)]_routingVars
    <2> SUFFICES ASSUME RoutingInv, [RoutingNext]_routingVars, NEW g \in Names
                 PROVE  g \in DOMAIN proxies' /\ proxies'[g] = "select" /\ Once(cfg, g) =>
                            [AsGroup(g)!GroupNext]_(AsGroup(g)!groupVars)
      OBVIOUS
    <2>1. SelectorSteps(g)
      BY SelectorKeepsStep
    <2> QED
      BY <2>1 DEF SelectorSteps
  <1> QED
    BY <1>1, <1>2, RoutingInvariance, PTL DEF RoutingSpec, SelectorIsGroup

\* The number of an address, one byte after the other.
LEMMA ToUlongChain ==
    ASSUME NEW m \in Nat, NEW a \in [1 .. m -> Nat]
    PROVE  \E f \in [0 .. m -> Nat] :
                /\ f[0] = 0 /\ f[m] = ToUlong(a)
                /\ \A i \in 1 .. m : f[i] = f[i - 1] * 4 + a[i]
  <1> DEFINE Next_(v, x) == v * 2^ByteBits + x
             Body(h) == [s \in SUBSET DOMAIN a |->
                            IF s = {} THEN 0
                            ELSE LET x == Max(s) IN Next_(h[s \ {x}], a[x])]
             g == CHOOSE h : h = Body(h)
             F == [q \in Nat \X (1 .. m) |-> Next_(q[1], a[q[2]])]
  <1>1. ToUlong(a) = g[DOMAIN a]
    BY Zenon DEF ToUlong, FoldLeft, MapThenFoldSet
  <1>2. DOMAIN a = 1 .. m
    OBVIOUS
  <1>3. 2^ByteBits = 4
    BY DEF ByteBits
  <1>4. \A v \in Nat, x \in Nat : Next_(v, x) = v * 4 + x /\ Next_(v, x) \in Nat
    BY <1>3
  <1> HIDE DEF Next_
  <1>5. F \in [Nat \X (1 .. m) -> Nat]
    BY <1>4
  <1>6. \A v \in Nat, i \in 1 .. m : F[<<v, i>>] = Next_(v, a[i])
    OBVIOUS
  <1> HIDE DEF F
  <1>7. PICK h \in [SUBSET (1 .. m) -> Nat] : Folds(h, F, 0, m)
    BY <1>5, FoldExists
  <1>8. h = Body(h)
    <2>1. ASSUME NEW s \in SUBSET (1 .. m)
          PROVE  h[s] = Body(h)[s]
      <3>1. CASE s = {}
        <4>1. Body(h)[s] = 0
          BY <1>2, <3>1
        <4> QED
          BY <1>7, <3>1, <4>1, Zenon DEF Folds
      <3>2. CASE s # {}
        <4>1. Max(s) \in 1 .. m
          BY <3>2, GreatestIn
        <4>2. h[s \ {Max(s)}] \in Nat
          OBVIOUS
        <4>3. h[s] = F[<<h[s \ {Max(s)}], Max(s)>>]
          BY <1>7, <3>2, Zenon DEF Folds
        <4>4. Body(h)[s] = Next_(h[s \ {Max(s)}], a[Max(s)])
          BY <1>2, <3>2, Zenon
        <4> HIDE DEF Body
        <4> QED
          BY <1>6, <4>1, <4>2, <4>3, <4>4, Zenon
      <3> QED
        BY <3>1, <3>2
    <2> QED
      BY <1>2, <2>1
  <1>9. g = Body(g)
    BY <1>8, Zenon
  <1> HIDE DEF g
  <1>10. \A s \in SUBSET (1 .. m) : g[s] =
            IF s = {} THEN 0 ELSE Next_(g[s \ {Max(s)}], a[Max(s)])
    BY <1>2, <1>9, Zenon
  <1> HIDE DEF Body
  <1>11. g[1 .. 0] = 0
    <2>1. 1 .. 0 = {} /\ 1 .. 0 \in SUBSET (1 .. m)
      OBVIOUS
    <2> QED
      BY <1>10, <2>1, Zenon
  <1>12. ASSUME NEW i \in 1 .. m
         PROVE  g[1 .. i] = Next_(g[1 .. i - 1], a[i])
    <2>1. 1 .. i \in SUBSET (1 .. m) /\ 1 .. i # {} /\ i \in 1 .. i /\ i \in Nat
      <3>1. i \in Nat /\ i <= m
        OBVIOUS
      <3>2. i \in 1 .. i
        OBVIOUS
      <3>3. \A j \in 1 .. i : j \in 1 .. m
        BY <3>1
      <3> QED
        BY <3>1, <3>2, <3>3, Zenon
    <2>2. Max(1 .. i) = i
      BY <2>1, GreatestUpto
    <2>3. (1 .. i) \ {i} = 1 .. i - 1
      BY <2>1
    <2> QED
      BY <1>10, <2>1, <2>2, <2>3, Zenon
  <1> DEFINE f == [i \in 0 .. m |-> g[1 .. i]]
  <1>13. \A i \in 1 .. m : f[i] = Next_(f[i - 1], a[i])
    BY <1>12
  <1>14. f[0] = 0
    BY <1>11
  <1>15. f[m] = ToUlong(a)
    BY <1>1, <1>2
  <1>16. DOMAIN f = 0 .. m /\ f = [i \in 0 .. m |-> f[i]]
    OBVIOUS
  <1> HIDE DEF f
  <1>17. f \in [0 .. m -> Nat]
    <2> DEFINE P == {i \in Nat : i \in 0 .. m => f[i] \in Nat}
    <2>1. 0 \in P
      BY <1>14
    <2>2. ASSUME NEW i \in Nat, i \in P
          PROVE  i + 1 \in P
      <3> SUFFICES ASSUME i + 1 \in 0 .. m
                   PROVE  f[i + 1] \in Nat
        OBVIOUS
      <3>1. i \in 0 .. m /\ i + 1 \in 1 .. m /\ (i + 1) - 1 = i
        OBVIOUS
      <3>2. f[i] \in Nat
        BY <2>2, <3>1
      <3>3. f[i + 1] = Next_(f[i], a[i + 1])
        BY <1>13, <3>1
      <3>4. a[i + 1] \in Nat
        BY <3>1
      <3> QED
        BY <1>4, <3>2, <3>3, <3>4
    <2> HIDE DEF P
    <2>3. Nat \subseteq P
      BY <2>1, <2>2, Inductive
    <2>4. \A i \in 0 .. m : f[i] \in Nat
      BY <2>3 DEF P
    <2> QED
      BY <1>16, <2>4
  <1>18. \A i \in 1 .. m : f[i] = f[i - 1] * 4 + a[i]
    <2> SUFFICES ASSUME NEW i \in 1 .. m
                 PROVE  f[i] = f[i - 1] * 4 + a[i]
      OBVIOUS
    <2>1. i - 1 \in 0 .. m /\ a[i] \in Nat
      OBVIOUS
    <2>2. f[i - 1] \in Nat
      BY <1>17, <2>1
    <2> QED
      BY <1>4, <1>13, <2>1, <2>2
  <1> QED
    BY <1>14, <1>15, <1>17, <1>18

\* The addresses have two bytes or three, of two bits each.
LEMMA AddressIs ==
    ASSUME NEW a \in Addresses
    PROVE  /\ a # NoAddr
           /\ \/ /\ a \in [1 .. 2 -> 0 .. 3] /\ Len(a) = 2
                 /\ ToUlong(a) = 4 * a[1] + a[2]
              \/ /\ a \in [1 .. 3 -> 0 .. 3] /\ Len(a) = 3
                 /\ ToUlong(a) = 16 * a[1] + 4 * a[2] + a[3]
  <1>1. Addresses = [1 .. 2 -> 0 .. 3] \cup [1 .. 3 -> 0 .. 3]
    <2>1. 2^ByteBits - 1 = 3 /\ V4Len = 2 /\ V6Len = 3
      BY DEF ByteBits, V4Len, V6Len
    <2> QED
      BY <2>1, Zenon DEF Addresses
  <1>2. CASE a \in [1 .. 2 -> 0 .. 3]
    <2>1. a \in [1 .. 2 -> Nat] /\ a[1] \in Nat /\ a[2] \in Nat
      BY <1>2
    <2>2. PICK f \in [0 .. 2 -> Nat] :
            /\ f[0] = 0 /\ f[2] = ToUlong(a)
            /\ \A i \in 1 .. 2 : f[i] = f[i - 1] * 4 + a[i]
      <3>1. PICK m \in Nat : m = 2
        OBVIOUS
      <3>2. a \in [1 .. m -> Nat]
        BY <2>1, <3>1
      <3>3. \E f \in [0 .. m -> Nat] :
                /\ f[0] = 0 /\ f[m] = ToUlong(a)
                /\ \A i \in 1 .. m : f[i] = f[i - 1] * 4 + a[i]
        BY <3>2, ToUlongChain
      <3> QED
        BY <3>1, <3>3, Zenon
    <2>3. f[1] = f[1 - 1] * 4 + a[1] /\ f[2] = f[2 - 1] * 4 + a[2]
      BY <2>2
    <2>4. f[1] = a[1] /\ f[2] = a[1] * 4 + a[2]
      BY <2>1, <2>2, <2>3
    <2>5. Len(a) = 2 /\ a # NoAddr
      <3>1. PICK m \in Nat : m = 2
        OBVIOUS
      <3>2. Len(a) = m
        BY <2>1, <3>1, FunctionIsSeq
      <3>3. Len(<<>>) = 0
        OBVIOUS
      <3>4. Len(a) # 0
        BY <3>1, <3>2
      <3>5. a # NoAddr
        BY <3>3, <3>4, Zenon DEF NoAddr
      <3> QED
        BY <3>1, <3>2, <3>5, Zenon
    <2>6. ToUlong(a) = 4 * a[1] + a[2]
      BY <2>1, <2>2, <2>4
    <2> QED
      BY <1>2, <2>5, <2>6
  <1>3. CASE a \in [1 .. 3 -> 0 .. 3]
    <2>1. a \in [1 .. 3 -> Nat] /\ a[1] \in Nat /\ a[2] \in Nat /\ a[3] \in Nat
      BY <1>3
    <2>2. PICK f \in [0 .. 3 -> Nat] :
            /\ f[0] = 0 /\ f[3] = ToUlong(a)
            /\ \A i \in 1 .. 3 : f[i] = f[i - 1] * 4 + a[i]
      <3>1. PICK m \in Nat : m = 3
        OBVIOUS
      <3>2. a \in [1 .. m -> Nat]
        BY <2>1, <3>1
      <3>3. \E f \in [0 .. m -> Nat] :
                /\ f[0] = 0 /\ f[m] = ToUlong(a)
                /\ \A i \in 1 .. m : f[i] = f[i - 1] * 4 + a[i]
        BY <3>2, ToUlongChain
      <3> QED
        BY <3>1, <3>3, Zenon
    <2>3. /\ f[1] = f[1 - 1] * 4 + a[1] /\ f[2] = f[2 - 1] * 4 + a[2]
          /\ f[3] = f[3 - 1] * 4 + a[3]
      BY <2>2
    <2>4. f[1] = a[1] /\ f[2] = a[1] * 4 + a[2] /\ f[3] = (a[1] * 4 + a[2]) * 4 + a[3]
      BY <2>1, <2>2, <2>3
    <2>5. Len(a) = 3 /\ a # NoAddr
      <3>1. PICK m \in Nat : m = 3
        OBVIOUS
      <3>2. Len(a) = m
        BY <2>1, <3>1, FunctionIsSeq
      <3>3. Len(<<>>) = 0
        OBVIOUS
      <3>4. Len(a) # 0
        BY <3>1, <3>2
      <3>5. a # NoAddr
        BY <3>3, <3>4, Zenon DEF NoAddr
      <3> QED
        BY <3>1, <3>2, <3>5, Zenon
    <2>6. ToUlong(a) = 16 * a[1] + 4 * a[2] + a[3]
      BY <2>1, <2>2, <2>4
    <2> QED
      BY <1>3, <2>5, <2>6
  <1> QED
    BY <1>1, <1>2, <1>3

\* Numbers of as many bytes agree above a bit exactly if one is in the range
\* of the other.
Shares(x, y, size) == x \in (y \div size) * size .. (y \div size) * size + size - 1

AgreeV4(x, y) ==
    /\ Shares(x, y, 16)
    /\ Shares(x, y, 8) <=> x \div 8 = y \div 8
    /\ Shares(x, y, 4) <=> x \div 4 = y \div 4
    /\ Shares(x, y, 2) <=> x \div 2 = y \div 2
    /\ Shares(x, y, 1) <=> x \div 1 = y \div 1

\* For IPv4, by each length a prefix may have.
LEMMA SameV4 ==
    ASSUME NEW x \in 0 .. 15, NEW y \in 0 .. 15
    PROVE  AgreeV4(x, y)
  <1>1. Shares(x, y, 16)
    BY DEF Shares
  <1>2. Shares(x, y, 8) <=> x \div 8 = y \div 8
    BY DEF Shares
  <1>3. Shares(x, y, 4) <=> x \div 4 = y \div 4
    BY DEF Shares
  <1>4. Shares(x, y, 2) <=> x \div 2 = y \div 2
    BY DEF Shares
  <1>5. Shares(x, y, 1) <=> x \div 1 = y \div 1
    BY DEF Shares
  <1> QED
    BY <1>1, <1>2, <1>3, <1>4, <1>5 DEF AgreeV4

AgreeV6(x, y, a1, a2, a3, b1, b2, b3) ==
    /\ Shares(x, y, 64)
    /\ Shares(x, y, 32) <=> a1 \div 2 = b1 \div 2
    /\ Shares(x, y, 16) <=> a1 = b1
    /\ Shares(x, y, 8) <=> a1 = b1 /\ a2 \div 2 = b2 \div 2
    /\ Shares(x, y, 4) <=> a1 = b1 /\ a2 = b2
    /\ Shares(x, y, 2) <=> a1 = b1 /\ a2 = b2 /\ a3 \div 2 = b3 \div 2
    /\ Shares(x, y, 1) <=> a1 = b1 /\ a2 = b2 /\ a3 = b3

\* For IPv6, by each length a prefix may have.
LEMMA SameV6 ==
    ASSUME NEW a1 \in 0 .. 3, NEW a2 \in 0 .. 3, NEW a3 \in 0 .. 3,
           NEW b1 \in 0 .. 3, NEW b2 \in 0 .. 3, NEW b3 \in 0 .. 3,
           NEW x, x = 16 * a1 + 4 * a2 + a3, NEW y, y = 16 * b1 + 4 * b2 + b3
    PROVE  AgreeV6(x, y, a1, a2, a3, b1, b2, b3)
  <1>1. Shares(x, y, 64)
    BY DEF Shares
  <1>2. Shares(x, y, 32) <=> a1 \div 2 = b1 \div 2
    BY DEF Shares
  <1>3. Shares(x, y, 16) <=> a1 = b1
    BY DEF Shares
  <1>4. Shares(x, y, 8) <=> a1 = b1 /\ a2 \div 2 = b2 \div 2
    BY DEF Shares
  <1>5. Shares(x, y, 4) <=> a1 = b1 /\ a2 = b2
    BY DEF Shares
  <1>6. Shares(x, y, 2) <=> a1 = b1 /\ a2 = b2 /\ a3 \div 2 = b3 \div 2
    BY DEF Shares
  <1>7. Shares(x, y, 1) <=> a1 = b1 /\ a2 = b2 /\ a3 = b3
    BY DEF Shares
  <1> QED
    BY <1>1, <1>2, <1>3, <1>4, <1>5, <1>6, <1>7 DEF AgreeV6

\* The powers that masks are made of.
LEMMA Powers ==
    ASSUME NEW e
    PROVE  /\ e = 0 => 2^e = 1
           /\ e = 1 => 2^e = 2
           /\ e = 2 => 2^e = 4
           /\ e = 3 => 2^e = 8
           /\ e = 4 => 2^e = 16
           /\ e = 5 => 2^e = 32
           /\ e = 6 => 2^e = 64
  <1>1. 2^0 = 1 /\ 2^1 = 2 /\ 2^2 = 4 /\ 2^3 = 8 /\ 2^4 = 16 /\ 2^5 = 32 /\ 2^6 = 64
    OBVIOUS
  <1> QED
    BY <1>1

\* A network that can be read, with the prefix it has or that of one address.
Prefix(v) == IF v.slash = "number" THEN v.n ELSE Len(v.addr) * 2

\* What ip_cidr keeps of a network that can be read.
LEMMA NetworkIs ==
    ASSUME NEW v, Readable(v)
    PROVE  /\ v.addr \in Addresses
           /\ Network(v).addr = v.addr /\ Network(v).prefix = Prefix(v)
           /\ Prefix(v) \in 0 .. Len(v.addr) * 2
  <1>1. v.addr \in Addresses /\ v.slash \in {"number", "none"}
        /\ v.n \in 0 .. Len(v.addr) * 2
    BY DEF Readable, ByteBits
  <1>2. v.addr # NoAddr /\ Len(v.addr) \in Nat
    BY <1>1, AddressIs
  <1>3. Network(v).addr = v.addr
    BY <1>2 DEF Network
  <1>4. Network(v).prefix = Prefix(v)
    BY <1>1, <1>2 DEF Network, Prefix, ByteBits
  <1>5. Prefix(v) \in 0 .. Len(v.addr) * 2
    <2> DEFINE l == Len(v.addr)
    <2>1. v.n \in 0 .. l * 2 /\ l \in Nat /\ Prefix(v) = IF v.slash = "number" THEN v.n ELSE l * 2
      BY <1>1, <1>2 DEF Prefix
    <2> HIDE DEF l
    <2>2. l * 2 \in 0 .. l * 2
      BY <2>1
    <2>3. Prefix(v) \in 0 .. l * 2
      BY <2>1, <2>2
    <2> QED
      BY <2>3 DEF l
  <1> QED
    BY <1>1, <1>3, <1>4, <1>5

\* As a range, it has as many addresses as its prefix leaves.
LEMMA RangeIs ==
    ASSUME NEW v, Readable(v), NEW a, NEW bits \in Nat, bits = Len(v.addr) * 2,
           Len(a) = Len(v.addr)
    PROVE  InRange(v, a) <=> Shares(ToUlong(a), ToUlong(v.addr), 2^(bits - Prefix(v)))
  <1> DEFINE size == IF v.slash = "number" THEN 2^(bits - v.n) ELSE 1
  <1>1. Len(a) * ByteBits = bits
    BY DEF ByteBits
  <1>2. InRange(v, a) <=> Shares(ToUlong(a), ToUlong(v.addr), size)
    BY <1>1, Zenon DEF InRange, Shares
  <1>3. size = 2^(bits - Prefix(v))
    <2>1. CASE v.slash = "number"
      BY <2>1 DEF Prefix
    <2>2. CASE v.slash # "number"
      <3>1. Prefix(v) = bits
        BY <2>2 DEF Prefix
      <3>2. bits - Prefix(v) = 0
        BY <3>1
      <3> QED
        BY <2>2, <3>2, Powers
    <2> QED
      BY <2>1, <2>2
  <1> QED
    BY <1>2, <1>3, Zenon

\* Two bytes: the mask of a prefix leaves what the range leaves.
LEMMA MatchesV4 ==
    ASSUME NEW net, NEW b \in Addresses, net.addr = b, Len(b) = 2,
           NEW p \in 0 .. 4, net.prefix = p,
           NEW a \in Addresses, Len(a) = 2
    PROVE  MatchV4(net, a) <=> Shares(ToUlong(a), ToUlong(b), 2^(4 - p))
  <1> DEFINE x   == ToUlong(a)
             y   == ToUlong(b)
             low == IF p < 4 THEN 2^(4 - p) ELSE 1
  <1>1. AgreeV4(x, y)
    <2>1. a \in [1 .. 2 -> 0 .. 3] /\ x = 4 * a[1] + a[2]
      BY AddressIs
    <2>2. b \in [1 .. 2 -> 0 .. 3] /\ y = 4 * b[1] + b[2]
      BY AddressIs
    <2> HIDE DEF x, y
    <2>3. x \in 0 .. 15 /\ y \in 0 .. 15
      BY <2>1, <2>2
    <2> QED
      BY <2>3, SameV4
  <1>2. MatchV4(net, a) <=> p = 0 \/ x \div low = y \div low
    <2>1. V4Bits = 4
      BY DEF V4Bits, V4Len, ByteBits
    <2> QED
      BY <2>1, Zenon DEF MatchV4
  <1> HIDE DEF x, y
  <1> SUFFICES MatchV4(net, a) <=> Shares(x, y, 2^(4 - p))
    BY Zenon DEF x, y
  <1>3. CASE p = 0
    <2>1. 2^(4 - p) = 16 /\ low = 16
      <3>1. 4 - p = 4
        BY <1>3
      <3> QED
        BY <1>3, <3>1, Powers
    <2> HIDE DEF low
    <2> QED
      BY <1>1, <1>2, <1>3, <2>1 DEF AgreeV4
  <1>4. CASE p = 1
    <2>1. 2^(4 - p) = 8 /\ low = 8
      <3>1. 4 - p = 3
        BY <1>4
      <3> QED
        BY <1>4, <3>1, Powers
    <2> HIDE DEF low
    <2> QED
      BY <1>1, <1>2, <1>4, <2>1 DEF AgreeV4
  <1>5. CASE p = 2
    <2>1. 2^(4 - p) = 4 /\ low = 4
      <3>1. 4 - p = 2
        BY <1>5
      <3> QED
        BY <1>5, <3>1, Powers
    <2> HIDE DEF low
    <2> QED
      BY <1>1, <1>2, <1>5, <2>1 DEF AgreeV4
  <1>6. CASE p = 3
    <2>1. 2^(4 - p) = 2 /\ low = 2
      <3>1. 4 - p = 1
        BY <1>6
      <3> QED
        BY <1>6, <3>1, Powers
    <2> HIDE DEF low
    <2> QED
      BY <1>1, <1>2, <1>6, <2>1 DEF AgreeV4
  <1>7. CASE p = 4
    <2>1. 2^(4 - p) = 1 /\ low = 1
      <3>1. 4 - p = 0
        BY <1>7
      <3> QED
        BY <1>7, <3>1, Powers
    <2> HIDE DEF low
    <2> QED
      BY <1>1, <1>2, <1>7, <2>1 DEF AgreeV4
  <1> QED
    BY <1>3, <1>4, <1>5, <1>6, <1>7

\* Three bytes: whole bytes and the high bits of the next.
LEMMA MatchesV6 ==
    ASSUME NEW net, NEW b \in Addresses, net.addr = b, Len(b) = 3,
           NEW p \in 0 .. 6, net.prefix = p,
           NEW a \in Addresses, Len(a) = 3
    PROVE  MatchV6(net, a) <=> Shares(ToUlong(a), ToUlong(b), 2^(6 - p))
  <1> DEFINE x     == ToUlong(a)
             y     == ToUlong(b)
             whole == p \div 2
             rest  == p % 2
             low   == 2^(2 - rest)
  <1>1. AgreeV6(x, y, a[1], a[2], a[3], b[1], b[2], b[3])
    <2>1. a \in [1 .. 3 -> 0 .. 3] /\ x = 16 * a[1] + 4 * a[2] + a[3]
      BY AddressIs
    <2>2. b \in [1 .. 3 -> 0 .. 3] /\ y = 16 * b[1] + 4 * b[2] + b[3]
      BY AddressIs
    <2> HIDE DEF x, y
    <2>3. /\ a[1] \in 0 .. 3 /\ a[2] \in 0 .. 3 /\ a[3] \in 0 .. 3
          /\ b[1] \in 0 .. 3 /\ b[2] \in 0 .. 3 /\ b[3] \in 0 .. 3
      BY <2>1, <2>2
    <2> QED
      BY <2>1, <2>2, <2>3, SameV6
  <1>2. MatchV6(net, a) <=>
            \/ p <= 0
            \/ /\ \A i \in 1 .. whole : a[i] = b[i]
               /\ rest > 0 => a[whole + 1] \div low = b[whole + 1] \div low
    BY Zenon DEF MatchV6, ByteBits
  <1> HIDE DEF x, y
  <1> SUFFICES MatchV6(net, a) <=> Shares(x, y, 2^(6 - p))
    BY Zenon DEF x, y
  <1>3. CASE p = 0
    <2>1. 2^(6 - p) = 64 /\ whole = 0 /\ rest = 0 /\ low = 4
      <3>1. 6 - p = 6 /\ whole = 0 /\ rest = 0
        BY <1>3
      <3>2. 2 - rest = 2
        BY <3>1
      <3> QED
        BY <3>1, <3>2, Powers
    <2> QED
      BY <1>1, <1>2, <1>3, <2>1 DEF AgreeV6
  <1>4. CASE p = 1
    <2>1. 2^(6 - p) = 32 /\ whole = 0 /\ rest = 1 /\ low = 2
      <3>1. 6 - p = 5 /\ whole = 0 /\ rest = 1
        BY <1>4
      <3>2. 2 - rest = 1
        BY <3>1
      <3> QED
        BY <3>1, <3>2, Powers
    <2> HIDE DEF whole, rest, low
    <2>2. (\A i \in 1 .. 0 : a[i] = b[i]) <=> TRUE
      OBVIOUS
    <2> QED
      BY <1>1, <1>2, <1>4, <2>1, <2>2 DEF AgreeV6
  <1>5. CASE p = 2
    <2>1. 2^(6 - p) = 16 /\ whole = 1 /\ rest = 0 /\ low = 4
      <3>1. 6 - p = 4 /\ whole = 1 /\ rest = 0
        BY <1>5
      <3>2. 2 - rest = 2
        BY <3>1
      <3> QED
        BY <3>1, <3>2, Powers
    <2> HIDE DEF whole, rest, low
    <2>2. (\A i \in 1 .. 1 : a[i] = b[i]) <=> a[1] = b[1]
      OBVIOUS
    <2> QED
      BY <1>1, <1>2, <1>5, <2>1, <2>2 DEF AgreeV6
  <1>6. CASE p = 3
    <2>1. 2^(6 - p) = 8 /\ whole = 1 /\ rest = 1 /\ low = 2
      <3>1. 6 - p = 3 /\ whole = 1 /\ rest = 1
        BY <1>6
      <3>2. 2 - rest = 1
        BY <3>1
      <3> QED
        BY <3>1, <3>2, Powers
    <2> HIDE DEF whole, rest, low
    <2>2. (\A i \in 1 .. 1 : a[i] = b[i]) <=> a[1] = b[1]
      OBVIOUS
    <2> QED
      BY <1>1, <1>2, <1>6, <2>1, <2>2 DEF AgreeV6
  <1>7. CASE p = 4
    <2>1. 2^(6 - p) = 4 /\ whole = 2 /\ rest = 0 /\ low = 4
      <3>1. 6 - p = 2 /\ whole = 2 /\ rest = 0
        BY <1>7
      <3>2. 2 - rest = 2
        BY <3>1
      <3> QED
        BY <3>1, <3>2, Powers
    <2> HIDE DEF whole, rest, low
    <2>2. (\A i \in 1 .. 2 : a[i] = b[i]) <=> a[1] = b[1] /\ a[2] = b[2]
      OBVIOUS
    <2> QED
      BY <1>1, <1>2, <1>7, <2>1, <2>2 DEF AgreeV6
  <1>8. CASE p = 5
    <2>1. 2^(6 - p) = 2 /\ whole = 2 /\ rest = 1 /\ low = 2
      <3>1. 6 - p = 1 /\ whole = 2 /\ rest = 1
        BY <1>8
      <3>2. 2 - rest = 1
        BY <3>1
      <3> QED
        BY <3>1, <3>2, Powers
    <2> HIDE DEF whole, rest, low
    <2>2. (\A i \in 1 .. 2 : a[i] = b[i]) <=> a[1] = b[1] /\ a[2] = b[2]
      OBVIOUS
    <2> QED
      BY <1>1, <1>2, <1>8, <2>1, <2>2 DEF AgreeV6
  <1>9. CASE p = 6
    <2>1. 2^(6 - p) = 1 /\ whole = 3 /\ rest = 0 /\ low = 4
      <3>1. 6 - p = 0 /\ whole = 3 /\ rest = 0
        BY <1>9
      <3>2. 2 - rest = 2
        BY <3>1
      <3> QED
        BY <3>1, <3>2, Powers
    <2> HIDE DEF whole, rest, low
    <2>2. (\A i \in 1 .. 3 : a[i] = b[i]) <=> a[1] = b[1] /\ a[2] = b[2] /\ a[3] = b[3]
      OBVIOUS
    <2> QED
      BY <1>1, <1>2, <1>9, <2>1, <2>2 DEF AgreeV6
  <1> QED
    BY <1>3, <1>4, <1>5, <1>6, <1>7, <1>8, <1>9

\* A network that can be read holds the addresses that a reader counts.
LEMMA NetworkMeans ==
    ASSUME NEW v, Readable(v), NEW a \in Addresses
    PROVE  InNetwork(v, a) <=> InRange(v, a)
  <1> DEFINE net == Network(v)
             b   == v.addr
             p   == Prefix(v)
  <1>1. b \in Addresses /\ net.addr = b /\ net.prefix = p /\ p \in 0 .. Len(b) * 2
    BY NetworkIs
  <1>2. a # NoAddr /\ Len(a) \in {2, 3} /\ Len(b) \in {2, 3}
    BY <1>1, AddressIs
  <1>3. InNetwork(v, a) <=> /\ Len(a) = Len(b)
                            /\ IF Len(a) = 2 THEN MatchV4(net, a) ELSE MatchV6(net, a)
    BY <1>1, <1>2, Zenon DEF InNetwork, V4Len
  <1>4. CASE Len(a) # Len(b)
    BY <1>3, <1>4, Zenon DEF InRange
  <1> HIDE DEF net, p
  <1>5. CASE Len(a) = 2 /\ Len(b) = 2
    <2>1. PICK bits \in Nat : bits = 4
      OBVIOUS
    <2>2. bits = Len(b) * 2 /\ p \in 0 .. 4
      BY <1>1, <1>5, <2>1
    <2>3. InRange(v, a) <=> Shares(ToUlong(a), ToUlong(b), 2^(bits - p))
      BY <1>5, <2>2, RangeIs DEF p
    <2>4. MatchV4(net, a) <=> Shares(ToUlong(a), ToUlong(b), 2^(4 - p))
      BY <1>1, <1>5, <2>2, MatchesV4
    <2> QED
      BY <1>3, <1>5, <2>1, <2>3, <2>4, Zenon
  <1>6. CASE Len(a) = 3 /\ Len(b) = 3
    <2>1. PICK bits \in Nat : bits = 6
      OBVIOUS
    <2>2. bits = Len(b) * 2 /\ p \in 0 .. 6 /\ Len(a) # 2
      BY <1>1, <1>6, <2>1
    <2>3. InRange(v, a) <=> Shares(ToUlong(a), ToUlong(b), 2^(bits - p))
      BY <1>6, <2>2, RangeIs DEF p
    <2>4. MatchV6(net, a) <=> Shares(ToUlong(a), ToUlong(b), 2^(6 - p))
      BY <1>1, <1>6, <2>2, MatchesV6
    <2> QED
      BY <1>3, <1>6, <2>1, <2>2, <2>3, <2>4, Zenon
  <1> QED
    BY <1>2, <1>4, <1>5, <1>6

\* The library's Reverse turns a sequence round.
LEMMA ReverseIs ==
    ASSUME NEW T, NEW s \in Seq(T)
    PROVE  /\ Reverse(s) \in Seq(T) /\ Len(Reverse(s)) = Len(s)
           /\ \A i \in 1 .. Len(s) : Reverse(s)[i] = s[(Len(s) - i) + 1]
  <1> DEFINE n == Len(s)
             r == [i \in 1 .. n |-> s[(n - i) + 1]]
  <1>1. Reverse(s) = r
    BY Zenon DEF Reverse
  <1>2. n \in Nat /\ \A i \in 1 .. n : s[i] \in T
    OBVIOUS
  <1> HIDE DEF n
  <1>3. r \in [1 .. n -> T]
    <2>1. \A i \in 1 .. n : (n - i) + 1 \in 1 .. n
      BY <1>2
    <2> QED
      BY <1>2, <2>1
  <1>4. r \in Seq(T) /\ Len(r) = n
    BY <1>2, <1>3, FunctionIsSeq
  <1> QED
    BY <1>1, <1>4 DEF n

\* A suffix is what follows from a position on, and there is one such position.
LEMMA SuffixIs ==
    ASSUME NEW T, NEW s \in Seq(T), NEW t \in Seq(T)
    PROVE  /\ IsSuffix(s, t) <=> \E i \in 1 .. Len(t) + 1 : SubSeq(t, i, Len(t)) = s
           /\ \A i \in 1 .. Len(t) + 1 :
                SubSeq(t, i, Len(t)) = s => i = Len(t) - Len(s) + 1
  <1> DEFINE m == Len(s)
             n == Len(t)
             p == Reverse(s)
             q == Reverse(t)
  <1>1. /\ p \in Seq(T) /\ Len(p) = m /\ \A i \in 1 .. m : p[i] = s[(m - i) + 1]
        /\ q \in Seq(T) /\ Len(q) = n /\ \A i \in 1 .. n : q[i] = t[(n - i) + 1]
    BY ReverseIs
  <1>2. m \in Nat /\ n \in Nat
    OBVIOUS
  <1>3. IsSuffix(s, t) <=> IsPrefix(p, q)
    BY Zenon DEF IsSuffix
  <1> HIDE DEF p, q
  <1>4. IsPrefix(p, q) <=> m <= n /\ SubSeq(p, 1, m) = SubSeq(q, 1, m)
    BY <1>1, Zenon DEF IsPrefix
  <1>5. ASSUME m <= n
        PROVE  SubSeq(p, 1, m) = SubSeq(q, 1, m) <=> \A i \in 1 .. m : p[i] = q[i]
    <2>1. /\ SubSeq(p, 1, m) \in Seq(T) /\ Len(SubSeq(p, 1, m)) = m
          /\ \A i \in 1 .. m : SubSeq(p, 1, m)[i] = p[i]
      <3> HIDE DEF m, n
      <3>1. \A i \in 1 .. m : p[i] \in T
        BY <1>1, <1>2
      <3> QED
        BY <1>2, <3>1
    <2>2. /\ SubSeq(q, 1, m) \in Seq(T) /\ Len(SubSeq(q, 1, m)) = m
          /\ \A i \in 1 .. m : SubSeq(q, 1, m)[i] = q[i]
      <3> HIDE DEF m, n
      <3> QED
        BY <1>1, <1>2, <1>5
    <2> HIDE DEF m, n
    <2> QED
      BY <1>2, <2>1, <2>2, SeqEqual
  <1>6. ASSUME NEW i \in 1 .. n + 1
        PROVE  SubSeq(t, i, n) = s <=> i = n - m + 1 /\ \A k \in 1 .. m : t[n - m + k] = s[k]
    <2>1. /\ SubSeq(t, i, n) \in Seq(T) /\ Len(SubSeq(t, i, n)) = n - i + 1
          /\ \A k \in 1 .. n - i + 1 : SubSeq(t, i, n)[k] = t[i + k - 1]
      BY <1>2
    <2>2. s \in Seq(T) /\ Len(s) = m
      OBVIOUS
    <2> DEFINE u == SubSeq(t, i, n)
    <2> HIDE DEF m, n, u
    <2>3. ASSUME u = s
          PROVE  i = n - m + 1 /\ \A k \in 1 .. m : t[n - m + k] = s[k]
      <3>1. n - i + 1 = m
        BY <2>1, <2>2, <2>3 DEF u
      <3>2. i = n - m + 1
        BY <1>2, <3>1
      <3>3. ASSUME NEW k \in 1 .. m
            PROVE  t[n - m + k] = s[k]
        <4>1. n - m + k = i + k - 1
          BY <1>2, <3>2
        <4> QED
          BY <2>1, <2>3, <3>1, <4>1 DEF u
      <3> QED
        BY <3>2, <3>3
    <2>4. ASSUME i = n - m + 1, \A k \in 1 .. m : t[n - m + k] = s[k]
          PROVE  u = s
      <3>1. n - i + 1 = m
        BY <1>2, <2>4
      <3>2. ASSUME NEW k \in 1 .. m
            PROVE  u[k] = s[k]
        <4>1. n - m + k = i + k - 1
          BY <1>2, <2>4
        <4> QED
          BY <2>1, <2>4, <3>1, <4>1 DEF u
      <3>3. u \in Seq(T) /\ Len(u) = m
        BY <2>1, <3>1 DEF u
      <3> QED
        BY <2>2, <3>2, <3>3, SeqEqual
    <2> QED
      BY <2>3, <2>4 DEF u
  <1> HIDE DEF m, n
  <1>7. ASSUME m <= n
        PROVE  (\A i \in 1 .. m : p[i] = q[i]) <=> \A k \in 1 .. m : t[n - m + k] = s[k]
    <2>1. ASSUME NEW i \in 1 .. m
          PROVE  /\ (m - i) + 1 \in 1 .. m /\ i \in 1 .. n
                 /\ p[i] = s[(m - i) + 1] /\ q[i] = t[n - m + ((m - i) + 1)]
      <3>1. (m - i) + 1 \in 1 .. m /\ i \in 1 .. n /\ (n - i) + 1 = n - m + ((m - i) + 1)
        BY <1>2, <1>7
      <3> QED
        BY <1>1, <3>1
    <2>2. \A k \in 1 .. m : (m - k) + 1 \in 1 .. m /\ (m - ((m - k) + 1)) + 1 = k
      BY <1>2
    <2>3. ASSUME \A i \in 1 .. m : p[i] = q[i], NEW k \in 1 .. m
          PROVE  t[n - m + k] = s[k]
      <3> DEFINE i == (m - k) + 1
      <3>1. i \in 1 .. m /\ (m - i) + 1 = k
        BY <2>2
      <3> HIDE DEF i
      <3>2. p[i] = s[(m - i) + 1] /\ q[i] = t[n - m + ((m - i) + 1)]
        BY <2>1, <3>1
      <3> QED
        BY <2>3, <3>1, <3>2
    <2>4. ASSUME \A k \in 1 .. m : t[n - m + k] = s[k], NEW i \in 1 .. m
          PROVE  p[i] = q[i]
      BY <2>1, <2>4
    <2> QED
      BY <2>3, <2>4
  <1>8. ASSUME IsSuffix(s, t)
        PROVE  \E i \in 1 .. n + 1 : SubSeq(t, i, n) = s
    <2>1. m <= n /\ \A k \in 1 .. m : t[n - m + k] = s[k]
      BY <1>3, <1>4, <1>5, <1>7, <1>8, Zenon
    <2>2. n - m + 1 \in 1 .. n + 1
      BY <1>2, <2>1
    <2> QED
      BY <1>2, <1>6, <2>1, <2>2
  <1>9. ASSUME NEW i \in 1 .. n + 1, SubSeq(t, i, n) = s
        PROVE  IsSuffix(s, t)
    <2>1. i = n - m + 1 /\ \A k \in 1 .. m : t[n - m + k] = s[k]
      BY <1>2, <1>6, <1>9
    <2>2. m <= n
      BY <1>2, <2>1
    <2> QED
      BY <1>3, <1>4, <1>5, <1>7, <2>1, <2>2, Zenon
  <1> QED
    BY <1>6, <1>8, <1>9, Zenon DEF m, n

\* A domain is what the name is, or what it has behind one of its dots.
LEMMA SuffixMeans ==
    ASSUME NEW h \in Seq(STRING), NEW v \in Seq(STRING), h # <<>>
    PROVE  (h = v \/ (Len(h) - Len(v) > 0 /\ IsSuffix(v, h) /\ h[Len(h) - Len(v)] = "."))
             <=> \E i \in 1 .. Len(h) + 1 :
                    SubSeq(h, i, Len(h)) = v /\ (i = 1 \/ h[i - 1] = ".")
  <1>1. PICK n \in Nat : n = Len(h)
    OBVIOUS
  <1>2. PICK k \in Nat : k = Len(v)
    OBVIOUS
  <1>3. SubSeq(h, 1, n) = h
    BY <1>1, SubSeqFull
  <1>4. /\ IsSuffix(v, h) <=> \E i \in 1 .. n + 1 : SubSeq(h, i, n) = v
        /\ \A i \in 1 .. n + 1 : SubSeq(h, i, n) = v => i = n - k + 1
    <2>1. /\ IsSuffix(v, h) <=> \E i \in 1 .. Len(h) + 1 : SubSeq(h, i, Len(h)) = v
          /\ \A i \in 1 .. Len(h) + 1 : SubSeq(h, i, Len(h)) = v => i = Len(h) - Len(v) + 1
      BY SuffixIs
    <2> QED
      BY <1>1, <1>2, <2>1, Zenon
  <1>5. ASSUME h = v
        PROVE  \E i \in 1 .. n + 1 : SubSeq(h, i, n) = v /\ (i = 1 \/ h[i - 1] = ".")
    <2>1. 1 \in 1 .. n + 1
      OBVIOUS
    <2> QED
      BY <1>3, <1>5, <2>1, Zenon
  <1>6. ASSUME n - k > 0, IsSuffix(v, h), h[n - k] = "."
        PROVE  \E i \in 1 .. n + 1 : SubSeq(h, i, n) = v /\ (i = 1 \/ h[i - 1] = ".")
    <2>1. PICK i \in 1 .. n + 1 : SubSeq(h, i, n) = v
      BY <1>4, <1>6, Zenon
    <2>2. i = n - k + 1
      BY <1>4, <2>1, Zenon
    <2>3. i - 1 = n - k
      BY <2>2
    <2> QED
      BY <1>6, <2>1, <2>3, Zenon
  <1>7. ASSUME NEW i \in 1 .. n + 1, SubSeq(h, i, n) = v, i = 1 \/ h[i - 1] = "."
        PROVE  h = v \/ (n - k > 0 /\ IsSuffix(v, h) /\ h[n - k] = ".")
    <2>1. i = n - k + 1
      BY <1>4, <1>7, Zenon
    <2>2. CASE i = 1
      BY <1>3, <1>7, <2>2, Zenon
    <2>3. CASE i # 1
      <3>1. i - 1 = n - k /\ n - k > 0
        BY <2>1, <2>3
      <3>2. IsSuffix(v, h)
        BY <1>4, <1>7, Zenon
      <3> QED
        BY <1>7, <2>3, <3>1, <3>2, Zenon
    <2> QED
      BY <2>2, <2>3
  <1> QED
    BY <1>1, <1>2, <1>5, <1>6, <1>7, Zenon

\* What begins at some position of a name is a part of it.
LEMMA KeywordMeans ==
    ASSUME NEW h \in Seq(STRING), NEW v \in Seq(STRING)
    PROVE  (\E i \in 0 .. Len(h) - Len(v) : SubSeq(h, i + 1, i + Len(v)) = v)
             <=> v \in SubSeqs(h)
  <1>1. PICK n \in Nat : n = Len(h)
    OBVIOUS
  <1>2. PICK k \in Nat : k = Len(v)
    OBVIOUS
  <1>3. v \in SubSeqs(h) <=> \E i \in 0 .. n : \E j \in 0 .. n : SubSeq(h, i + 1, j) = v
    BY <1>1, SMT DEF SubSeqs
  <1>4. ASSUME NEW i \in 0 .. n - k, SubSeq(h, i + 1, i + k) = v
        PROVE  v \in SubSeqs(h)
    <2>1. i \in 0 .. n /\ i + k \in 0 .. n
      OBVIOUS
    <2> QED
      BY <1>3, <1>4, <2>1, Zenon
  <1>5. ASSUME NEW i \in 0 .. n, NEW j \in 0 .. n, SubSeq(h, i + 1, j) = v
        PROVE  \E p \in 0 .. n - k : SubSeq(h, p + 1, p + k) = v
    <2>1. CASE i < j
      <3>1. Len(SubSeq(h, i + 1, j)) = j - i
        BY <1>1, <2>1
      <3>2. k = j - i
        BY <1>2, <1>5, <3>1
      <3>3. i \in 0 .. n - k /\ i + k = j
        BY <2>1, <3>2
      <3> QED
        BY <1>5, <3>3, Zenon
    <2>2. CASE ~(i < j)
      <3>1. v = <<>>
        <4>1. i + 1 \in Int /\ j \in Int /\ j < i + 1
          BY <2>2
        <4> QED
          BY <1>5, <4>1, SubSeqEmpty
      <3>2. k = 0
        BY <1>2, <3>1
      <3>3. SubSeq(h, 0 + 1, 0 + k) = <<>>
        <4>1. 0 + 1 \in Int /\ 0 + k \in Int /\ 0 + k < 0 + 1
          BY <3>2
        <4> QED
          BY <4>1, SubSeqEmpty
      <3>4. 0 \in 0 .. n - k
        BY <3>2
      <3> QED
        BY <3>1, <3>3, <3>4, Zenon
    <2> QED
      BY <2>1, <2>2
  <1> QED
    BY <1>1, <1>2, <1>3, <1>4, <1>5, Zenon

\* A line that is not on a process hits a request exactly if it speaks of it.
LEMMA HitsMeans ==
    ASSUME NEW c \in Configs, Legible(c), NEW i \in DOMAIN c.rules,
           c.rules[i].type \in RuleTypes, i \notin ProcessLines(c),
           NEW dest \in Destinations, NEW src \in Sources
    PROVE  Hits(c.rules[i], Metadata(dest, src)) <=> Means(c.rules[i], dest, src)
  <1> DEFINE r == c.rules[i]
             m == Metadata(dest, src)
  <1>1. /\ m.host = dest.host /\ m.dstIP = NoAddr /\ m.dstPort = dest.port
        /\ m.srcIP = src.ip /\ m.srcPort = src.port
    BY DEF Metadata
  <1>2. dest.host \in Seq(STRING)
    BY RoutingAssumption
  <1>3. r.type \in {"DOMAIN", "DOMAIN-SUFFIX", "DOMAIN-KEYWORD"} => r.value \in Seq(STRING)
    BY RoutingAssumption
  <1>4. src.ip # NoAddr => src.ip \in Addresses
    BY RoutingAssumption
  <1>5. r.type = "SRC-IP-CIDR" => Readable(r.value)
    BY DEF Legible
  <1>6. r.type \in RuleTypes \ {"PROCESS-NAME", "PROCESS-PATH"}
    BY DEF ProcessLines
  <1> SUFFICES Hits(r, m) <=> Means(r, dest, src)
    OBVIOUS
  <1> HIDE DEF m, r
  <1>7. CASE r.type = "DOMAIN"
    <2>1. Hits(r, m) <=> DomainHits(r, m)
      BY <1>7 DEF Hits
    <2>2. Means(r, dest, src) <=> dest.host # <<>> /\ dest.host = r.value
      BY <1>7 DEF Means
    <2> QED
      BY <1>1, <1>7, <2>1, <2>2 DEF DomainHits
  <1>8. CASE r.type = "DOMAIN-SUFFIX"
    <2> DEFINE h == dest.host
               v == r.value
    <2>1. Hits(r, m) <=> DomainSuffixHits(r, m)
      BY <1>8 DEF Hits
    <2>2. Means(r, dest, src) <=>
            \E k \in 1 .. Len(h) + 1 :
                /\ h # <<>> /\ SubSeq(h, k, Len(h)) = v
                /\ k = 1 \/ h[k - 1] = "."
      BY <1>8 DEF Means
    <2>3. DomainSuffixHits(r, m) <=>
            /\ h # <<>>
            /\ h = v \/ (Len(h) - Len(v) > 0 /\ IsSuffix(v, h) /\ h[Len(h) - Len(v)] = ".")
      BY <1>1, Zenon DEF DomainSuffixHits
    <2>4. h \in Seq(STRING) /\ v \in Seq(STRING)
      BY <1>2, <1>3, <1>8
    <2> HIDE DEF h, v
    <2>5. h # <<>> =>
            ((h = v \/ (Len(h) - Len(v) > 0 /\ IsSuffix(v, h) /\ h[Len(h) - Len(v)] = "."))
              <=> \E k \in 1 .. Len(h) + 1 :
                    SubSeq(h, k, Len(h)) = v /\ (k = 1 \/ h[k - 1] = "."))
      BY <2>4, SuffixMeans, Zenon
    <2> QED
      BY <2>1, <2>2, <2>3, <2>5, Zenon
  <1>9. CASE r.type = "DOMAIN-KEYWORD"
    <2>1. Hits(r, m) <=> DomainKeywordHits(r, m)
      BY <1>9 DEF Hits
    <2>2. Means(r, dest, src) <=> dest.host # <<>> /\ r.value \in SubSeqs(dest.host)
      BY <1>9 DEF Means
    <2>3. DomainKeywordHits(r, m) <=>
            /\ dest.host # <<>>
            /\ \E k \in 0 .. Len(dest.host) - Len(r.value) :
                    SubSeq(dest.host, k + 1, k + Len(r.value)) = r.value
      BY <1>1, Zenon DEF DomainKeywordHits
    <2>4. (\E k \in 0 .. Len(dest.host) - Len(r.value) :
                SubSeq(dest.host, k + 1, k + Len(r.value)) = r.value)
            <=> r.value \in SubSeqs(dest.host)
      BY <1>2, <1>3, <1>9, KeywordMeans
    <2> QED
      BY <2>1, <2>2, <2>3, <2>4, Zenon
  <1>10. CASE r.type = "MATCH"
    <2>1. Hits(r, m)
      BY <1>10 DEF Hits
    <2>2. Means(r, dest, src)
      BY <1>10 DEF Means
    <2> QED
      BY <2>1, <2>2
  <1>11. CASE r.type \in {"IP-CIDR", "IP-CIDR6"}
    <2>1. Hits(r, m) <=> IPCIDRHits(r, m)
      BY <1>11 DEF Hits
    <2>2. ~IPCIDRHits(r, m)
      BY <1>1, Zenon DEF IPCIDRHits, InNetwork
    <2>3. ~Means(r, dest, src)
      BY <1>11 DEF Means
    <2> QED
      BY <2>1, <2>2, <2>3
  <1>12. CASE r.type = "SRC-IP-CIDR"
    <2>1. Hits(r, m) <=> InNetwork(r.value, src.ip)
      BY <1>1, <1>12 DEF Hits, SrcIPCIDRHits
    <2>2. Means(r, dest, src) <=> src.ip # NoAddr /\ InRange(r.value, src.ip)
      BY <1>12 DEF Means
    <2>3. CASE src.ip = NoAddr
      <3>1. ~InNetwork(r.value, src.ip)
        BY <2>3, Zenon DEF InNetwork
      <3> QED
        BY <2>1, <2>2, <2>3, <3>1
    <2>4. CASE src.ip # NoAddr
      <3>1. InNetwork(r.value, src.ip) <=> InRange(r.value, src.ip)
        BY <1>4, <1>5, <1>12, <2>4, NetworkMeans
      <3> QED
        BY <2>1, <2>2, <2>4, <3>1
    <2> QED
      BY <2>3, <2>4
  <1>13. CASE r.type = "SRC-PORT"
    <2>1. Hits(r, m) <=> r.value = src.port
      BY <1>1, <1>13 DEF Hits, PortHits
    <2>2. Means(r, dest, src) <=> src.port = r.value
      BY <1>13 DEF Means
    <2> QED
      BY <2>1, <2>2
  <1>14. CASE r.type = "DST-PORT"
    <2>1. Hits(r, m) <=> r.value = dest.port
      BY <1>1, <1>14 DEF Hits, PortHits
    <2>2. Means(r, dest, src) <=> dest.port = r.value
      BY <1>14 DEF Means
    <2> QED
      BY <2>1, <2>2
  <1>15. CASE r.type = "GEOIP"
    <2>1. ~Hits(r, m)
      BY <1>1, <1>15 DEF Hits, GeoIPHits
    <2>2. ~Means(r, dest, src)
      BY <1>15 DEF Means
    <2> QED
      BY <2>1, <2>2
  <1> QED
    BY <1>6, <1>7, <1>8, <1>9, <1>10, <1>11, <1>12, <1>13, <1>14, <1>15,
       Zenon DEF RuleTypes

\* A line on a process, or of no known type, speaks of nothing.
LEMMA MeansKnown ==
    ASSUME NEW r, NEW dest, NEW src, Means(r, dest, src)
    PROVE  r.type \in RuleTypes \ {"PROCESS-NAME", "PROCESS-PATH"}
  BY DEF Means, RuleTypes

\* The lines that hit are those that speak of the request, and some on processes.
LEMMA HitsAre ==
    ASSUME NEW c \in Configs, Legible(c), NEW dest \in Destinations, NEW src \in Sources,
           NEW hit, hit = {i \in ParsedRules(c.rules) : Hits(c.rules[i], Metadata(dest, src))}
    PROVE  /\ Meant(c, dest, src) \subseteq hit
           /\ hit \subseteq Meant(c, dest, src) \cup ProcessLines(c)
  <1>1. ASSUME NEW i \in DOMAIN c.rules, i \notin ProcessLines(c)
        PROVE  i \in hit <=> i \in Meant(c, dest, src)
    <2>1. i \in hit <=> i \in ParsedRules(c.rules) /\ Hits(c.rules[i], Metadata(dest, src))
      BY Zenon
    <2>2. i \in ParsedRules(c.rules) <=> c.rules[i].type \in RuleTypes /\ c.rules[i].complete
      BY Zenon DEF ParsedRules
    <2>3. i \in Meant(c, dest, src) <=> c.rules[i].complete /\ Means(c.rules[i], dest, src)
      BY Zenon DEF Meant
    <2>4. Means(c.rules[i], dest, src) => c.rules[i].type \in RuleTypes
      BY MeansKnown, Zenon
    <2>5. c.rules[i].type \in RuleTypes =>
            (Hits(c.rules[i], Metadata(dest, src)) <=> Means(c.rules[i], dest, src))
      BY <1>1, HitsMeans, Zenon
    <2> QED
      BY <2>1, <2>2, <2>3, <2>4, <2>5, Zenon
  <1>2. hit \subseteq DOMAIN c.rules /\ Meant(c, dest, src) \subseteq DOMAIN c.rules
    BY Zenon DEF ParsedRules, Meant
  <1>3. ASSUME NEW i \in Meant(c, dest, src)
        PROVE  i \notin ProcessLines(c)
    <2>1. c.rules[i].type \notin {"PROCESS-NAME", "PROCESS-PATH"}
      BY MeansKnown, Zenon DEF Meant
    <2> QED
      BY <2>1 DEF ProcessLines
  <1> QED
    BY <1>1, <1>2, <1>3, Zenon

\* The line chosen is the least, however the choice is written.
LEMMA LeastIs ==
    ASSUME NEW S, S \subseteq Nat, NEW k \in S, \A j \in S : k <= j
    PROVE  (CHOOSE i \in S : \A j \in S : i <= j) = k
  <1> DEFINE l == CHOOSE i \in S : \A j \in S : i <= j
  <1>1. l \in S /\ \A j \in S : l <= j
    OBVIOUS
  <1> HIDE DEF l
  <1>2. l <= k /\ k <= l /\ l \in Nat /\ k \in Nat
    BY <1>1
  <1>3. l = k
    BY <1>2
  <1> QED
    BY <1>3 DEF l

\* match() finds what the lines say: the first line that speaks of the request
\* names the adapter, through the masks of networks, the ends of names and the
\* search for keywords that the code computes otherwise, for every list of lines
\* whose networks can be read.  Should a line on a process take the request, it
\* is before that line.
THEOREM RulesDecide == RoutingSpec => []RuleDecides
  <1>1. RoutingInv => RuleDecides
    <2> SUFFICES ASSUME RoutingInv, trip # NoTrip, Legible(cfg)
                 PROVE  \E more \in {{}} \cup {{i} : i \in ProcessLines(cfg)} :
                            GoesBy(Meant(cfg, trip.dest, trip.src) \cup more)
      BY Zenon DEF RuleDecides
    <2>1. /\ trip.dest \in Destinations /\ trip.src \in Sources /\ cfg \in Configs
          /\ trip.first = MatchIn(cfg, proxies, Metadata(trip.dest, trip.src))
      BY DEF RoutingInv, RoutingTypeOK, DialInv
    <2>2. PICK hit : hit = {i \in ParsedRules(cfg.rules) :
                                Hits(cfg.rules[i], Metadata(trip.dest, trip.src))}
      OBVIOUS
    <2>3. PICK meant : meant = Meant(cfg, trip.dest, trip.src)
      OBVIOUS
    <2>4. meant \subseteq hit /\ hit \subseteq meant \cup ProcessLines(cfg)
      BY <2>1, <2>2, <2>3, HitsAre, Zenon
    <2>5. hit \subseteq Nat
      BY <2>1, <2>2, RoutingAssumption, Zenon DEF ParsedRules
    <2> DEFINE byLine(s) ==
                IF s = {} THEN "DIRECT"
                ELSE cfg.rules[CHOOSE i \in s : \A j \in s : i <= j].adapter
               name(s) ==
                CASE cfg.mode = "global" -> "GLOBAL"
                  [] cfg.mode = "direct" -> "DIRECT"
                  [] OTHER -> byLine(s)
    <2>6. trip.first = IF name(hit) \in DOMAIN proxies THEN name(hit) ELSE "DIRECT"
      BY <2>1, <2>2, Zenon DEF MatchIn
    <2>7. ASSUME NEW s
          PROVE  Asked(cfg, s) = name(s)
      BY Zenon DEF Asked, Min
    <2>8. ASSUME NEW s, name(s) = name(hit)
          PROVE  GoesBy(s)
      <3> HIDE DEF name
      <3> QED
        BY <2>6, <2>7, <2>8, Zenon DEF GoesBy
    <2>9. ASSUME NEW s, s # {}, hit # {},
                 (CHOOSE i \in s : \A j \in s : i <= j)
                    = (CHOOSE i \in hit : \A j \in hit : i <= j)
          PROVE  name(s) = name(hit)
      <3>1. byLine(s) = cfg.rules[CHOOSE i \in s : \A j \in s : i <= j].adapter
        BY <2>9, Zenon
      <3>2. byLine(hit) = cfg.rules[CHOOSE i \in hit : \A j \in hit : i <= j].adapter
        BY <2>9, Zenon
      <3> HIDE DEF byLine
      <3>3. byLine(s) = byLine(hit)
        BY <2>9, <3>1, <3>2, Zenon
      <3> QED
        BY <3>3, Zenon
    <2> HIDE DEF name
    <2>10. CASE hit = {}
      <3>1. meant \cup {} = hit
        BY <2>4, <2>10
      <3> QED
        BY <2>3, <2>8, <3>1, Zenon
    <2>11. CASE hit # {}
      <3>1. PICK k \in hit : \A j \in hit : k <= j
        BY <2>5, <2>11, LeastMember
      <3>2. ASSUME NEW s, s \subseteq hit, k \in s
            PROVE  GoesBy(s)
        <4>1. (CHOOSE i \in s : \A j \in s : i <= j) = k
          BY <2>5, <3>1, <3>2, LeastIs
        <4>2. (CHOOSE i \in hit : \A j \in hit : i <= j) = k
          BY <2>5, <3>1, LeastIs
        <4> QED
          BY <2>8, <2>9, <2>11, <3>2, <4>1, <4>2, Zenon
      <3>3. CASE k \in meant
        <4>1. meant \cup {} \subseteq hit /\ k \in meant \cup {}
          BY <2>4, <3>3
        <4>2. GoesBy(meant \cup {})
          BY <3>2, <4>1, Zenon
        <4> QED
          BY <2>3, <4>2, Zenon
      <3>4. CASE k \in ProcessLines(cfg)
        <4>1. meant \cup {k} \subseteq hit /\ k \in meant \cup {k}
          BY <2>4
        <4>2. GoesBy(meant \cup {k})
          BY <3>2, <4>1, Zenon
        <4> QED
          BY <2>3, <3>4, <4>2, Zenon
      <3> QED
        BY <2>4, <3>1, <3>3, <3>4
    <2> QED
      BY <2>10, <2>11
  <1> QED
    BY <1>1, RoutingInvariance, PTL

-----------------------------------------------------------------------------
\* The resolver: what it decodes, and what it sends and hands back.

Chain(f, base, F, m) ==
    f[0] = base /\ \A i \in 1 .. m : f[i] = F[<<f[i - 1], i>>]

\* There is a chain for every step and every beginning.
LEMMA ChainExists ==
    ASSUME NEW V, NEW base \in V, NEW m \in Nat, NEW F \in [V \X (1 .. m) -> V]
    PROVE  \E f \in [0 .. m -> V] : Chain(f, base, F, m)
  <1>1. PICK h \in [SUBSET (1 .. m) -> V] : Folds(h, F, base, m)
    BY FoldExists
  <1> DEFINE f == [i \in 0 .. m |-> h[1 .. i]]
  <1>2. f \in [0 .. m -> V]
    OBVIOUS
  <1>3. f[0] = base
    <2>1. 1 .. 0 = {} /\ 1 .. 0 \in SUBSET (1 .. m) /\ 0 \in 0 .. m
      OBVIOUS
    <2> QED
      BY <1>1, <2>1, Zenon DEF Folds
  <1>4. ASSUME NEW i \in 1 .. m
        PROVE  f[i] = F[<<f[i - 1], i>>]
    <2>1. 1 .. i \in SUBSET (1 .. m) /\ 1 .. i # {} /\ i \in 1 .. i /\ i \in Nat
      <3>1. i \in Nat /\ i <= m
        OBVIOUS
      <3>2. i \in 1 .. i
        OBVIOUS
      <3>3. \A j \in 1 .. i : j \in 1 .. m
        BY <3>1
      <3> QED
        BY <3>1, <3>2, <3>3, Zenon
    <2>2. Max(1 .. i) = i
      BY <2>1, GreatestUpto
    <2>3. (1 .. i) \ {i} = 1 .. i - 1
      BY <2>1
    <2>4. h[1 .. i] = F[<<h[1 .. i - 1], i>>]
      BY <1>1, <2>1, <2>2, <2>3, Zenon DEF Folds
    <2>5. i - 1 \in 0 .. m /\ i \in 0 .. m
      OBVIOUS
    <2> QED
      BY <2>4, <2>5
  <1> HIDE DEF f
  <1> QED
    BY <1>2, <1>3, <1>4, Zenon DEF Chain

-----------------------------------------------------------------------------
\* The bytes of a buffer.
LEMMA ByteType ==
    ASSUME NEW buffer \in ByteSeq
    PROVE  /\ Len(buffer) \in Nat
           /\ \A offset \in Nat : offset < Len(buffer) =>
                    ByteAt(buffer, offset) \in 0 .. 255
  <1> DEFINE T == 0 .. 255
  <1>1. buffer \in Seq(T)
    BY DEF ByteSeq
  <1> HIDE DEF T
  <1>2. Len(buffer) \in Nat /\ \A i \in 1 .. Len(buffer) : buffer[i] \in T
    BY <1>1
  <1>3. ASSUME NEW offset \in Nat, offset < Len(buffer)
        PROVE  ByteAt(buffer, offset) \in T
    <2>1. offset + 1 \in 1 .. Len(buffer)
      BY <1>2, <1>3
    <2> QED
      BY <1>2, <2>1 DEF ByteAt
  <1> QED
    BY <1>2, <1>3 DEF T

\* Two bytes of a buffer are a number.
LEMMA ReadType ==
    ASSUME NEW buffer \in ByteSeq, NEW offset \in Nat, offset + 2 <= Len(buffer)
    PROVE  ReadU16(buffer, offset) \in Nat
  <1>1. /\ offset + 1 \in Nat /\ offset < Len(buffer) /\ offset + 1 < Len(buffer)
    BY ByteType
  <1>2. PICK a \in 0 .. 255 : a = ByteAt(buffer, offset)
    BY <1>1, ByteType
  <1>3. PICK b \in 0 .. 255 : b = ByteAt(buffer, offset + 1)
    BY <1>1, ByteType
  <1>4. ReadU16(buffer, offset) = 256 * a + b
    BY <1>2, <1>3, Zenon DEF ReadU16
  <1>5. 256 * a + b \in Nat
    OBVIOUS
  <1> QED
    BY <1>4, <1>5, Zenon

\* A part of a buffer is bytes.
LEMMA SliceType ==
    ASSUME NEW buffer \in ByteSeq, NEW offset \in Nat, NEW len \in Nat,
           offset + len <= Len(buffer)
    PROVE  Slice(buffer, offset, len) \in ByteSeq /\ Len(Slice(buffer, offset, len)) = len
  <1> DEFINE T == 0 .. 255
  <1>1. buffer \in Seq(T)
    BY DEF ByteSeq
  <1> HIDE DEF T
  <1>2. PICK b \in Nat : b = offset + len
    OBVIOUS
  <1>3. /\ SubSeq(buffer, offset + 1, b) \in Seq(T)
        /\ Len(SubSeq(buffer, offset + 1, b)) = b - offset
    BY <1>1, <1>2, Between
  <1> QED
    BY <1>2, <1>3 DEF Slice, ByteSeq, T

\* What the loop over the parts of a name comes to.
NameEnds == [name : Seq(ByteSeq), offset : Nat, jump_offset : Nat, whole : BOOLEAN]

\* A turn of it reads within the buffer, whatever is there.
LEMMA NameStepType ==
    ASSUME NEW buffer \in ByteSeq, NEW rest \in [Nat -> NameEnds], NEW offset \in Nat
    PROVE  NameStep(buffer, rest, offset) \in NameEnds
  <1>1. \A o \in Nat : Stop(o, TRUE) \in NameEnds /\ Stop(o, FALSE) \in NameEnds
    <2>1. <<>> \in Seq(ByteSeq)
      OBVIOUS
    <2> QED
      BY <2>1 DEF Stop, NameEnds
  <1>2. PICK size \in Nat : size = Len(buffer)
    BY ByteType
  <1>3. CASE offset >= size
    <2>1. NameStep(buffer, rest, offset) = Stop(offset, FALSE)
      BY <1>2, <1>3, Zenon DEF NameStep
    <2> QED
      BY <1>1, <2>1, Zenon
  <1>4. CASE offset < size
    <2>1. PICK len \in 0 .. 255 : len = ByteAt(buffer, offset)
      BY <1>2, <1>4, ByteType
    <2>2. ~(offset >= size)
      BY <1>4
    <2> DEFINE Jump == IF offset + 1 >= size THEN Stop(offset, FALSE)
                       ELSE [rest[(len % 64) * 256 + ByteAt(buffer, offset + 1)]
                                EXCEPT !.jump_offset = offset + 2]
               Labelled == [rest[offset + 1 + len]
                       EXCEPT !.name = << Slice(buffer, offset + 1, len) >> \o @]
    <2>3. NameStep(buffer, rest, offset) =
            IF len >= 192 THEN Jump
            ELSE IF len = 0 THEN Stop(offset + 1, TRUE)
            ELSE IF offset + 1 + len > size THEN Stop(offset + 1, FALSE)
            ELSE Labelled
      BY <1>2, <2>1, <2>2, Zenon DEF NameStep
    <2>4. Jump \in NameEnds
      <3>1. CASE offset + 1 >= size
        BY <1>1, <3>1, Zenon
      <3>2. CASE offset + 1 < size
        <4>1. offset + 1 \in Nat
          OBVIOUS
        <4>2. PICK low \in 0 .. 255 : low = ByteAt(buffer, offset + 1)
          BY <1>2, <3>2, <4>1, ByteType
        <4>3. ~(offset + 1 >= size)
          BY <3>2
        <4>4. Jump = [rest[(len % 64) * 256 + low] EXCEPT !.jump_offset = offset + 2]
          BY <4>2, <4>3, Zenon
        <4>5. (len % 64) * 256 + low \in Nat
          OBVIOUS
        <4> HIDE DEF Jump
        <4>6. PICK r \in NameEnds : r = rest[(len % 64) * 256 + low]
          BY <4>5
        <4>7. Jump = [r EXCEPT !.jump_offset = offset + 2]
          BY <4>4, <4>6, Zenon
        <4>8. offset + 2 \in Nat
          OBVIOUS
        <4> QED
          BY <4>7, <4>8 DEF NameEnds
      <3>3. offset + 1 >= size \/ offset + 1 < size
        OBVIOUS
      <3> HIDE DEF Jump
      <3> QED
        BY <3>1, <3>2, <3>3
    <2>5. ~(offset + 1 + len > size) => Labelled \in NameEnds
      <3> SUFFICES ASSUME ~(offset + 1 + len > size)
                   PROVE  Labelled \in NameEnds
        OBVIOUS
      <3>1. offset + 1 \in Nat /\ len \in Nat /\ offset + 1 + len <= size
        OBVIOUS
      <3>2. PICK label \in ByteSeq : label = Slice(buffer, offset + 1, len)
        BY <1>2, <3>1, SliceType
      <3>3. PICK r \in NameEnds : r = rest[offset + 1 + len]
        OBVIOUS
      <3>4. Labelled = [r EXCEPT !.name = << label >> \o @]
        BY <3>2, <3>3, Zenon
      <3>5. << label >> \o r.name \in Seq(ByteSeq)
        <4>1. r.name \in Seq(ByteSeq)
          BY DEF NameEnds
        <4> HIDE DEF ByteSeq
        <4> QED
          BY <4>1
      <3> HIDE DEF Labelled
      <3> QED
        BY <3>4, <3>5 DEF NameEnds
    <2> HIDE DEF Jump, Labelled
    <2>6. offset + 1 \in Nat
      OBVIOUS
    <2> QED
      BY <1>1, <2>3, <2>4, <2>5, <2>6, Zenon
  <1> QED
    BY <1>3, <1>4

\* The loop of decodeName, turn by turn.
NameLoop(g, buffer) ==
    /\ g \in [0 .. MaxSteps -> [Nat -> NameEnds]]
    /\ \A offset \in Nat : g[0][offset] = Stop(offset, FALSE)
    /\ \A k \in 1 .. MaxSteps, offset \in Nat :
            g[k][offset] = NameStep(buffer, g[k - 1], offset)

\* There is such a function, and it is what NameFrom takes.
LEMMA NameLoopIs ==
    ASSUME NEW buffer \in ByteSeq
    PROVE  \E g : /\ NameLoop(g, buffer)
                  /\ \A pos \in Nat : NameFrom(buffer, pos) = g[MaxSteps][pos]
  <1> DEFINE m == MaxSteps
             V == [Nat -> NameEnds]
             base == [offset \in Nat |-> Stop(offset, FALSE)]
             Turn(v) == [offset \in Nat |-> NameStep(buffer, v, offset)]
             Body(h) == [steps \in 0 .. m |-> IF steps = 0 THEN base ELSE Turn(h[steps - 1])]
             g == CHOOSE h : h = Body(h)
             F == [q \in V \X (1 .. m) |-> Turn(q[1])]
  <1>1. \A pos \in Nat : NameFrom(buffer, pos) = g[m][pos]
    BY Zenon DEF NameFrom
  <1>2. m \in Nat
    BY DEF MaxSteps
  <1>3. \A v \in V : Turn(v) \in V
    BY NameStepType
  <1>4. base \in V
    BY DEF Stop, NameEnds
  <1>5. F \in [V \X (1 .. m) -> V]
    BY <1>3
  <1>6. \A v \in V, i \in 1 .. m : F[<<v, i>>] = Turn(v)
    OBVIOUS
  <1>7. \A offset \in Nat : base[offset] = Stop(offset, FALSE)
    OBVIOUS
  <1>8. \A v : \A offset \in Nat : Turn(v)[offset] = NameStep(buffer, v, offset)
    OBVIOUS
  <1> HIDE DEF F, V, m, base, Turn
  <1>9. PICK f \in [0 .. m -> V] : Chain(f, base, F, m)
    BY <1>2, <1>4, <1>5, ChainExists
  <1>10. f = Body(f)
    <2>1. ASSUME NEW k \in 0 .. m
          PROVE  f[k] = Body(f)[k]
      <3>1. CASE k = 0
        BY <1>9, <3>1 DEF Chain
      <3>2. CASE k # 0
        <4>1. k \in 1 .. m /\ k - 1 \in 0 .. m
          BY <1>2, <3>2
        <4>2. f[k] = Turn(f[k - 1])
          BY <1>6, <1>9, <4>1 DEF Chain
        <4> QED
          BY <3>2, <4>2
      <3> QED
        BY <3>1, <3>2
    <2> QED
      BY <1>9, <2>1
  <1>11. g = Body(g)
    BY <1>10, Zenon
  <1> HIDE DEF g
  <1>12. g[0] = base /\ g = [k \in 0 .. m |-> g[k]]
    BY <1>2, <1>11
  <1>13. ASSUME NEW k \in 1 .. m
         PROVE  g[k] = Turn(g[k - 1])
    <2>1. k \in 0 .. m /\ k # 0
      BY <1>2
    <2> QED
      BY <1>11, <2>1, Zenon
  <1> HIDE DEF Body
  <1> DEFINE P == {k \in Nat : k \in 0 .. m => g[k] \in V}
  <1>14. 0 \in P
    BY <1>4, <1>12
  <1>15. ASSUME NEW k \in Nat, k \in P
         PROVE  k + 1 \in P
    <2> SUFFICES ASSUME k + 1 \in 0 .. m
                 PROVE  g[k + 1] \in V
      OBVIOUS
    <2>1. k \in 0 .. m /\ k + 1 \in 1 .. m /\ (k + 1) - 1 = k
      BY <1>2
    <2> QED
      BY <1>3, <1>13, <1>15, <2>1
  <1> HIDE DEF P
  <1>16. Nat \subseteq P
    BY <1>14, <1>15, Inductive
  <1>17. \A k \in 0 .. m : g[k] \in V
    BY <1>16 DEF P
  <1>18. g \in [0 .. m -> V]
    BY <1>12, <1>17
  <1>19. \A offset \in Nat : g[0][offset] = Stop(offset, FALSE)
    BY <1>7, <1>12, Zenon
  <1>20. ASSUME NEW k \in 1 .. m, NEW offset \in Nat
         PROVE  g[k][offset] = NameStep(buffer, g[k - 1], offset)
    BY <1>8, <1>13, Zenon
  <1>21. NameLoop(g, buffer)
    BY <1>18, <1>19, <1>20, Zenon DEF NameLoop, m, V
  <1> QED
    BY <1>1, <1>21, Zenon DEF m

\* decodeName yields labels of bytes and an offset, wherever it starts.
LEMMA DecodeNameType ==
    ASSUME NEW buffer \in ByteSeq, NEW pos \in Nat
    PROVE  DecodeName(buffer, pos) \in [name : Seq(ByteSeq), offset : Nat]
  <1>1. PICK g : NameLoop(g, buffer) /\ NameFrom(buffer, pos) = g[MaxSteps][pos]
    BY NameLoopIs
  <1>2. NameFrom(buffer, pos) \in NameEnds
    <2>1. MaxSteps \in 0 .. MaxSteps
      BY DEF MaxSteps
    <2> QED
      BY <1>1, <2>1 DEF NameLoop
  <1> QED
    BY <1>2 DEF DecodeName, NameEnds

\* What the loops over the records and over the questions come to.
Records == Seq([type : Nat, rdata : ByteSeq])
RecordEnds == [ok : BOOLEAN, answers : Records]
QuestionEnds == [ok : BOOLEAN, offset : Nat, questions : Seq(Seq(ByteSeq))]

\* A turn of the loop over the records reads within the buffer.
LEMMA RecordStepType ==
    ASSUME NEW buffer \in ByteSeq, NEW rest \in [Nat -> RecordEnds], NEW start \in Nat
    PROVE  RecordStep(buffer, rest, start) \in RecordEnds
  <1>1. Unanswered(FALSE) \in RecordEnds
    <2>1. <<>> \in Records
      BY DEF Records
    <2> QED
      BY <2>1 DEF Unanswered, RecordEnds
  <1>2. PICK size \in Nat : size = Len(buffer)
    BY ByteType
  <1>3. PICK offset \in Nat : offset = DecodeName(buffer, start).offset
    BY DecodeNameType
  <1>4. CASE offset + 10 > size
    BY <1>1, <1>2, <1>3, <1>4, Zenon DEF RecordStep
  <1>5. CASE offset + 10 <= size
    <2>1. offset + 8 \in Nat /\ (offset + 8) + 2 <= size /\ offset + 2 <= size
          /\ ~(offset + 10 > size)
      BY <1>5
    <2>2. PICK type \in Nat : type = ReadU16(buffer, offset)
      BY <1>2, <2>1, ReadType
    <2>3. PICK rdlength \in Nat : rdlength = ReadU16(buffer, offset + 8)
      BY <1>2, <2>1, ReadType
    <2> DEFINE Full == [rest[offset + 10 + rdlength]
                          EXCEPT !.answers = << [type  |-> type,
                                 rdata |-> Slice(buffer, offset + 10, rdlength)] >>
                               \o @]
    <2>4. RecordStep(buffer, rest, start) =
            IF offset + 10 + rdlength > size THEN Unanswered(FALSE) ELSE Full
      BY <1>2, <1>3, <2>1, <2>2, <2>3, Zenon DEF RecordStep
    <2>5. ~(offset + 10 + rdlength > size) => Full \in RecordEnds
      <3> SUFFICES ASSUME ~(offset + 10 + rdlength > size)
                   PROVE  Full \in RecordEnds
        OBVIOUS
      <3>1. offset + 10 \in Nat /\ offset + 10 + rdlength <= size
        OBVIOUS
      <3>2. PICK rdata \in ByteSeq : rdata = Slice(buffer, offset + 10, rdlength)
        BY <1>2, <3>1, SliceType
      <3>3. PICK r \in RecordEnds : r = rest[offset + 10 + rdlength]
        OBVIOUS
      <3>4. PICK one \in [type : Nat, rdata : ByteSeq] : one = [type |-> type, rdata |-> rdata]
        OBVIOUS
      <3>5. Full = [r EXCEPT !.answers = << one >> \o @]
        BY <3>2, <3>3, <3>4, Zenon
      <3>6. << one >> \o r.answers \in Records
        <4> DEFINE T == [type : Nat, rdata : ByteSeq]
        <4>1. r.answers \in Seq(T) /\ one \in T
          BY DEF RecordEnds, Records
        <4> HIDE DEF T
        <4>2. << one >> \o r.answers \in Seq(T)
          BY <4>1
        <4> QED
          BY <4>2 DEF T, Records
      <3> HIDE DEF Full
      <3> QED
        BY <3>5, <3>6 DEF RecordEnds
    <2> HIDE DEF Full
    <2> QED
      BY <1>1, <2>4, <2>5, Zenon
  <1> QED
    BY <1>4, <1>5

\* A turn of the loop over the questions likewise.
LEMMA QuestionStepType ==
    ASSUME NEW buffer \in ByteSeq, NEW rest \in [Nat -> QuestionEnds], NEW start \in Nat
    PROVE  QuestionStep(buffer, rest, start) \in QuestionEnds
  <1>1. PICK n \in [name : Seq(ByteSeq), offset : Nat] : n = DecodeName(buffer, start)
    BY DecodeNameType
  <1>2. PICK size \in Nat : size = Len(buffer)
    BY ByteType
  <1>3. CASE n.offset + 4 > size
    <2>1. QuestionStep(buffer, rest, start) =
            [ok |-> FALSE, offset |-> n.offset, questions |-> <<>>]
      BY <1>1, <1>2, <1>3, Zenon DEF QuestionStep
    <2>2. <<>> \in Seq(Seq(ByteSeq))
      OBVIOUS
    <2> QED
      BY <2>1, <2>2 DEF QuestionEnds
  <1>4. CASE n.offset + 4 <= size
    <2>1. ~(n.offset + 4 > size)
      BY <1>4
    <2>2. PICK r \in QuestionEnds : r = rest[n.offset + 4]
      OBVIOUS
    <2>3. QuestionStep(buffer, rest, start) = [r EXCEPT !.questions = << n.name >> \o @]
      BY <1>1, <1>2, <2>1, <2>2, Zenon DEF QuestionStep
    <2>4. << n.name >> \o r.questions \in Seq(Seq(ByteSeq))
      <3> DEFINE T == Seq(ByteSeq)
      <3>1. n.name \in T /\ r.questions \in Seq(T)
        BY DEF QuestionEnds
      <3> HIDE DEF T
      <3>2. << n.name >> \o r.questions \in Seq(T)
        BY <3>1
      <3> QED
        BY <3>2 DEF T
    <2> QED
      BY <2>3, <2>4 DEF QuestionEnds
  <1> QED
    BY <1>3, <1>4

\* What they come to where nothing is left.
LEMMA LoopBases ==
    /\ [start \in Nat |-> Unanswered(TRUE)] \in [Nat -> RecordEnds]
    /\ [start \in Nat |-> [ok |-> TRUE, offset |-> start, questions |-> <<>>]]
            \in [Nat -> QuestionEnds]
  <1>1. <<>> \in Records /\ <<>> \in Seq(Seq(ByteSeq))
    BY DEF Records
  <1> QED
    BY <1>1 DEF Unanswered, RecordEnds, QuestionEnds

\* The loop over the answers, turn by turn.
RecordLoop(g, buffer, n) ==
    /\ g \in [0 .. n -> [Nat -> RecordEnds]]
    /\ \A start \in Nat : g[0][start] = Unanswered(TRUE)
    /\ \A k \in 1 .. n, start \in Nat :
            g[k][start] = RecordStep(buffer, g[k - 1], start)

\* There is such a function, and it is what DecodeAnswers takes.
LEMMA RecordLoopIs ==
    ASSUME NEW buffer \in ByteSeq, NEW n \in Nat
    PROVE  \E g : /\ RecordLoop(g, buffer, n)
                  /\ \A pos \in Nat : DecodeAnswers(buffer, n, pos) = g[n][pos]
  <1> DEFINE V == [Nat -> RecordEnds]
             base == [start \in Nat |-> Unanswered(TRUE)]
             Turn(v) == [start \in Nat |-> RecordStep(buffer, v, start)]
             Body(h) == [left \in 0 .. n |-> IF left = 0 THEN base ELSE Turn(h[left - 1])]
             g == CHOOSE h : h = Body(h)
             F == [q \in V \X (1 .. n) |-> Turn(q[1])]
  <1>1. \A pos \in Nat : DecodeAnswers(buffer, n, pos) = g[n][pos]
    BY Zenon DEF DecodeAnswers
  <1>2. \A v \in V : Turn(v) \in V
    BY RecordStepType
  <1>3. base \in V
    BY LoopBases
  <1>4. F \in [V \X (1 .. n) -> V]
    BY <1>2
  <1>5. \A v \in V, i \in 1 .. n : F[<<v, i>>] = Turn(v)
    OBVIOUS
  <1>6. \A start \in Nat : base[start] = Unanswered(TRUE)
    OBVIOUS
  <1>7. \A v : \A start \in Nat : Turn(v)[start] = RecordStep(buffer, v, start)
    OBVIOUS
  <1> HIDE DEF F, V, base, Turn
  <1>8. PICK f \in [0 .. n -> V] : Chain(f, base, F, n)
    BY <1>3, <1>4, ChainExists
  <1>9. f = Body(f)
    <2>1. ASSUME NEW k \in 0 .. n
          PROVE  f[k] = Body(f)[k]
      <3>1. CASE k = 0
        BY <1>8, <3>1 DEF Chain
      <3>2. CASE k # 0
        <4>1. k \in 1 .. n /\ k - 1 \in 0 .. n
          BY <3>2
        <4>2. f[k] = Turn(f[k - 1])
          BY <1>5, <1>8, <4>1 DEF Chain
        <4> QED
          BY <3>2, <4>2
      <3> QED
        BY <3>1, <3>2
    <2> QED
      BY <1>8, <2>1
  <1>10. g = Body(g)
    BY <1>9, Zenon
  <1> HIDE DEF g
  <1>11. g[0] = base /\ g = [k \in 0 .. n |-> g[k]]
    BY <1>10
  <1>12. ASSUME NEW k \in 1 .. n
         PROVE  g[k] = Turn(g[k - 1])
    <2>1. k \in 0 .. n /\ k # 0
      OBVIOUS
    <2> QED
      BY <1>10, <2>1, Zenon
  <1> HIDE DEF Body
  <1> DEFINE P == {k \in Nat : k \in 0 .. n => g[k] \in V}
  <1>13. 0 \in P
    BY <1>3, <1>11
  <1>14. ASSUME NEW k \in Nat, k \in P
         PROVE  k + 1 \in P
    <2> SUFFICES ASSUME k + 1 \in 0 .. n
                 PROVE  g[k + 1] \in V
      OBVIOUS
    <2>1. k \in 0 .. n /\ k + 1 \in 1 .. n /\ (k + 1) - 1 = k
      OBVIOUS
    <2> QED
      BY <1>2, <1>12, <1>14, <2>1
  <1> HIDE DEF P
  <1>15. Nat \subseteq P
    BY <1>13, <1>14, Inductive
  <1>16. \A k \in 0 .. n : g[k] \in V
    BY <1>15 DEF P
  <1>17. g \in [0 .. n -> V]
    BY <1>11, <1>16
  <1>18. \A start \in Nat : g[0][start] = Unanswered(TRUE)
    BY <1>6, <1>11, Zenon
  <1>19. ASSUME NEW k \in 1 .. n, NEW start \in Nat
         PROVE  g[k][start] = RecordStep(buffer, g[k - 1], start)
    BY <1>7, <1>12, Zenon
  <1>20. RecordLoop(g, buffer, n)
    BY <1>17, <1>18, <1>19, Zenon DEF RecordLoop, V
  <1> QED
    BY <1>1, <1>20, Zenon

\* The loop over the questions, turn by turn.
QuestionLoop(g, buffer, n) ==
    /\ g \in [0 .. n -> [Nat -> QuestionEnds]]
    /\ \A start \in Nat : g[0][start] = [ok |-> TRUE, offset |-> start, questions |-> <<>>]
    /\ \A k \in 1 .. n, start \in Nat :
            g[k][start] = QuestionStep(buffer, g[k - 1], start)

\* There is such a function, and it is what DecodeQuestions takes.
LEMMA QuestionLoopIs ==
    ASSUME NEW buffer \in ByteSeq, NEW n \in Nat
    PROVE  \E g : /\ QuestionLoop(g, buffer, n)
                  /\ \A pos \in Nat : DecodeQuestions(buffer, n, pos) = g[n][pos]
  <1> DEFINE V == [Nat -> QuestionEnds]
             base == [start \in Nat |-> [ok |-> TRUE, offset |-> start, questions |-> <<>>]]
             Turn(v) == [start \in Nat |-> QuestionStep(buffer, v, start)]
             Body(h) == [left \in 0 .. n |-> IF left = 0 THEN base ELSE Turn(h[left - 1])]
             g == CHOOSE h : h = Body(h)
             F == [q \in V \X (1 .. n) |-> Turn(q[1])]
  <1>1. \A pos \in Nat : DecodeQuestions(buffer, n, pos) = g[n][pos]
    BY Zenon DEF DecodeQuestions
  <1>2. \A v \in V : Turn(v) \in V
    BY QuestionStepType
  <1>3. base \in V
    BY LoopBases
  <1>4. F \in [V \X (1 .. n) -> V]
    BY <1>2
  <1>5. \A v \in V, i \in 1 .. n : F[<<v, i>>] = Turn(v)
    OBVIOUS
  <1>6. \A start \in Nat : base[start] = [ok |-> TRUE, offset |-> start, questions |-> <<>>]
    OBVIOUS
  <1>7. \A v : \A start \in Nat : Turn(v)[start] = QuestionStep(buffer, v, start)
    OBVIOUS
  <1> HIDE DEF F, V, base, Turn
  <1>8. PICK f \in [0 .. n -> V] : Chain(f, base, F, n)
    BY <1>3, <1>4, ChainExists
  <1>9. f = Body(f)
    <2>1. ASSUME NEW k \in 0 .. n
          PROVE  f[k] = Body(f)[k]
      <3>1. CASE k = 0
        BY <1>8, <3>1 DEF Chain
      <3>2. CASE k # 0
        <4>1. k \in 1 .. n /\ k - 1 \in 0 .. n
          BY <3>2
        <4>2. f[k] = Turn(f[k - 1])
          BY <1>5, <1>8, <4>1 DEF Chain
        <4> QED
          BY <3>2, <4>2
      <3> QED
        BY <3>1, <3>2
    <2> QED
      BY <1>8, <2>1
  <1>10. g = Body(g)
    BY <1>9, Zenon
  <1> HIDE DEF g
  <1>11. g[0] = base /\ g = [k \in 0 .. n |-> g[k]]
    BY <1>10
  <1>12. ASSUME NEW k \in 1 .. n
         PROVE  g[k] = Turn(g[k - 1])
    <2>1. k \in 0 .. n /\ k # 0
      OBVIOUS
    <2> QED
      BY <1>10, <2>1, Zenon
  <1> HIDE DEF Body
  <1> DEFINE P == {k \in Nat : k \in 0 .. n => g[k] \in V}
  <1>13. 0 \in P
    BY <1>3, <1>11
  <1>14. ASSUME NEW k \in Nat, k \in P
         PROVE  k + 1 \in P
    <2> SUFFICES ASSUME k + 1 \in 0 .. n
                 PROVE  g[k + 1] \in V
      OBVIOUS
    <2>1. k \in 0 .. n /\ k + 1 \in 1 .. n /\ (k + 1) - 1 = k
      OBVIOUS
    <2> QED
      BY <1>2, <1>12, <1>14, <2>1
  <1> HIDE DEF P
  <1>15. Nat \subseteq P
    BY <1>13, <1>14, Inductive
  <1>16. \A k \in 0 .. n : g[k] \in V
    BY <1>15 DEF P
  <1>17. g \in [0 .. n -> V]
    BY <1>11, <1>16
  <1>18. \A start \in Nat : g[0][start] = [ok |-> TRUE, offset |-> start, questions |-> <<>>]
    BY <1>6, <1>11, Zenon
  <1>19. ASSUME NEW k \in 1 .. n, NEW start \in Nat
         PROVE  g[k][start] = QuestionStep(buffer, g[k - 1], start)
    BY <1>7, <1>12, Zenon
  <1>20. QuestionLoop(g, buffer, n)
    BY <1>17, <1>18, <1>19, Zenon DEF QuestionLoop, V
  <1> QED
    BY <1>1, <1>20, Zenon

\* Decode takes any bytes: it reads none that are not there, and what it finds is
\* names, types and bytes.
Messages == [ok : BOOLEAN, questions : Seq(Seq(ByteSeq)), answers : Records]

\* Decoding bytes yields a message of records: no read leaves the buffer.
LEMMA DecodeType ==
    ASSUME NEW buffer \in ByteSeq
    PROVE  Decode(buffer) \in Messages
  <1>1. Refused \in Messages
    <2>1. <<>> \in Seq(Seq(ByteSeq)) /\ <<>> \in Records
      BY DEF Records
    <2> QED
      BY <2>1 DEF Refused, Messages
  <1>2. PICK size \in Nat : size = Len(buffer)
    BY ByteType
  <1>3. CASE size < 12
    BY <1>1, <1>2, <1>3, Zenon DEF Decode
  <1>4. CASE size >= 12
    <2>1. ~(size < 12)
      BY <1>4
    <2>2. PICK asked \in Nat : asked = ReadU16(buffer, 4)
      BY <1>2, <1>4, ReadType
    <2>3. PICK answered \in Nat : answered = ReadU16(buffer, 6)
      BY <1>2, <1>4, ReadType
    <2>4. PICK q \in QuestionEnds : q = DecodeQuestions(buffer, asked, 12)
      <3>1. PICK g : QuestionLoop(g, buffer, asked)
                     /\ DecodeQuestions(buffer, asked, 12) = g[asked][12]
        BY QuestionLoopIs
      <3>2. asked \in 0 .. asked
        OBVIOUS
      <3>3. g[asked] \in [Nat -> QuestionEnds]
        BY <3>1, <3>2 DEF QuestionLoop
      <3> QED
        BY <3>1, <3>3
    <2>5. PICK a \in RecordEnds : a = DecodeAnswers(buffer, answered, q.offset)
      <3>1. q.offset \in Nat
        BY DEF QuestionEnds
      <3>2. PICK g : RecordLoop(g, buffer, answered)
                     /\ DecodeAnswers(buffer, answered, q.offset) = g[answered][q.offset]
        BY <3>1, RecordLoopIs
      <3>3. answered \in 0 .. answered
        OBVIOUS
      <3>4. g[answered] \in [Nat -> RecordEnds]
        BY <3>2, <3>3 DEF RecordLoop
      <3> QED
        BY <3>1, <3>2, <3>4
    <2>6. Decode(buffer) = IF ~q.ok THEN Refused ELSE IF ~a.ok THEN Refused
                           ELSE [ok |-> TRUE, questions |-> q.questions,
                                 answers |-> a.answers]
      BY <1>2, <2>1, <2>2, <2>3, <2>4, <2>5, Zenon DEF Decode
    <2>7. [ok |-> TRUE, questions |-> q.questions, answers |-> a.answers] \in Messages
      BY DEF QuestionEnds, RecordEnds, Messages
    <2> QED
      BY <1>1, <2>6, <2>7, Zenon
  <1> QED
    BY <1>3, <1>4

\* Bytes put together are bytes.
LEMMA BytesConcat ==
    ASSUME NEW s \in ByteSeq, NEW t \in ByteSeq
    PROVE  s \o t \in ByteSeq
  <1> DEFINE T == 0 .. 255
  <1>1. s \in Seq(T) /\ t \in Seq(T)
    BY DEF ByteSeq
  <1> HIDE DEF T
  <1>2. s \o t \in Seq(T)
    BY <1>1
  <1> QED
    BY <1>2 DEF T, ByteSeq

\* A few of them are.
LEMMA FewBytes ==
    ASSUME NEW a \in 0 .. 255, NEW b \in 0 .. 255
    PROVE  /\ <<>> \in ByteSeq /\ << a >> \in ByteSeq /\ << a, b >> \in ByteSeq
           /\ Len(<< a >>) = 1 /\ Len(<< a, b >>) = 2
  <1> DEFINE T == 0 .. 255
  <1>1. a \in T /\ b \in T
    OBVIOUS
  <1> HIDE DEF T
  <1>2. <<>> \in Seq(T) /\ << a >> \in Seq(T) /\ << a, b >> \in Seq(T)
    BY <1>1
  <1> QED
    BY <1>2 DEF T, ByteSeq

\* A number in two bytes.
LEMMA U16Type ==
    ASSUME NEW n \in Nat
    PROVE  U16(n) \in ByteSeq /\ Len(U16(n)) = 2
  <1>1. PICK a \in 0 .. 255 : a = (n \div 256) % 256
    OBVIOUS
  <1>2. PICK b \in 0 .. 255 : b = n % 256
    OBVIOUS
  <1>3. U16(n) = << a, b >>
    BY <1>1, <1>2, Zenon DEF U16
  <1>4. << a, b >> \in ByteSeq /\ Len(<< a, b >>) = 2
    BY FewBytes
  <1> QED
    BY <1>3, <1>4, Zenon

\* A label behind its length.
LEMMA LabelType ==
    ASSUME NEW label \in ByteSeq
    PROVE  LengthAndLabel(label) \in ByteSeq
  <1>1. PICK n \in Nat : n = Len(label)
    BY ByteType
  <1>2. n % 256 \in 0 .. 255
    OBVIOUS
  <1> QED
    BY <1>1, <1>2, FewBytes, BytesConcat DEF LengthAndLabel

\* An encoded name is bytes, whatever the labels.
LEMMA EncodeNameType ==
    ASSUME NEW labels \in Seq(ByteSeq)
    PROVE  EncodeName(labels) \in ByteSeq
  <1> DEFINE written == IF labels # <<>> /\ Last(labels) = <<>> THEN Front(labels)
                                                                ELSE labels
             parts == [k \in DOMAIN written |-> LengthAndLabel(written[k])]
  <1>1. EncodeName(labels) = FlattenSeq(parts) \o << 0 >>
    BY Zenon DEF EncodeName
  <1>2. written \in Seq(ByteSeq)
    <2> HIDE DEF ByteSeq
    <2>1. labels # <<>> => Front(labels) \in Seq(ByteSeq)
      <3> SUFFICES ASSUME labels # <<>>
                   PROVE  Front(labels) \in Seq(ByteSeq)
        OBVIOUS
      <3>1. Len(labels) - 1 \in Nat /\ Len(labels) - 1 <= Len(labels)
        OBVIOUS
      <3> QED
        BY <3>1, PrefixType DEF Front
    <2> QED
      BY <2>1
  <1> HIDE DEF written
  <1>3. PICK m \in Nat : DOMAIN written = 1 .. m
    BY <1>2
  <1>4. \A k \in 1 .. m : LengthAndLabel(written[k]) \in ByteSeq
    <2> SUFFICES ASSUME NEW k \in 1 .. m
                 PROVE  LengthAndLabel(written[k]) \in ByteSeq
      OBVIOUS
    <2>1. written[k] \in ByteSeq
      BY <1>2, <1>3
    <2> QED
      BY <2>1, LabelType
  <1>5. parts \in Seq(ByteSeq)
    <2>1. parts \in [1 .. m -> ByteSeq]
      BY <1>3, <1>4
    <2> QED
      BY <2>1, FunctionIsSeq
  <1> HIDE DEF parts
  <1>6. FlattenSeq(parts) \in ByteSeq
    BY <1>5, FlattenType DEF ByteSeq
  <1>7. << 0 >> \in ByteSeq
    <2>1. PICK a \in 0 .. 255 : a = 0
      OBVIOUS
    <2>2. << a >> \in ByteSeq
      BY FewBytes
    <2> QED
      BY <2>1, <2>2
  <1> QED
    BY <1>1, <1>6, <1>7, BytesConcat

\* The header has twelve bytes.
LEMMA HeaderType ==
    ASSUME NEW id \in Nat, NEW flags \in Nat, NEW qdcount \in Nat, NEW ancount \in Nat
    PROVE  Header(id, flags, qdcount, ancount) \in ByteSeq
  BY U16Type, BytesConcat DEF Header

\* A query is bytes.
LEMMA QueryType ==
    ASSUME NEW labels \in Seq(ByteSeq)
    PROVE  EncodeQuery(7, labels, 1) \in ByteSeq
  <1>1. Header(7, 256, 1, 0) \in ByteSeq
    BY HeaderType
  <1>2. U16(1) \in ByteSeq
    BY U16Type
  <1> QED
    BY <1>1, <1>2, EncodeNameType, BytesConcat DEF EncodeQuery

-----------------------------------------------------------------------------
\* The name of a record, in each form.
LEMMA PointerType ==
    ASSUME NEW offset \in Nat
    PROVE  Pointer(offset) \in ByteSeq
  <1>1. PICK high \in 0 .. 63 : high = (offset \div 256) % 64
    <2>1. PICK q \in Nat : q = offset \div 256
      OBVIOUS
    <2> QED
      BY <2>1
  <1>2. PICK a \in 0 .. 255 : a = 192 + high
    OBVIOUS
  <1>3. PICK b \in 0 .. 255 : b = offset % 256
    OBVIOUS
  <1>4. Pointer(offset) = << a, b >>
    BY <1>1, <1>2, <1>3, Zenon DEF Pointer
  <1>5. << a, b >> \in ByteSeq
    BY FewBytes
  <1> QED
    BY <1>4, <1>5, Zenon

\* So is the name of a record, however it is written.
LEMMA RecordNameType ==
    ASSUME hostname \in Seq(ByteSeq), NEW form \in Forms, NEW before \in Nat
    PROVE  RecordName(form, before) \in ByteSeq
  <1>1. EncodeName(hostname) \in ByteSeq
    BY EncodeNameType
  <1>2. Pointer(12) \in ByteSeq /\ Pointer(before) \in ByteSeq
    BY PointerType
  <1>3. <<1, 120>> \in ByteSeq
    <2>1. PICK a \in 0 .. 255 : a = 1
      OBVIOUS
    <2>2. PICK b \in 0 .. 255 : b = 120
      OBVIOUS
    <2>3. << a, b >> \in ByteSeq
      BY FewBytes
    <2> QED
      BY <2>1, <2>2, <2>3
  <1>4. <<1, 120>> \o Pointer(12) \in ByteSeq
    BY <1>2, <1>3, BytesConcat
  <1>5. CASE form = "full"
    BY <1>1, <1>5 DEF RecordName
  <1>6. CASE form = "pointer"
    BY <1>2, <1>6 DEF RecordName
  <1>7. CASE form = "chained"
    BY <1>2, <1>7 DEF RecordName
  <1>8. CASE form = "below"
    BY <1>4, <1>8 DEF RecordName
  <1> QED
    BY <1>5, <1>6, <1>7, <1>8 DEF Forms

\* What an answer is while it grows.
Growing == [bytes : ByteSeq, name : Nat]

\* The head of an answer is bytes, and names the question.
LEMMA ResponseHeadType ==
    ASSUME hostname \in Seq(ByteSeq), NEW count \in Nat
    PROVE  ResponseHead(count) \in Growing
  <1>1. Header(7, 33152, 1, count) \in ByteSeq
    BY HeaderType
  <1>2. U16(1) \in ByteSeq
    BY U16Type
  <1>3. Header(7, 33152, 1, count) \o EncodeName(hostname) \o U16(1) \o U16(1) \in ByteSeq
    BY <1>1, <1>2, EncodeNameType, BytesConcat
  <1> QED
    BY <1>3 DEF ResponseHead, Growing

\* A record more leaves it so.
LEMMA AddRecordType ==
    ASSUME hostname \in Seq(ByteSeq), NEW form \in Forms, NEW acc \in Growing,
           NEW r \in [type : Nat, rdata : ByteSeq]
    PROVE  AddRecord(acc, r, form) \in Growing
  <1>1. acc.bytes \in ByteSeq /\ acc.name \in Nat /\ r.rdata \in ByteSeq /\ r.type \in Nat
    BY DEF Growing
  <1>2. Len(r.rdata) \in Nat /\ Len(acc.bytes) \in Nat
    BY <1>1, ByteType
  <1>3. /\ RecordName(form, acc.name) \in ByteSeq
        /\ U16(r.type) \in ByteSeq /\ U16(1) \in ByteSeq /\ U16(0) \in ByteSeq
        /\ U16(60) \in ByteSeq /\ U16(Len(r.rdata)) \in ByteSeq
    BY <1>1, <1>2, RecordNameType, U16Type
  <1>4. acc.bytes \o RecordName(form, acc.name) \o U16(r.type) \o U16(1)
                \o U16(0) \o U16(60) \o U16(Len(r.rdata)) \o r.rdata \in ByteSeq
    BY <1>1, <1>3, BytesConcat
  <1> QED
    BY <1>2, <1>4 DEF AddRecord, Growing

\* The answer grows record by record.
Grows(f, m, records, form) ==
    /\ f \in [0 .. m -> Growing] /\ f[0] = ResponseHead(m)
    /\ \A i \in 1 .. m : f[i] = AddRecord(f[i - 1], records[i], form)

\* An answer is what its head has become with the last record.
LEMMA ResponseGrows ==
    ASSUME hostname \in Seq(ByteSeq), NEW form \in Forms, NEW records \in Records,
           NEW m, m = Len(records)
    PROVE  \E f : Grows(f, m, records, form) /\ Response(records, form) = f[m].bytes
  <1> DEFINE base == ResponseHead(m)
             Add(v, i) == AddRecord(v, records[i], form)
             V == Growing
             Body(h) == [s \in SUBSET DOMAIN records |->
                            IF s = {} THEN base
                            ELSE LET x == Max(s) IN Add(h[s \ {x}], x)]
             g == CHOOSE h : h = Body(h)
             F == [q \in V \X (1 .. m) |-> Add(q[1], q[2])]
  <1>1. Response(records, form) = g[DOMAIN records].bytes
    BY Zenon DEF Response, FoldLeft, MapThenFoldSet
  <1>2. DOMAIN records = 1 .. m /\ m \in Nat
    BY DEF Records
  <1>3. \A i \in 1 .. m : records[i] \in [type : Nat, rdata : ByteSeq]
    <2> DEFINE T == [type : Nat, rdata : ByteSeq]
    <2>1. records \in Seq(T)
      BY DEF Records
    <2> HIDE DEF T
    <2>2. \A i \in 1 .. m : records[i] \in T
      BY <1>2, <2>1
    <2> QED
      BY <2>2 DEF T
  <1>4. \A v \in V, i \in 1 .. m : Add(v, i) \in V
    BY <1>3, AddRecordType
  <1>5. base \in V
    BY <1>2, ResponseHeadType
  <1> HIDE DEF V, Add, base
  <1>6. F \in [V \X (1 .. m) -> V]
    BY <1>4
  <1>7. \A v \in V, i \in 1 .. m : F[<<v, i>>] = Add(v, i)
    OBVIOUS
  <1> HIDE DEF F
  <1>8. PICK h \in [SUBSET (1 .. m) -> V] : Folds(h, F, base, m)
    BY <1>2, <1>5, <1>6, FoldExists
  <1>9. h = Body(h)
    <2>1. ASSUME NEW s \in SUBSET (1 .. m)
          PROVE  h[s] = Body(h)[s]
      <3>1. CASE s = {}
        <4>1. Body(h)[s] = base
          BY <1>2, <3>1
        <4> QED
          BY <1>8, <3>1, <4>1, Zenon DEF Folds
      <3>2. CASE s # {}
        <4>1. Max(s) \in 1 .. m
          BY <1>2, <3>2, GreatestIn
        <4>2. h[s \ {Max(s)}] \in V
          OBVIOUS
        <4>3. h[s] = F[<<h[s \ {Max(s)}], Max(s)>>]
          BY <1>8, <3>2, Zenon DEF Folds
        <4>4. Body(h)[s] = Add(h[s \ {Max(s)}], Max(s))
          BY <1>2, <3>2, Zenon
        <4> HIDE DEF Body
        <4> QED
          BY <1>7, <4>1, <4>2, <4>3, <4>4, Zenon
      <3> QED
        BY <3>1, <3>2
    <2> QED
      BY <1>2, <2>1
  <1>10. g = Body(g)
    BY <1>9, Zenon
  <1> HIDE DEF g
  <1>11. \A s \in SUBSET (1 .. m) : g[s] =
            IF s = {} THEN base ELSE Add(g[s \ {Max(s)}], Max(s))
    BY <1>2, <1>10, Zenon
  <1> HIDE DEF Body
  <1>12. g[1 .. 0] = base
    <2>1. 1 .. 0 = {} /\ 1 .. 0 \in SUBSET (1 .. m)
      BY <1>2
    <2> QED
      BY <1>11, <2>1, Zenon
  <1>13. ASSUME NEW i \in 1 .. m
         PROVE  g[1 .. i] = Add(g[1 .. i - 1], i)
    <2>1. 1 .. i \in SUBSET (1 .. m) /\ 1 .. i # {} /\ i \in 1 .. i /\ i \in Nat
      <3>1. i \in Nat /\ i <= m
        BY <1>2
      <3>2. i \in 1 .. i
        BY <1>2
      <3>3. \A j \in 1 .. i : j \in 1 .. m
        BY <1>2, <3>1
      <3> QED
        BY <3>1, <3>2, <3>3, Zenon
    <2>2. Max(1 .. i) = i
      BY <2>1, GreatestUpto
    <2>3. (1 .. i) \ {i} = 1 .. i - 1
      BY <2>1
    <2> QED
      BY <1>11, <2>1, <2>2, <2>3, Zenon
  <1> DEFINE f == [i \in 0 .. m |-> g[1 .. i]]
  <1>14. \A i \in 1 .. m : f[i] = Add(f[i - 1], i)
    BY <1>2, <1>13
  <1>15. f[0] = base
    BY <1>2, <1>12
  <1>16. f[m].bytes = Response(records, form)
    BY <1>1, <1>2
  <1>17. f = [i \in 0 .. m |-> f[i]]
    OBVIOUS
  <1> HIDE DEF f
  <1>18. f \in [0 .. m -> V]
    <2> DEFINE P == {i \in Nat : i \in 0 .. m => f[i] \in V}
    <2>1. 0 \in P
      BY <1>5, <1>15
    <2>2. ASSUME NEW i \in Nat, i \in P
          PROVE  i + 1 \in P
      <3> SUFFICES ASSUME i + 1 \in 0 .. m
                   PROVE  f[i + 1] \in V
        OBVIOUS
      <3>1. i \in 0 .. m /\ i + 1 \in 1 .. m /\ (i + 1) - 1 = i
        BY <1>2
      <3> QED
        BY <1>4, <1>14, <2>2, <3>1
    <2> HIDE DEF P
    <2>3. Nat \subseteq P
      BY <2>1, <2>2, Inductive
    <2>4. \A i \in 0 .. m : f[i] \in V
      BY <2>3 DEF P
    <2> QED
      BY <1>17, <2>4
  <1>19. \A i \in 1 .. m : f[i] = AddRecord(f[i - 1], records[i], form)
    BY <1>14 DEF Add
  <1>20. Grows(f, m, records, form)
    BY <1>15, <1>18, <1>19, Zenon DEF Grows, V, base
  <1> QED
    BY <1>16, <1>20, Zenon

\* An answer is bytes.
LEMMA ResponseType ==
    ASSUME hostname \in Seq(ByteSeq), NEW form \in Forms, NEW records \in Records
    PROVE  Response(records, form) \in ByteSeq
  <1>1. PICK m \in Nat : m = Len(records)
    BY DEF Records
  <1>2. PICK f : Grows(f, m, records, form) /\ Response(records, form) = f[m].bytes
    BY <1>1, ResponseGrows
  <1>3. m \in 0 .. m
    OBVIOUS
  <1> QED
    BY <1>2, <1>3 DEF Grows, Growing

\* The addresses of the A records are bytes.
LEMMA ARecordsType ==
    ASSUME NEW records \in Records
    PROVE  ARecords(records) \in Seq(ByteSeq)
  <1> DEFINE T == [type : Nat, rdata : ByteSeq]
             parts == [k \in DOMAIN records |->
                        IF records[k].type = 1 /\ Len(records[k].rdata) = 4
                        THEN << records[k].rdata >> ELSE <<>>]
  <1>1. records \in Seq(T)
    BY DEF Records
  <1> HIDE DEF T
  <1>2. PICK m \in Nat : DOMAIN records = 1 .. m /\ \A k \in 1 .. m : records[k] \in T
    BY <1>1
  <1>3. \A k \in 1 .. m : records[k].rdata \in ByteSeq
    BY <1>2 DEF T
  <1>4. \A v \in ByteSeq : << v >> \in Seq(ByteSeq)
    <2> HIDE DEF ByteSeq
    <2> QED
      OBVIOUS
  <1>5. <<>> \in Seq(ByteSeq)
    OBVIOUS
  <1>6. parts \in [1 .. m -> Seq(ByteSeq)]
    BY <1>2, <1>3, <1>4, <1>5
  <1>7. parts \in Seq(Seq(ByteSeq))
    BY <1>6, FunctionIsSeq
  <1> HIDE DEF parts
  <1>8. FlattenSeq(parts) \in Seq(ByteSeq)
    BY <1>7, FlattenType
  <1> QED
    BY <1>8, Zenon DEF ARecords, parts

\* What the resolver's steps keep: types, and the one call at the end.
ResolverInv ==
    /\ ResolverTypeOK
    /\ hostname \in Hostnames
    /\ step # "none" => calls = <<>>
    /\ step = "none" => Len(calls) = 1

\* The handler is called once more, with something of its type.
CallMade == \E c \in [ok : BOOLEAN, addresses : Seq(ByteSeq)] : calls' = Append(calls, c)

\* A call more of the handler is one more call.
LEMMA FinishCalls ==
    ASSUME NEW ok \in BOOLEAN, NEW addresses \in Seq(ByteSeq), Finish(ok, addresses)
    PROVE  CallMade /\ step' = "none"
  BY DEF Finish, CallMade

\* The host names and the records of the server are bytes.
LEMMA GivenTypes ==
    ASSUME ResolverInv
    PROVE  /\ hostname \in Seq(ByteSeq)
           /\ RecordLists \subseteq Records
  <1>1. hostname \in Seq(ByteSeq)
    BY ResolverAssumption DEF ResolverInv, ByteSeq
  <1>2. ASSUME NEW list \in RecordLists
        PROVE  list \in Records
    <2> DEFINE S == [type : {1, 5, 28}, rdata : Seq(0 .. 255)]
               T == [type : Nat, rdata : Seq(0 .. 255)]
    <2>1. S \subseteq T
      OBVIOUS
    <2>2. list \in Seq(S)
      BY ResolverAssumption
    <2> HIDE DEF S, T
    <2>3. PICK m \in Nat : m = Len(list)
      BY <2>2
    <2>4. list \in [1 .. m -> T]
      BY <2>1, <2>2, <2>3
    <2>5. list \in Seq(T)
      BY <2>4, FunctionIsSeq
    <2> QED
      BY <2>5 DEF T, Records, ByteSeq
  <1> QED
    BY <1>1, <1>2

\* What a step does: it calls the handler and is the last, or calls nobody.
LEMMA StepCalls ==
    ASSUME ResolverInv, ResolverNext
    PROVE  /\ step # "none" /\ hostname' = hostname
           /\ \/ CallMade /\ step' = "none"
              \/ calls' = calls /\ step' # "none"
  <1>1. \A v \in ByteSeq : << v >> \in Seq(ByteSeq)
    <2> HIDE DEF ByteSeq
    <2> QED
      OBVIOUS
  <1>2. <<>> \in Seq(ByteSeq) /\ TRUE \in BOOLEAN /\ FALSE \in BOOLEAN
    OBVIOUS
  <1>3. ASSUME Finish(FALSE, <<>>)
        PROVE  CallMade /\ step' = "none"
    <2>1. PICK b \in BOOLEAN : b = FALSE
      OBVIOUS
    <2>2. Finish(b, <<>>)
      BY <1>3, <2>1
    <2> QED
      BY <1>2, <2>2, FinishCalls
  <1>4. ASSUME NEW addresses \in Seq(ByteSeq), Finish(TRUE, addresses)
        PROVE  CallMade /\ step' = "none"
    <2>1. PICK b \in BOOLEAN : b = TRUE
      OBVIOUS
    <2>2. Finish(b, addresses)
      BY <1>4, <2>1
    <2> QED
      BY <2>2, FinishCalls
  <1>5. HostsAddress \in ByteSeq /\ <<10, 0, 0, 1>> \in ByteSeq
    <2> DEFINE T == 0 .. 255
    <2>1. 127 \in T /\ 0 \in T /\ 1 \in T /\ 10 \in T
      OBVIOUS
    <2> HIDE DEF T
    <2>2. <<127, 0, 0, 1>> \in Seq(T) /\ <<10, 0, 0, 1>> \in Seq(T)
      BY <2>1
    <2> QED
      BY <2>2 DEF T, ByteSeq, HostsAddress
  <1>6. CASE Resolve
    BY <1>3, <1>6 DEF Resolve, given
  <1>7. CASE Posted
    <2>1. << HostsAddress >> \in Seq(ByteSeq)
      BY <1>1, <1>5
    <2> QED
      BY <1>4, <1>7, <2>1 DEF Posted, given
  <1>8. CASE SystemResolved
    <2>1. \A address \in {<<10, 0, 0, 1>>} : << address >> \in Seq(ByteSeq)
      BY <1>1, <1>5
    <2> QED
      BY <1>3, <1>4, <1>8, <2>1 DEF SystemResolved, given
  <1>9. CASE Sent
    BY <1>3, <1>9 DEF Sent, given
  <1>10. CASE Received
    <2>1. RecvBuffer \in ByteSeq
      <3>1. datagram \in ByteSeq
        BY DEF ResolverInv, ResolverTypeOK
      <3>2. CASE Len(datagram) > RecvSize
        <4> DEFINE T == 0 .. 255
        <4>1. datagram \in Seq(T) /\ RecvSize \in Nat
          BY <3>1, ResolverAssumption DEF ByteSeq
        <4> HIDE DEF T
        <4>2. RecvSize <= Len(datagram)
          BY <3>2, <4>1
        <4>3. SubSeq(datagram, 1, RecvSize) \in Seq(T)
          BY <4>1, <4>2, PrefixType
        <4> QED
          BY <3>2, <4>3 DEF RecvBuffer, T, ByteSeq
      <3>3. CASE ~(Len(datagram) > RecvSize)
        BY <3>1, <3>3 DEF RecvBuffer
      <3> QED
        BY <3>2, <3>3
    <2>2. PICK message \in Messages : Deliver(message)
      BY <1>10, <2>1, DecodeType DEF Received
    <2>3. ARecords(message.answers) \in Seq(ByteSeq)
      BY ARecordsType DEF Messages
    <2>4. CallMade /\ step' = "none"
      BY <1>3, <1>4, <2>2, <2>3 DEF Deliver
    <2> QED
      BY <1>10, <2>4 DEF Received, given
  <1>11. CASE ReceiveFails
    BY <1>3, <1>11 DEF ReceiveFails, given
  <1>12. CASE ServerAnswers
    BY <1>12 DEF ServerAnswers, given
  <1>13. CASE Alter
    BY <1>13 DEF Alter, given
  <1>14. CASE Lost
    BY <1>14 DEF Lost, given
  <1> QED
    BY <1>6, <1>7, <1>8, <1>9, <1>10, <1>11, <1>12, <1>13, <1>14
    DEF ResolverNext, Resolving

\* The steps keep the types.
LEMMA StepTypes ==
    ASSUME ResolverInv, ResolverNext
    PROVE  ResolverTypeOK'
  <1> DEFINE Call == [ok : BOOLEAN, addresses : Seq(ByteSeq)]
  <1>1. /\ calls \in Seq(Call) /\ query \in ByteSeq /\ datagram \in ByteSeq
        /\ step \in {"start", "posted", "system", "send", "receive", "none"}
        /\ network \in {"idle", "asked", "answered", "lost"}
        /\ answer \in [records : Records, form : Forms \cup {"none"}, altered : BOOLEAN]
    BY DEF ResolverInv, ResolverTypeOK, Records
  <1>2. calls' \in Seq(Call)
    <2>1. calls' = calls \/ \E c \in Call : calls' = Append(calls, c)
      BY StepCalls DEF CallMade
    <2> HIDE DEF Call
    <2> QED
      BY <1>1, <2>1
  <1> HIDE DEF Call
  <1>3. query' \in ByteSeq
    <2>1. EncodeQuery(7, hostname, 1) \in ByteSeq
      BY GivenTypes, QueryType
    <2> QED
      BY <1>1, <2>1 DEF ResolverNext, Resolving, Resolve, Posted, SystemResolved, Sent,
                        Received, ReceiveFails, ServerAnswers, Alter, Lost
  <1>4. datagram' \in ByteSeq
    <2>1. CASE ServerAnswers
      <3>1. PICK records \in RecordLists, form \in Forms :
                datagram' = Response(records, form)
        BY <2>1 DEF ServerAnswers
      <3> QED
        BY <3>1, GivenTypes, ResponseType
    <2>2. CASE Alter
      <3>1. PICK i \in 13 .. Len(datagram), b \in Bytes :
                datagram' = [datagram EXCEPT ![i] = b]
        BY <2>2 DEF Alter
      <3> DEFINE T == 0 .. 255
      <3>2. b \in T /\ datagram \in Seq(T)
        BY <1>1, ResolverAssumption DEF ByteSeq
      <3> HIDE DEF T
      <3>3. [datagram EXCEPT ![i] = b] \in Seq(T)
        BY <3>2
      <3> QED
        BY <3>1, <3>3 DEF T, ByteSeq
    <2>3. CASE datagram' = datagram
      BY <1>1, <2>3
    <2> QED
      BY <2>1, <2>2, <2>3 DEF ResolverNext, Resolving, Resolve, Posted, SystemResolved,
                              Sent, Received, ReceiveFails, Lost
  <1>5. answer' \in [records : Records, form : Forms \cup {"none"}, altered : BOOLEAN]
    <2>1. CASE ServerAnswers
      <3>1. PICK records \in RecordLists, form \in Forms :
                answer' = [records |-> records, form |-> form, altered |-> FALSE]
        BY <2>1 DEF ServerAnswers
      <3>2. records \in Records
        BY GivenTypes
      <3> QED
        BY <3>1, <3>2
    <2>2. CASE Alter
      <3>1. answer' = [answer EXCEPT !.altered = TRUE]
        BY <2>2 DEF Alter
      <3> QED
        BY <1>1, <3>1
    <2>3. CASE answer' = answer
      BY <1>1, <2>3
    <2> QED
      BY <2>1, <2>2, <2>3 DEF ResolverNext, Resolving, Resolve, Posted, SystemResolved,
                              Sent, Received, ReceiveFails, Lost
  <1>6. step' \in {"start", "posted", "system", "send", "receive", "none"}
    BY <1>1, StepCalls DEF ResolverNext, Resolving, Resolve, Posted, SystemResolved, Sent,
                Received, ReceiveFails, ServerAnswers, Alter, Lost, Deliver, Finish
  <1>7. network' \in {"idle", "asked", "answered", "lost"}
    BY <1>1 DEF ResolverNext, Resolving, Resolve, Posted, SystemResolved, Sent,
                Received, ReceiveFails, ServerAnswers, Alter, Lost
  <1> QED
    BY <1>2, <1>3, <1>4, <1>5, <1>6, <1>7 DEF ResolverTypeOK, Call, Records

\* A step of the resolver keeps the invariant.
LEMMA ResolverStep ==
    ASSUME ResolverInv, [ResolverNext]_resolverVars
    PROVE  ResolverInv'
  <1>1. CASE ResolverNext
    <2>1. ResolverTypeOK'
      BY <1>1, StepTypes
    <2>2. calls = <<>> /\ hostname \in Hostnames
      BY <1>1, StepCalls DEF ResolverInv
    <2>3. CallMade => Len(calls') = 1
      BY <2>2 DEF CallMade
    <2>4. hostname' = hostname /\ ((CallMade /\ step' = "none") \/ (calls' = calls /\ step' # "none"))
      BY <1>1, StepCalls
    <2> QED
      BY <2>1, <2>2, <2>3, <2>4 DEF ResolverInv
  <1>2. CASE UNCHANGED resolverVars
    BY <1>2 DEF resolverVars, given, ResolverInv, ResolverTypeOK
  <1> QED
    BY <1>1, <1>2

\* The resolver's invariant: types, and a handler that is called when nothing is
\* pending any more, and was not before.
THEOREM ResolverInvariance == ResolverSpec => []ResolverInv
  <1>1. ResolverInit => ResolverInv
    <2> SUFFICES ASSUME ResolverInit
                 PROVE  ResolverInv
      OBVIOUS
    <2>1. <<>> \in ByteSeq /\ <<>> \in Records
      BY DEF ByteSeq, Records
    <2>2. NoAnswer \in [records : Records, form : Forms \cup {"none"}, altered : BOOLEAN]
      BY <2>1 DEF NoAnswer
    <2> QED
      BY <2>1, <2>2 DEF ResolverInit, ResolverInv, ResolverTypeOK, Records
  <1>2. ResolverInv /\ [ResolverNext]_resolverVars => ResolverInv'
    BY ResolverStep
  <1> QED
    BY <1>1, <1>2, PTL DEF ResolverSpec

\* Type correctness of the resolver: for any names, records and altered bytes, what
\* is sent is bytes, and whatever bytes come back decode to names, types and bytes,
\* without a byte read that is not in the buffer.
THEOREM ResolverTypeCorrect == ResolverSpec => []ResolverTypeOK
  <1>1. ResolverInv => ResolverTypeOK
    BY DEF ResolverInv
  <1> QED
    BY <1>1, ResolverInvariance, PTL

\* The resolver implements Dial: its handler is called at most once, on every way
\* through resolve and whatever comes back.
THEOREM ResolverKeepsDial == ResolverSpec => IsDial
  <1>1. ResolverInit => AsDial!DialInit
    BY DEF ResolverInit, AsDial!DialInit, Outcome
  <1>2. ResolverInv /\ [ResolverNext]_resolverVars => [AsDial!DialNext]_Outcome
    <2> SUFFICES ASSUME ResolverInv, [ResolverNext]_resolverVars
                 PROVE  AsDial!DialNext \/ Outcome' = Outcome
      OBVIOUS
    <2>1. CASE calls' = calls
      BY <2>1 DEF Outcome
    <2>2. CASE calls' # calls
      <3>1. calls = <<>> /\ CallMade
        BY <2>2, StepCalls DEF ResolverInv, resolverVars
      <3>2. PICK c \in [ok : BOOLEAN, addresses : Seq(ByteSeq)] : calls' = << c >>
        BY <3>1 DEF CallMade
      <3>3. Outcome = "pending" /\ Outcome' \in {"connected", "failed"}
        BY <3>1, <3>2 DEF Outcome
      <3> QED
        BY <3>3 DEF AsDial!DialNext, AsDial!Succeed, AsDial!Refuse
    <2> QED
      BY <2>1, <2>2
  <1> QED
    BY <1>1, <1>2, ResolverInvariance, PTL DEF ResolverSpec, IsDial

\* What stands in a buffer from x on, as far as the buffer goes.
Stands(buffer, x, s) ==
    \A i \in 1 .. Len(s) : x + i <= Len(buffer) => buffer[x + i] = s[i]

\* Of two sequences together the second stands behind the first.
LEMMA StandsSplit ==
    ASSUME NEW buffer, NEW x \in Nat, NEW s \in ByteSeq, NEW t \in ByteSeq,
           Len(buffer) \in Nat, Stands(buffer, x, s \o t)
    PROVE  Stands(buffer, x, s) /\ Stands(buffer, x + Len(s), t)
  <1> DEFINE T == 0 .. 255
  <1>1. s \in Seq(T) /\ t \in Seq(T)
    BY DEF ByteSeq
  <1> HIDE DEF T
  <1>2. Len(s) \in Nat /\ Len(t) \in Nat /\ Len(s \o t) = Len(s) + Len(t)
    BY <1>1
  <1>3. \A i \in 1 .. Len(s) : (s \o t)[i] = s[i]
    BY <1>1, ConcatFirst
  <1>4. \A i \in 1 .. Len(t) : (s \o t)[Len(s) + i] = t[i]
    BY <1>1, ConcatSecond
  <1>5. ASSUME NEW i \in 1 .. Len(s), x + i <= Len(buffer)
        PROVE  buffer[x + i] = s[i]
    <2>1. i \in 1 .. Len(s \o t)
      BY <1>2
    <2> QED
      BY <1>3, <1>5, <2>1 DEF Stands
  <1>6. ASSUME NEW i \in 1 .. Len(t), (x + Len(s)) + i <= Len(buffer)
        PROVE  buffer[(x + Len(s)) + i] = t[i]
    <2>1. /\ Len(s) + i \in 1 .. Len(s \o t)
          /\ x + (Len(s) + i) = (x + Len(s)) + i
      BY <1>2
    <2>2. buffer[x + (Len(s) + i)] = (s \o t)[Len(s) + i]
      BY <1>6, <2>1 DEF Stands
    <2> QED
      BY <1>4, <2>1, <2>2
  <1> QED
    BY <1>5, <1>6 DEF Stands

\* Of two bytes.
LEMMA StandsTwo ==
    ASSUME NEW buffer, NEW x \in Nat, NEW a, NEW b, Len(buffer) \in Nat,
           Stands(buffer, x, << a, b >>)
    PROVE  /\ x + 1 <= Len(buffer) => ByteAt(buffer, x) = a
           /\ x + 2 <= Len(buffer) => ByteAt(buffer, x + 1) = b
  <1> DEFINE s == << a, b >>
  <1>1. Len(s) = 2 /\ s[1] = a /\ s[2] = b
    OBVIOUS
  <1>2. 1 \in 1 .. Len(s) /\ 2 \in 1 .. Len(s)
    BY <1>1
  <1> HIDE DEF s
  <1>3. Stands(buffer, x, s)
    BY DEF s
  <1>4. x + 1 <= Len(buffer) => buffer[x + 1] = a
    BY <1>1, <1>2, <1>3 DEF Stands
  <1>5. x + 2 <= Len(buffer) => buffer[x + 2] = b
    BY <1>1, <1>2, <1>3 DEF Stands
  <1>6. (x + 1) + 1 = x + 2
    OBVIOUS
  <1> QED
    BY <1>4, <1>5, <1>6 DEF ByteAt

\* Numbers that two bytes hold.
Word(n) == n \in Nat /\ n < 65536

\* The two parts of such a number make it up.
LEMMA WordParts ==
    ASSUME NEW n, Word(n)
    PROVE  256 * ((n \div 256) % 256) + (n % 256) = n
  <1>1. n \in Nat /\ n \div 256 \in 0 .. 255
    BY DEF Word
  <1>2. (n \div 256) % 256 = n \div 256
    BY <1>1
  <1>3. 256 * (n \div 256) + (n % 256) = n
    BY <1>1
  <1> QED
    BY <1>2, <1>3

\* A number written in two bytes is read from them.
LEMMA WordRead ==
    ASSUME NEW buffer, NEW x \in Nat, NEW n, Len(buffer) \in Nat, Word(n),
           Stands(buffer, x, U16(n)), x + 2 <= Len(buffer)
    PROVE  ReadU16(buffer, x) = n
  <1> DEFINE a == (n \div 256) % 256
             b == n % 256
  <1>1. 256 * a + b = n
    BY WordParts
  <1>2. U16(n) = << a, b >>
    BY DEF U16
  <1> HIDE DEF a, b
  <1>3. Stands(buffer, x, << a, b >>)
    BY <1>2
  <1>4. x + 1 <= Len(buffer)
    OBVIOUS
  <1>5. ByteAt(buffer, x) = a /\ ByteAt(buffer, x + 1) = b
    BY <1>3, <1>4, StandsTwo
  <1> QED
    BY <1>1, <1>5 DEF ReadU16

\* What stands there whole is the part of the buffer.
LEMMA SliceStands ==
    ASSUME NEW buffer \in ByteSeq, NEW x \in Nat, NEW s \in ByteSeq,
           Stands(buffer, x, s), x + Len(s) <= Len(buffer)
    PROVE  Slice(buffer, x, Len(s)) = s
  <1> DEFINE T == 0 .. 255
             b == x + Len(s)
             p == SubSeq(buffer, x + 1, b)
  <1>1. s \in Seq(T) /\ buffer \in Seq(T)
    BY DEF ByteSeq
  <1> HIDE DEF T
  <1>2. Len(s) \in Nat /\ Len(buffer) \in Nat
    BY <1>1
  <1>3. b \in Nat /\ x <= b /\ b <= Len(buffer) /\ b - x = Len(s)
    BY <1>2
  <1> HIDE DEF b
  <1>4. /\ p \in Seq(T) /\ Len(p) = b - x
        /\ \A i \in 1 .. b - x : p[i] = buffer[x + i]
    BY <1>1, <1>3, Between
  <1> HIDE DEF p
  <1>5. \A i \in 1 .. Len(s) : p[i] = s[i]
    <2> TAKE i \in 1 .. Len(s)
    <2>1. x + i <= Len(buffer)
      BY <1>2
    <2>2. buffer[x + i] = s[i]
      BY <2>1 DEF Stands
    <2> QED
      BY <1>3, <1>4, <2>2
  <1>6. p = s
    <2>1. Len(p) = Len(s)
      BY <1>3, <1>4
    <2> QED
      BY <1>1, <1>4, <1>5, <2>1, SeqEqual
  <1> QED
    BY <1>6 DEF Slice, p, b

\* A sequence stands in itself, and in what is left of it when it is cut.
LEMMA StandsCut ==
    ASSUME NEW s \in ByteSeq, NEW n \in 0 .. Len(s)
    PROVE  /\ Stands(s, 0, s) /\ Stands(SubSeq(s, 1, n), 0, s)
           /\ SubSeq(s, 1, n) \in ByteSeq /\ Len(SubSeq(s, 1, n)) = n
  <1> DEFINE T == 0 .. 255
             p == SubSeq(s, 1, n)
  <1>1. s \in Seq(T)
    BY DEF ByteSeq
  <1> HIDE DEF T
  <1>2. Len(s) \in Nat /\ n \in Nat /\ n <= Len(s)
    BY <1>1
  <1>3. p \in Seq(T) /\ Len(p) = n
    BY <1>1, <1>2, PrefixType
  <1>4. \A i \in 1 .. n : p[i] = s[i]
    BY <1>1, <1>2
  <1> HIDE DEF p
  <1>5. Stands(s, 0, s)
    <2>1. \A i \in 1 .. Len(s) : 0 + i = i
      BY <1>2
    <2> QED
      BY <2>1 DEF Stands
  <1>6. Stands(p, 0, s)
    <2>1. ASSUME NEW i \in 1 .. Len(s), 0 + i <= Len(p)
          PROVE  p[0 + i] = s[i]
      <3>1. 0 + i = i /\ i \in 1 .. n
        BY <1>2, <1>3, <2>1
      <3> QED
        BY <1>4, <3>1
    <2> QED
      BY <2>1 DEF Stands
  <1>7. p \in ByteSeq
    BY <1>3 DEF ByteSeq, T
  <1> QED
    BY <1>3, <1>5, <1>6, <1>7 DEF p

\* Labels that are encoded with their length, and can be told from numbers
\* greater than a buffer.
NiceLabel(label) == label \in Seq(NameBytes) /\ Len(label) \in 1 .. 63
NiceName(labels) ==
    labels \in Seq(ByteSeq) /\ \A k \in DOMAIN labels : NiceLabel(labels[k])

\* Such labels are bytes, and their length is written as it is.
LEMMA NiceLabelIs ==
    ASSUME NEW label, NiceLabel(label)
    PROVE  /\ label \in ByteSeq /\ Len(label) \in 1 .. 63
           /\ \A i \in 1 .. Len(label) : label[i] \in 45 .. 122
           /\ LengthAndLabel(label) = << Len(label) >> \o label
           /\ << Len(label) >> \in ByteSeq
           /\ Len(LengthAndLabel(label)) = 1 + Len(label)
  <1>1. PICK len \in 1 .. 63 : len = Len(label)
    BY DEF NiceLabel
  <1>2. NameBytes \subseteq 0 .. 255
    BY DEF NameBytes
  <1>3. label \in ByteSeq /\ \A i \in 1 .. Len(label) : label[i] \in NameBytes
    <2> DEFINE S == NameBytes
               T == 0 .. 255
    <2>1. S \subseteq T /\ label \in Seq(S)
      BY <1>2 DEF NiceLabel
    <2> HIDE DEF S, T
    <2>2. label \in Seq(T) /\ \A i \in 1 .. Len(label) : label[i] \in S
      BY <2>1
    <2> QED
      BY <2>2 DEF S, T, ByteSeq
  <1>4. len % 256 = len /\ len \in 0 .. 255
    OBVIOUS
  <1>5. LengthAndLabel(label) = << len >> \o label
    BY <1>1, <1>4, Zenon DEF LengthAndLabel
  <1>6. << len >> \in ByteSeq /\ Len(<< len >>) = 1
    BY <1>4, FewBytes
  <1>7. Len(<< len >> \o label) = 1 + len
    <2> DEFINE s == << len >>
               T == 0 .. 255
               t == label
    <2>1. s \in Seq(T) /\ t \in Seq(T) /\ Len(s) = 1
      BY <1>3, <1>6 DEF ByteSeq
    <2> HIDE DEF s, t, T
    <2>2. Len(s \o t) = Len(s) + Len(t)
      BY <2>1, ConcatProperties
    <2> QED
      BY <1>1, <2>1, <2>2 DEF s, t
  <1> QED
    BY <1>1, <1>3, <1>5, <1>6, <1>7 DEF NameBytes

\* The encoding of a name begins with its first label.
LEMMA EncodeCons ==
    ASSUME NEW labels, NiceName(labels), labels # <<>>
    PROVE  /\ EncodeName(labels) = LengthAndLabel(Head(labels)) \o EncodeName(Tail(labels))
           /\ NiceLabel(Head(labels)) /\ NiceName(Tail(labels))
           /\ Len(Tail(labels)) = Len(labels) - 1
  <1> DEFINE parts == [k \in DOMAIN labels |-> LengthAndLabel(labels[k])]
             rest  == Tail(labels)
             behind == [k \in DOMAIN rest |-> LengthAndLabel(rest[k])]
  <1>1. labels \in Seq(ByteSeq) /\ \A k \in DOMAIN labels : NiceLabel(labels[k])
    BY DEF NiceName
  <1>2. PICK m \in Nat : m = Len(labels) /\ DOMAIN labels = 1 .. m /\ m >= 1
    <2> HIDE DEF ByteSeq
    <2> QED
      BY <1>1
  <1>3. /\ rest \in Seq(ByteSeq) /\ Len(rest) = m - 1 /\ DOMAIN rest = 1 .. m - 1
        /\ \A k \in 1 .. m - 1 : rest[k] = labels[k + 1]
        /\ Head(labels) = labels[1] /\ 1 \in 1 .. m
    <2> HIDE DEF ByteSeq
    <2> QED
      BY <1>1, <1>2
  <1> HIDE DEF rest
  <1>4. \A k \in 1 .. m - 1 : k + 1 \in 1 .. m
    OBVIOUS
  <1>5. NiceName(rest) /\ NiceLabel(labels[1])
    BY <1>1, <1>2, <1>3, <1>4 DEF NiceName
  <1>6. \A k \in 1 .. m : LengthAndLabel(labels[k]) \in ByteSeq
    <2> SUFFICES ASSUME NEW k \in 1 .. m
                 PROVE  LengthAndLabel(labels[k]) \in ByteSeq
      OBVIOUS
    <2>1. labels[k] \in ByteSeq
      BY <1>1, <1>2
    <2> QED
      BY <2>1, LabelType
  <1>7. /\ parts \in Seq(ByteSeq) /\ Len(parts) = m
        /\ \A k \in 1 .. m : parts[k] = LengthAndLabel(labels[k])
    <2>1. parts \in [1 .. m -> ByteSeq]
      BY <1>2, <1>6
    <2> QED
      BY <1>2, <2>1, FunctionIsSeq
  <1>8. /\ behind \in Seq(ByteSeq) /\ Len(behind) = m - 1
        /\ \A k \in 1 .. m - 1 : behind[k] = LengthAndLabel(rest[k])
    <2>1. \A k \in 1 .. m - 1 : LengthAndLabel(rest[k]) \in ByteSeq
      BY <1>3, <1>4, <1>6
    <2>2. behind \in [1 .. m - 1 -> ByteSeq] /\ m - 1 \in Nat
      BY <1>2, <1>3, <2>1
    <2> QED
      BY <1>3, <2>2, FunctionIsSeq
  <1>9. EncodeName(labels) = FlattenSeq(parts) \o << 0 >>
    <2>1. Last(labels) # <<>>
      <3>1. m \in DOMAIN labels
        BY <1>2
      <3>2. Len(labels[m]) \in 1 .. 63
        BY <1>1, <3>1 DEF NiceLabel
      <3>3. labels[m] # <<>>
        <4>1. PICK n \in 1 .. 63 : n = Len(labels[m])
          BY <3>2
        <4>2. n # 0 /\ Len(<<>>) = 0
          OBVIOUS
        <4> QED
          BY <4>1, <4>2, Zenon
      <3> QED
        BY <1>2, <3>3 DEF Last
    <2> QED
      BY <2>1, Zenon DEF EncodeName
  <1>10. EncodeName(rest) = FlattenSeq(behind) \o << 0 >>
    <2>1. rest # <<>> => Last(rest) # <<>>
      <3> SUFFICES ASSUME rest # <<>>
                   PROVE  Last(rest) # <<>>
        OBVIOUS
      <3>1. m - 1 \in 1 .. m - 1
        <4> HIDE DEF ByteSeq
        <4>1. Len(rest) # 0
          BY <1>3
        <4> QED
          BY <1>2, <1>3, <4>1
      <3>2. Len(rest[m - 1]) \in 1 .. 63
        BY <1>3, <1>5, <3>1 DEF NiceName, NiceLabel
      <3>3. rest[m - 1] # <<>>
        <4>1. PICK n \in 1 .. 63 : n = Len(rest[m - 1])
          BY <3>2
        <4>2. n # 0 /\ Len(<<>>) = 0
          OBVIOUS
        <4> QED
          BY <4>1, <4>2, Zenon
      <3> QED
        BY <1>3, <3>3 DEF Last
    <2> QED
      BY <2>1, Zenon DEF EncodeName
  <1> HIDE DEF parts, behind
  <1>11. /\ parts # <<>> /\ Head(parts) = LengthAndLabel(labels[1])
         /\ Tail(parts) = behind
    <2> HIDE DEF ByteSeq
    <2>1. parts # <<>> /\ Head(parts) = parts[1]
      BY <1>2, <1>7
    <2>2. /\ Tail(parts) \in Seq(ByteSeq) /\ Len(Tail(parts)) = m - 1
          /\ \A k \in 1 .. m - 1 : Tail(parts)[k] = parts[k + 1]
      BY <1>7, <2>1
    <2>3. \A k \in 1 .. m - 1 : Tail(parts)[k] = behind[k]
      BY <1>3, <1>4, <1>7, <1>8, <2>2
    <2>4. Tail(parts) = behind
      BY <1>8, <2>2, <2>3, SeqEqual
    <2> QED
      BY <1>3, <1>7, <2>1, <2>4
  <1>12. FlattenSeq(parts) = LengthAndLabel(labels[1]) \o FlattenSeq(behind)
    <2>1. FlattenSeq(parts) = Head(parts) \o FlattenSeq(Tail(parts))
      BY <1>7, <1>11, FlattenCons DEF ByteSeq
    <2> QED
      BY <1>11, <2>1
  <1>13. EncodeName(labels) = LengthAndLabel(labels[1]) \o EncodeName(rest)
    <2> DEFINE T == 0 .. 255
               s == LengthAndLabel(labels[1])
               t == FlattenSeq(behind)
               u == << 0 >>
    <2>1. s \in Seq(T)
      BY <1>3, <1>6 DEF ByteSeq
    <2>2. t \in Seq(T)
      BY <1>8, FlattenType DEF ByteSeq
    <2>3. u \in Seq(T)
      OBVIOUS
    <2>4. EncodeName(labels) = Cat(Cat(s, t), u) /\ EncodeName(rest) = Cat(t, u)
      BY <1>9, <1>10, <1>12 DEF Cat
    <2> HIDE DEF T, s, t, u
    <2>5. Cat(Cat(s, t), u) = Cat(s, Cat(t, u))
      BY <2>1, <2>2, <2>3, Associative
    <2>6. EncodeName(labels) = Cat(s, EncodeName(rest))
      BY <2>4, <2>5
    <2> QED
      BY <2>6 DEF Cat, s
  <1> QED
    BY <1>2, <1>3, <1>5, <1>13 DEF rest

\* The encoding of no label is a zero.
LEMMA EncodeNone == EncodeName(<<>>) = << 0 >> /\ << 0 >> \in ByteSeq /\ Len(<< 0 >>) = 1
  <1> DEFINE parts == [k \in DOMAIN <<>> |-> LengthAndLabel(<<>>[k])]
  <1>1. EncodeName(<<>>) = FlattenSeq(parts) \o << 0 >>
    BY Zenon DEF EncodeName
  <1>2. parts = <<>>
    OBVIOUS
  <1> HIDE DEF parts
  <1>3. FlattenSeq(parts) = <<>>
    BY <1>2, FlattenEmpty
  <1>4. PICK a \in 0 .. 255 : a = 0
    OBVIOUS
  <1>5. << 0 >> \in ByteSeq /\ Len(<< 0 >>) = 1
    <2>1. << a >> \in ByteSeq /\ Len(<< a >>) = 1
      BY FewBytes
    <2> QED
      BY <1>4, <2>1
  <1>6. <<>> \o << 0 >> = << 0 >>
    OBVIOUS
  <1> QED
    BY <1>1, <1>3, <1>5, <1>6

\* A place from which no record can be read.
Dead(buffer, offset) ==
    \/ offset + 10 > Len(buffer)
    \/ offset + 10 + ReadU16(buffer, offset + 8) > Len(buffer)

\* The loop over a name ended where the buffer does.
CutOff(e, buffer) == e \in NameEnds /\ ~e.whole /\ Dead(buffer, e.offset)

\* Where it ends, at a zero or for want of bytes.
Ended(x)  == Stop(x, TRUE)
Broken(x) == Stop(x, FALSE)

\* What those ends are.
LEMMA StopIs ==
    ASSUME NEW x \in Nat
    PROVE  /\ Ended(x) \in NameEnds /\ Broken(x) \in NameEnds
           /\ Ended(x).name = <<>> /\ Ended(x).whole = TRUE
           /\ Ended(x).offset = x /\ Ended(x).jump_offset = 0
           /\ Broken(x).offset = x /\ Broken(x).whole = FALSE
  <1>1. <<>> \in Seq(ByteSeq)
    OBVIOUS
  <1>2. Ended(x) \in NameEnds /\ Broken(x) \in NameEnds
    BY <1>1 DEF Stop, NameEnds, Ended, Broken
  <1>3. /\ Ended(x).name = <<>> /\ Ended(x).whole = TRUE
        /\ Ended(x).offset = x /\ Ended(x).jump_offset = 0
        /\ Broken(x).offset = x /\ Broken(x).whole = FALSE
    BY Zenon DEF Stop, Ended, Broken
  <1> QED
    BY <1>2, <1>3

\* A name that breaks off at the end of the buffer is cut off.
LEMMA StopCut ==
    ASSUME NEW buffer, NEW x \in Nat, Len(buffer) \in Nat, x + 10 > Len(buffer)
    PROVE  CutOff(Broken(x), buffer)
  BY StopIs DEF CutOff, Dead

\* At the zero a name ends.
LEMMA NameStepEnd ==
    ASSUME NEW buffer \in ByteSeq, NEW rest, NEW x \in Nat, Stands(buffer, x, << 0 >>)
    PROVE  /\ x + 1 <= Len(buffer) => NameStep(buffer, rest, x) = Ended(x + 1)
           /\ x + 1 > Len(buffer) => CutOff(NameStep(buffer, rest, x), buffer)
  <1>1. PICK size \in Nat : size = Len(buffer)
    BY ByteType
  <1>2. CASE x >= size
    <2>1. NameStep(buffer, rest, x) = Broken(x)
      BY <1>1, <1>2, Zenon DEF NameStep, Broken, Ended
    <2>2. CutOff(Broken(x), buffer)
      BY <1>1, <1>2, StopCut
    <2> QED
      BY <1>1, <1>2, <2>1, <2>2
  <1>3. CASE x < size
    <2>1. PICK len \in 0 .. 255 : len = ByteAt(buffer, x)
      BY <1>1, <1>3, ByteType
    <2>2. len = 0
      <3> DEFINE s == << 0 >>
      <3>1. Len(s) = 1 /\ s[1] = 0 /\ 1 \in 1 .. 1
        OBVIOUS
      <3> HIDE DEF s
      <3>2. Stands(buffer, x, s)
        BY DEF s
      <3>3. buffer[x + 1] = 0
        BY <1>1, <1>3, <3>1, <3>2 DEF Stands
      <3> QED
        BY <2>1, <3>3 DEF ByteAt
    <2>3. ~(x >= size) /\ ~(len >= 192)
      BY <1>3, <2>2
    <2>4. NameStep(buffer, rest, x) = Ended(x + 1)
      BY <1>1, <2>1, <2>2, <2>3, Zenon DEF NameStep, Broken, Ended
    <2> QED
      BY <1>1, <1>3, <2>4
  <1> QED
    BY <1>2, <1>3

\* A label is put before what follows it.
LabelTaken(e, r, label) ==
    /\ e \in NameEnds /\ e.name = << label >> \o r.name
    /\ e.offset = r.offset /\ e.jump_offset = r.jump_offset /\ e.whole = r.whole

\* What is read of a label as if it were a record is longer than the buffer.
LEMMA LabelIsDead ==
    ASSUME NEW buffer \in ByteSeq, NEW x \in Nat, NEW label, NiceLabel(label),
           Stands(buffer, x, label), Len(buffer) <= 512, x + Len(label) > Len(buffer)
    PROVE  Dead(buffer, x)
  <1>1. PICK size \in Nat : size = Len(buffer)
    BY ByteType
  <1>2. PICK len \in 1 .. 63 : len = Len(label)
    BY NiceLabelIs
  <1>3. CASE x + 10 > size
    BY <1>1, <1>3 DEF Dead
  <1>4. CASE x + 10 <= size
    <2>1. 9 \in 1 .. len /\ 10 \in 1 .. len /\ x + 9 <= size
      BY <1>1, <1>2, <1>4
    <2>2. buffer[x + 9] = label[9] /\ buffer[x + 10] = label[10]
      BY <1>1, <1>2, <1>4, <2>1 DEF Stands
    <2>3. PICK a \in 45 .. 122, b \in 45 .. 122 : a = label[9] /\ b = label[10]
      BY <1>2, <2>1, NiceLabelIs
    <2>4. /\ ByteAt(buffer, x + 8) = a /\ ByteAt(buffer, x + 8 + 1) = b
      <3>1. x + 8 + 1 = x + 9 /\ x + 8 + 1 + 1 = x + 10
        OBVIOUS
      <3> QED
        BY <2>2, <2>3, <3>1 DEF ByteAt
    <2>5. ReadU16(buffer, x + 8) = 256 * a + b
      BY <2>4 DEF ReadU16
    <2>6. x + 10 + (256 * a + b) > 512
      OBVIOUS
    <2>7. x + 10 + (256 * a + b) > size
      BY <1>1, <2>6
    <2> QED
      BY <1>1, <2>5, <2>7 DEF Dead
  <1> QED
    BY <1>3, <1>4

\* A turn of the loop over a name, at a label.
LEMMA NameStepLabel ==
    ASSUME NEW buffer \in ByteSeq, NEW rest \in [Nat -> NameEnds], NEW x \in Nat,
           NEW label, NiceLabel(label), Stands(buffer, x, LengthAndLabel(label))
    PROVE  /\ x + 1 + Len(label) <= Len(buffer) =>
                LabelTaken(NameStep(buffer, rest, x), rest[x + 1 + Len(label)], label)
           /\ Len(buffer) <= 512 /\ x + 1 + Len(label) > Len(buffer) =>
                CutOff(NameStep(buffer, rest, x), buffer)
  <1>1. PICK size \in Nat : size = Len(buffer)
    BY ByteType
  <1>2. PICK len \in 1 .. 63 : len = Len(label)
    BY NiceLabelIs
  <1>3. Stands(buffer, x, << len >>) /\ Stands(buffer, x + 1, label)
    <2>1. /\ LengthAndLabel(label) = << len >> \o label
          /\ << len >> \in ByteSeq /\ label \in ByteSeq
      BY <1>2, NiceLabelIs
    <2>2. Stands(buffer, x, << len >> \o label)
      BY <2>1
    <2>3. /\ Stands(buffer, x, << len >>)
          /\ Stands(buffer, x + Len(<< len >>), label)
      BY <1>1, <2>1, <2>2, StandsSplit
    <2>4. Len(<< len >>) = 1
      OBVIOUS
    <2> QED
      BY <2>3, <2>4
  <1>4. CASE x >= size
    <2>1. NameStep(buffer, rest, x) = Broken(x)
      BY <1>1, <1>4, Zenon DEF NameStep, Broken, Ended
    <2>2. CutOff(Broken(x), buffer)
      BY <1>1, <1>4, StopCut
    <2> QED
      BY <1>1, <1>2, <1>4, <2>1, <2>2
  <1>5. CASE x < size
    <2>1. ByteAt(buffer, x) = len
      <3> DEFINE s == << len >>
      <3>1. Len(s) = 1 /\ s[1] = len /\ 1 \in 1 .. 1
        OBVIOUS
      <3> HIDE DEF s
      <3>2. Stands(buffer, x, s)
        BY <1>3 DEF s
      <3>3. buffer[x + 1] = len
        BY <1>1, <1>5, <3>1, <3>2 DEF Stands
      <3> QED
        BY <3>3 DEF ByteAt
    <2>2. ~(x >= size) /\ ~(len >= 192) /\ len # 0
      BY <1>5
    <2>3. ASSUME size <= 512, x + 1 + len > size
          PROVE  CutOff(NameStep(buffer, rest, x), buffer)
      <3>1. NameStep(buffer, rest, x) = Broken(x + 1)
        BY <1>1, <2>1, <2>2, <2>3, Zenon DEF NameStep, Broken, Ended
      <3>2. PICK y \in Nat : y = x + 1
        OBVIOUS
      <3>3. Dead(buffer, y)
        <4>1. /\ Stands(buffer, y, label) /\ y + Len(label) > Len(buffer)
              /\ Len(buffer) <= 512
          BY <1>1, <1>2, <1>3, <2>3, <3>2
        <4> QED
          BY <4>1, LabelIsDead
      <3>4. Broken(y) \in NameEnds
        BY StopIs
      <3>5. Broken(y).offset = y /\ Broken(y).whole = FALSE
        BY StopIs
      <3>6. CutOff(Broken(y), buffer)
        BY <3>3, <3>4, <3>5 DEF CutOff
      <3> QED
        BY <3>1, <3>2, <3>6
    <2>4. ASSUME x + 1 + len <= size
          PROVE  LabelTaken(NameStep(buffer, rest, x), rest[x + 1 + len], label)
      <3>1. ~(x + 1 + len > size)
        BY <2>4
      <3>2. NameStep(buffer, rest, x) =
                [rest[x + 1 + len] EXCEPT !.name = << Slice(buffer, x + 1, len) >> \o @]
        BY <1>1, <2>1, <2>2, <3>1, Zenon DEF NameStep, Broken, Ended
      <3>3. Slice(buffer, x + 1, len) = label
        <4>1. PICK y \in Nat : y = x + 1
          OBVIOUS
        <4>2. label \in ByteSeq
          BY NiceLabelIs
        <4>3. Stands(buffer, y, label) /\ y + Len(label) <= Len(buffer)
          BY <1>1, <1>2, <1>3, <2>4, <4>1
        <4>4. Slice(buffer, y, Len(label)) = label
          BY <4>2, <4>3, SliceStands
        <4> QED
          BY <1>2, <4>1, <4>4
      <3>4. PICK r \in NameEnds : r = rest[x + 1 + len]
        OBVIOUS
      <3>5. NameStep(buffer, rest, x) = [r EXCEPT !.name = << label >> \o @]
        BY <3>2, <3>3, <3>4, Zenon
      <3>6. << label >> \o r.name \in Seq(ByteSeq)
        <4>1. r.name \in Seq(ByteSeq) /\ label \in ByteSeq
          BY NiceLabelIs DEF NameEnds
        <4> HIDE DEF ByteSeq
        <4> QED
          BY <4>1
      <3>7. LabelTaken([r EXCEPT !.name = << label >> \o @], r, label)
        BY <3>6 DEF LabelTaken, NameEnds
      <3> QED
        BY <3>4, <3>5, <3>7
    <2> QED
      BY <1>1, <1>2, <2>3, <2>4
  <1> QED
    BY <1>4, <1>5

\* The bytes of a pointer: the lower bits of the first one are the offset's higher ones.
LEMMA PointerBytes ==
    ASSUME NEW to \in 0 .. 511
    PROVE  \E len \in 0 .. 255, low \in 0 .. 255 :
                /\ Pointer(to) = << len, low >> /\ len >= 192
                /\ (len % 64) * 256 + low = to
  <1>1. PICK high \in 0 .. 1, low \in 0 .. 255 : high = to \div 256 /\ low = to % 256
    <2>1. PICK high \in 0 .. 1 : high = to \div 256
      OBVIOUS
    <2>2. PICK low \in 0 .. 255 : low = to % 256
      OBVIOUS
    <2> QED
      BY <2>1, <2>2, Zenon
  <1>2. PICK len \in 0 .. 255 : len = 192 + high
    OBVIOUS
  <1>3. high * 256 + low = to
    BY <1>1
  <1>4. high % 64 = high /\ len % 64 = high
    <2>1. CASE high = 0
      BY <1>2, <2>1
    <2>2. CASE high = 1
      BY <1>2, <2>2
    <2>3. high = 0 \/ high = 1
      OBVIOUS
    <2> QED
      BY <2>1, <2>2, <2>3, Zenon
  <1>5. Pointer(to) = << len, low >>
    <2>1. Pointer(to) = << 192 + (high % 64), low >>
      BY <1>1, Zenon DEF Pointer
    <2>2. Pointer(to) = << 192 + high, low >>
      BY <1>4, <2>1, Zenon
    <2> QED
      BY <1>2, <2>2, Zenon
  <1>6. len >= 192
    BY <1>2
  <1>7. (len % 64) * 256 + low = to
    BY <1>3, <1>4, Zenon
  <1> QED
    BY <1>5, <1>6, <1>7, Zenon

\* A turn at a pointer goes on where it leads.
LEMMA NameStepPointer ==
    ASSUME NEW buffer \in ByteSeq, NEW rest \in [Nat -> NameEnds], NEW x \in Nat,
           NEW to \in 0 .. 511, Stands(buffer, x, Pointer(to))
    PROVE  /\ x + 2 <= Len(buffer) =>
                NameStep(buffer, rest, x) = [rest[to] EXCEPT !.jump_offset = x + 2]
           /\ x + 2 > Len(buffer) => CutOff(NameStep(buffer, rest, x), buffer)
  <1>1. PICK size \in Nat : size = Len(buffer)
    BY ByteType
  <1>2. PICK len \in 0 .. 255, low \in 0 .. 255 :
            /\ Pointer(to) = << len, low >> /\ len >= 192
            /\ (len % 64) * 256 + low = to
    BY PointerBytes
  <1>3. Stands(buffer, x, << len, low >>)
    BY <1>2, Zenon
  <1>4. CASE x >= size
    <2>1. NameStep(buffer, rest, x) = Broken(x)
      BY <1>1, <1>4, Zenon DEF NameStep, Broken, Ended
    <2>2. CutOff(Broken(x), buffer)
      BY <1>1, <1>4, StopCut
    <2> QED
      BY <1>1, <1>4, <2>1, <2>2
  <1>5. CASE x < size
    <2>1. ByteAt(buffer, x) = len
      BY <1>1, <1>3, <1>5, StandsTwo
    <2>2. ~(x >= size)
      BY <1>5
    <2>3. CASE x + 1 >= size
      <3>1. NameStep(buffer, rest, x) = Broken(x)
        BY <1>1, <1>2, <2>1, <2>2, <2>3, Zenon DEF NameStep, Broken, Ended
      <3>2. CutOff(Broken(x), buffer)
        BY <1>1, <2>3, StopCut
      <3> QED
        BY <1>1, <2>3, <3>1, <3>2
    <2>4. CASE x + 1 < size
      <3>1. ~(x + 1 >= size)
        BY <2>4
      <3>2. ByteAt(buffer, x + 1) = low
        <4>1. x + 2 <= Len(buffer)
          BY <1>1, <2>4
        <4>2. Len(buffer) \in Nat
          BY <1>1
        <4> QED
          BY <1>3, <4>1, <4>2, StandsTwo, Zenon
      <3>3. NameStep(buffer, rest, x) =
                [rest[(len % 64) * 256 + low] EXCEPT !.jump_offset = x + 2]
        BY <1>1, <1>2, <2>1, <2>2, <3>1, <3>2, Zenon DEF NameStep, Broken, Ended
      <3>4. (len % 64) * 256 + low = to
        BY <1>2
      <3>5. NameStep(buffer, rest, x) = [rest[to] EXCEPT !.jump_offset = x + 2]
        BY <3>3, <3>4, Zenon
      <3>6. ~(x + 2 > Len(buffer))
        BY <1>1, <2>4
      <3> QED
        BY <3>5, <3>6, Zenon
    <2> QED
      BY <2>3, <2>4
  <1> QED
    BY <1>4, <1>5

\* The loop over a name ended behind it, with its labels.
WholeAt(e, labels, y) ==
    /\ e \in NameEnds /\ e.whole = TRUE /\ e.name = labels
    /\ e.offset = y /\ e.jump_offset = 0

\* What the loop, with s turns left, finds of an encoded name.
NameFound(g, buffer, labels, x, s) ==
    /\ x + Len(EncodeName(labels)) <= Len(buffer) =>
            WholeAt(g[s][x], labels, x + Len(EncodeName(labels)))
    /\ Len(buffer) <= 512 /\ x + Len(EncodeName(labels)) > Len(buffer) =>
            CutOff(g[s][x], buffer)

\* A turn of the loop, and the one after it.
LEMMA LoopTurn ==
    ASSUME NEW buffer \in ByteSeq, NEW g, NameLoop(g, buffer), NEW s \in 1 .. MaxSteps,
           NEW x \in Nat
    PROVE  /\ g[s][x] = NameStep(buffer, g[s - 1], x)
           /\ g[s - 1] \in [Nat -> NameEnds] /\ s \in Nat /\ s - 1 \in Nat
  <1>1. MaxSteps \in Nat
    BY DEF MaxSteps
  <1>2. s - 1 \in 0 .. MaxSteps /\ s \in Nat /\ s - 1 \in Nat
    BY <1>1
  <1>3. g \in [0 .. MaxSteps -> [Nat -> NameEnds]]
    BY DEF NameLoop
  <1>4. g[s - 1] \in [Nat -> NameEnds]
    BY <1>2, <1>3
  <1>5. g[s][x] = NameStep(buffer, g[s - 1], x)
    BY DEF NameLoop
  <1> QED
    BY <1>2, <1>4, <1>5

\* The name of no label.
LEMMA NoneFound ==
    ASSUME NEW buffer \in ByteSeq, NEW g, NameLoop(g, buffer), NEW s \in 1 .. MaxSteps,
           NEW x \in Nat, Stands(buffer, x, EncodeName(<<>>))
    PROVE  NameFound(g, buffer, <<>>, x, s)
  <1>1. PICK size \in Nat : size = Len(buffer)
    BY ByteType
  <1>2. EncodeName(<<>>) = << 0 >> /\ Len(<< 0 >>) = 1
    BY EncodeNone
  <1>3. g[s][x] = NameStep(buffer, g[s - 1], x)
    BY LoopTurn
  <1>4. Stands(buffer, x, << 0 >>)
    BY <1>2
  <1>5. PICK y \in Nat : y = x + 1
    OBVIOUS
  <1>6. /\ y <= size => NameStep(buffer, g[s - 1], x) = Ended(y)
        /\ y > size => CutOff(NameStep(buffer, g[s - 1], x), buffer)
    BY <1>1, <1>4, <1>5, NameStepEnd
  <1>7. WholeAt(Ended(y), <<>>, y)
    BY StopIs DEF WholeAt
  <1>8. /\ y <= size => WholeAt(g[s][x], <<>>, y)
        /\ y > size => CutOff(g[s][x], buffer)
    BY <1>3, <1>6, <1>7
  <1>9. Len(EncodeName(<<>>)) = 1
    BY <1>2
  <1> QED
    BY <1>1, <1>5, <1>8, <1>9 DEF NameFound

\* A label more, before a name that is found.
LEMMA MoreFound ==
    ASSUME NEW buffer \in ByteSeq, NEW g, NameLoop(g, buffer), NEW s \in 1 .. MaxSteps,
           NEW x \in Nat, NEW labels, NiceName(labels), labels # <<>>,
           Stands(buffer, x, EncodeName(labels)),
           LET y == x + 1 + Len(Head(labels))
           IN  Stands(buffer, y, EncodeName(Tail(labels))) =>
                    NameFound(g, buffer, Tail(labels), y, s - 1)
    PROVE  NameFound(g, buffer, labels, x, s)
  <1> DEFINE h == Head(labels)
             t == Tail(labels)
             e == g[s][x]
  <1>1. PICK size \in Nat : size = Len(buffer)
    BY ByteType
  <1>2. /\ EncodeName(labels) = LengthAndLabel(h) \o EncodeName(t)
        /\ NiceLabel(h) /\ NiceName(t)
    BY EncodeCons
  <1>3. labels = << h >> \o t
    <2>1. labels \in Seq(ByteSeq)
      BY DEF NiceName
    <2> HIDE DEF ByteSeq
    <2> QED
      BY <2>1, HeadTailProperties
  <1> HIDE DEF h, t
  <1>4. PICK len \in 1 .. 63 : len = Len(h)
    BY <1>2, NiceLabelIs
  <1>5. PICK y \in Nat : y = x + 1 + len
    OBVIOUS
  <1>6. /\ LengthAndLabel(h) \in ByteSeq /\ Len(LengthAndLabel(h)) = 1 + len
        /\ EncodeName(t) \in ByteSeq
    <2>1. h \in ByteSeq /\ t \in Seq(ByteSeq)
      BY <1>2, NiceLabelIs DEF NiceName
    <2> QED
      BY <1>2, <1>4, <2>1, NiceLabelIs, LabelType, EncodeNameType
  <1>7. PICK behind \in Nat : behind = Len(EncodeName(t))
    BY <1>6, ByteType
  <1>8. Len(EncodeName(labels)) = 1 + len + behind
    BY <1>2, <1>6, <1>7, ConcatProperties DEF ByteSeq
  <1>9. Stands(buffer, x, LengthAndLabel(h)) /\ Stands(buffer, y, EncodeName(t))
    <2>1. Stands(buffer, x, LengthAndLabel(h) \o EncodeName(t))
      BY <1>2
    <2>2. x + Len(LengthAndLabel(h)) = y
      BY <1>5, <1>6
    <2>3. /\ Stands(buffer, x, LengthAndLabel(h))
          /\ Stands(buffer, x + Len(LengthAndLabel(h)), EncodeName(t))
      BY <1>1, <1>6, <2>1, StandsSplit
    <2> QED
      BY <2>2, <2>3
  <1>10. NameFound(g, buffer, t, y, s - 1)
    BY <1>4, <1>5, <1>9 DEF h, t
  <1>11. PICK rest \in [Nat -> NameEnds] : rest = g[s - 1]
    BY LoopTurn
  <1>12. e = NameStep(buffer, rest, x)
    BY <1>11, LoopTurn
  <1>13. PICK r \in NameEnds : r = rest[y]
    OBVIOUS
  <1>14. /\ y <= size => LabelTaken(e, r, h)
         /\ size <= 512 /\ y > size => CutOff(e, buffer)
    <2>1. x + 1 + Len(h) = y
      BY <1>4, <1>5
    <2>2. Stands(buffer, x, LengthAndLabel(h))
      BY <1>9
    <2> HIDE DEF e
    <2> QED
      BY <1>1, <1>2, <1>12, <1>13, <2>1, <2>2, NameStepLabel
  <1>15. /\ y + behind <= size => WholeAt(r, t, y + behind)
         /\ size <= 512 /\ y + behind > size => CutOff(r, buffer)
    BY <1>1, <1>7, <1>10, <1>11, <1>13 DEF NameFound
  <1> HIDE DEF e
  <1>16. ASSUME y + behind <= size
         PROVE  WholeAt(e, labels, y + behind)
    <2>1. y <= size
      BY <1>16
    <2>2. LabelTaken(e, r, h) /\ WholeAt(r, t, y + behind)
      BY <1>14, <1>15, <1>16, <2>1
    <2> QED
      BY <1>3, <2>2 DEF LabelTaken, WholeAt
  <1>17. ASSUME size <= 512, y + behind > size
         PROVE  CutOff(e, buffer)
    <2>1. CASE y <= size
      <3>1. LabelTaken(e, r, h) /\ CutOff(r, buffer)
        BY <1>14, <1>15, <1>17, <2>1
      <3> QED
        BY <3>1 DEF LabelTaken, CutOff
    <2>2. CASE y > size
      BY <1>14, <1>17, <2>2
    <2> QED
      BY <2>1, <2>2
  <1>18. x + Len(EncodeName(labels)) = y + behind
    BY <1>5, <1>8
  <1> QED
    BY <1>1, <1>16, <1>17, <1>18 DEF NameFound, e

\* The loop finds any name it has turns for: whole, or cut off with the buffer.
LEMMA NameIsFound ==
    ASSUME NEW buffer \in ByteSeq, NEW g, NameLoop(g, buffer),
           NEW labels, NiceName(labels), NEW x \in Nat,
           NEW s \in Len(labels) + 1 .. MaxSteps, Stands(buffer, x, EncodeName(labels))
    PROVE  NameFound(g, buffer, labels, x, s)
  <1> DEFINE Found(n) ==
                \A w : NiceName(w) /\ Len(w) = n =>
                    \A y \in Nat : \A k \in n + 1 .. MaxSteps :
                        Stands(buffer, y, EncodeName(w)) => NameFound(g, buffer, w, y, k)
             P == {n \in Nat : Found(n)}
  <1>1. MaxSteps \in Nat
    BY DEF MaxSteps
  <1>2. Found(0)
    <2> SUFFICES ASSUME NEW w, NiceName(w), Len(w) = 0, NEW y \in Nat,
                        NEW k \in 0 + 1 .. MaxSteps, Stands(buffer, y, EncodeName(w))
                 PROVE  NameFound(g, buffer, w, y, k)
      OBVIOUS
    <2>1. w = <<>>
      <3>1. w \in Seq(ByteSeq)
        BY DEF NiceName
      <3> HIDE DEF ByteSeq
      <3> QED
        BY <3>1
    <2>2. k \in 1 .. MaxSteps
      OBVIOUS
    <2>3. Stands(buffer, y, EncodeName(<<>>))
      BY <2>1
    <2>4. NameFound(g, buffer, <<>>, y, k)
      BY <2>2, <2>3, NoneFound
    <2> QED
      BY <2>1, <2>4
  <1>3. ASSUME NEW n \in Nat, Found(n)
        PROVE  Found(n + 1)
    <2> SUFFICES ASSUME NEW w, NiceName(w), Len(w) = n + 1, NEW y \in Nat,
                        NEW k \in (n + 1) + 1 .. MaxSteps, Stands(buffer, y, EncodeName(w))
                 PROVE  NameFound(g, buffer, w, y, k)
      BY Zenon
    <2>1. w # <<>>
      <3>1. Len(<<>>) = 0 /\ n + 1 # 0
        OBVIOUS
      <3> QED
        BY <3>1, Zenon
    <2>2. /\ NiceName(Tail(w)) /\ NiceLabel(Head(w)) /\ Len(Tail(w)) = Len(w) - 1
      BY <2>1, EncodeCons
    <2>3. Len(Tail(w)) = n
      BY <2>2
    <2>4. k \in 1 .. MaxSteps /\ k - 1 \in n + 1 .. MaxSteps
      BY <1>1
    <2>5. PICK z \in Nat : z = y + 1 + Len(Head(w))
      <3>1. PICK len \in 1 .. 63 : len = Len(Head(w))
        BY <2>2, NiceLabelIs
      <3>2. y + 1 + len \in Nat
        OBVIOUS
      <3>3. y + 1 + Len(Head(w)) \in Nat
        BY <3>1, <3>2, Zenon
      <3> QED
        BY <3>3, Zenon
    <2>6. Stands(buffer, z, EncodeName(Tail(w))) => NameFound(g, buffer, Tail(w), z, k - 1)
      BY <1>3, <2>2, <2>3, <2>4, Zenon
    <2> HIDE DEF Found, P
    <2> QED
      BY <2>1, <2>4, <2>5, <2>6, MoreFound
  <1> HIDE DEF Found
  <1>4. 0 \in P /\ \A n \in Nat : n \in P => n + 1 \in P
    BY <1>2, <1>3
  <1> HIDE DEF P
  <1>5. Nat \subseteq P
    BY <1>4, Inductive
  <1>6. PICK n \in Nat : n = Len(labels)
    <2>1. labels \in Seq(ByteSeq)
      BY DEF NiceName
    <2> HIDE DEF ByteSeq
    <2> QED
      BY <2>1
  <1>7. Found(n)
    BY <1>5 DEF P
  <1> QED
    BY <1>6, <1>7, Zenon DEF Found

\* Two sequences of bytes together are bytes, as many as both.
LEMMA BytesJoin ==
    ASSUME NEW s \in ByteSeq, NEW t \in ByteSeq
    PROVE  s \o t \in ByteSeq /\ Len(s \o t) = Len(s) + Len(t)
  <1> DEFINE T == 0 .. 255
  <1>1. s \in Seq(T) /\ t \in Seq(T)
    BY DEF ByteSeq
  <1> HIDE DEF T
  <1>2. Len(s \o t) = Len(s) + Len(t)
    BY <1>1, ConcatProperties
  <1>3. s \o t \in ByteSeq
    BY BytesConcat
  <1> QED
    BY <1>2, <1>3

\* A message with one question begins with so many bytes.
Opening(labels, flags, count) ==
    Header(7, flags, 1, count) \o EncodeName(labels) \o U16(1) \o U16(1)

\* The counts of a header are read where they stand.
LEMMA HeaderRead ==
    ASSUME NEW buffer \in ByteSeq, NEW flags \in Nat, NEW count, Word(count),
           Stands(buffer, 0, Header(7, flags, 1, count)), Len(buffer) >= 12
    PROVE  ReadU16(buffer, 4) = 1 /\ ReadU16(buffer, 6) = count
  <1>1. PICK size \in Nat : size = Len(buffer)
    BY ByteType
  <1>2. count \in Nat
    BY DEF Word
  <1>3. PICK a \in ByteSeq, b \in ByteSeq, c \in ByteSeq, d \in ByteSeq, e \in ByteSeq :
            /\ a = U16(7) /\ b = U16(flags) /\ c = U16(1) /\ d = U16(count) /\ e = U16(0)
            /\ Len(a) = 2 /\ Len(b) = 2 /\ Len(c) = 2 /\ Len(d) = 2 /\ Len(e) = 2
    BY <1>2, U16Type
  <1>4. Stands(buffer, 0, ((((a \o b) \o c) \o d) \o e) \o e)
    BY <1>3, Zenon DEF Header
  <1>5. PICK p \in ByteSeq : p = a \o b /\ Len(p) = Len(a) + Len(b)
    BY BytesJoin
  <1>6. PICK q \in ByteSeq : q = p \o c /\ Len(q) = Len(p) + Len(c)
    BY BytesJoin
  <1>7. PICK r \in ByteSeq : r = q \o d /\ Len(r) = Len(q) + Len(d)
    BY BytesJoin
  <1>8. PICK s \in ByteSeq : s = r \o e /\ Len(s) = Len(r) + Len(e)
    BY BytesJoin
  <1>9. Stands(buffer, 0, s \o e)
    BY <1>4, <1>5, <1>6, <1>7, <1>8
  <1> DEFINE zero == 0
  <1>10. zero \in Nat /\ Stands(buffer, zero, s \o e) /\ Len(buffer) \in Nat
    BY <1>1, <1>9
  <1> HIDE DEF zero
  <1>11. Stands(buffer, zero, s)
    BY <1>3, <1>10, StandsSplit
  <1>12. Stands(buffer, zero, r)
    BY <1>3, <1>8, <1>11, <1>10, StandsSplit
  <1>13. Stands(buffer, zero, q) /\ Stands(buffer, zero + Len(q), d)
    BY <1>3, <1>7, <1>12, <1>10, StandsSplit
  <1>14. Stands(buffer, zero + Len(p), c)
    BY <1>3, <1>6, <1>13, <1>10, StandsSplit
  <1>15. PICK four \in Nat, six \in Nat : four = 4 /\ six = 6
    OBVIOUS
  <1>16. /\ Stands(buffer, four, c) /\ Stands(buffer, six, d)
         /\ four + 2 <= Len(buffer) /\ six + 2 <= Len(buffer)
    <2>1. zero + Len(p) = 4 /\ zero + Len(q) = 6
      BY <1>3, <1>5, <1>6 DEF zero
    <2> QED
      BY <1>1, <1>13, <1>14, <1>15, <2>1
  <1>17. PICK one \in Nat : one = 1 /\ Word(one)
    BY DEF Word
  <1>18. ReadU16(buffer, four) = one
    BY <1>1, <1>3, <1>16, <1>17, WordRead
  <1>19. ReadU16(buffer, six) = count
    BY <1>1, <1>3, <1>16, WordRead
  <1> QED
    BY <1>15, <1>17, <1>18, <1>19

\* Where the parts of the opening stand.
LEMMA OpeningStands ==
    ASSUME NEW buffer \in ByteSeq, NEW labels \in Seq(ByteSeq), NEW flags \in Nat,
           NEW count \in Nat
    PROVE  /\ Opening(labels, flags, count) \in ByteSeq
           /\ Len(Opening(labels, flags, count)) = 12 + Len(EncodeName(labels)) + 4
           /\ Stands(buffer, 0, Opening(labels, flags, count)) =>
                /\ Stands(buffer, 0, Header(7, flags, 1, count))
                /\ Stands(buffer, 12, EncodeName(labels))
  <1>1. PICK one \in Nat : one = 1
    OBVIOUS
  <1>2. PICK u \in ByteSeq : u = U16(1) /\ Len(u) = 2
    BY <1>1, U16Type
  <1>3. PICK h \in ByteSeq : h = Header(7, flags, 1, count) /\ Len(h) = 12
    <2>1. PICK a \in ByteSeq, b \in ByteSeq, d \in ByteSeq, e \in ByteSeq :
            /\ a = U16(7) /\ b = U16(flags) /\ d = U16(count) /\ e = U16(0)
            /\ Len(a) = 2 /\ Len(b) = 2 /\ Len(d) = 2 /\ Len(e) = 2
      BY U16Type
    <2>2. Header(7, flags, 1, count) = ((((a \o b) \o u) \o d) \o e) \o e
      BY <1>2, <2>1, Zenon DEF Header
    <2>3. PICK p \in ByteSeq : p = a \o b /\ Len(p) = Len(a) + Len(b)
      BY BytesJoin
    <2>4. PICK q \in ByteSeq : q = p \o u /\ Len(q) = Len(p) + Len(u)
      BY BytesJoin
    <2>5. PICK r \in ByteSeq : r = q \o d /\ Len(r) = Len(q) + Len(d)
      BY BytesJoin
    <2>6. PICK s \in ByteSeq : s = r \o e /\ Len(s) = Len(r) + Len(e)
      BY BytesJoin
    <2>7. PICK t \in ByteSeq : t = s \o e /\ Len(t) = Len(s) + Len(e)
      BY BytesJoin
    <2>8. Len(t) = 12
      <3>1. Len(p) = 2 + 2
        BY <2>1, <2>3, Zenon
      <3>2. Len(q) = 2 + 2 + 2
        BY <1>2, <2>4, <3>1, Zenon
      <3>3. Len(r) = 2 + 2 + 2 + 2
        BY <2>1, <2>5, <3>2, Zenon
      <3>4. Len(s) = 2 + 2 + 2 + 2 + 2
        BY <2>1, <2>6, <3>3, Zenon
      <3>5. Len(t) = 2 + 2 + 2 + 2 + 2 + 2
        BY <2>1, <2>7, <3>4, Zenon
      <3>6. 2 + 2 + 2 + 2 + 2 + 2 = 12
        OBVIOUS
      <3> QED
        BY <3>5, <3>6, Zenon
    <2> QED
      BY <2>2, <2>3, <2>4, <2>5, <2>6, <2>7, <2>8
  <1>4. PICK enc \in ByteSeq : enc = EncodeName(labels)
    BY EncodeNameType
  <1>5. PICK n \in Nat : n = Len(enc)
    BY ByteType
  <1>6. PICK p \in ByteSeq : p = h \o enc /\ Len(p) = Len(h) + Len(enc)
    BY BytesJoin
  <1>7. PICK q \in ByteSeq : q = p \o u /\ Len(q) = Len(p) + Len(u)
    BY BytesJoin
  <1>8. Opening(labels, flags, count) = q \o u
    BY <1>2, <1>3, <1>4, <1>6, <1>7, Zenon DEF Opening
  <1>9. q \o u \in ByteSeq /\ Len(q \o u) = 12 + n + 2 + 2
    <2>1. q \o u \in ByteSeq /\ Len(q \o u) = Len(q) + Len(u)
      BY BytesJoin
    <2> QED
      BY <1>2, <1>3, <1>5, <1>6, <1>7, <2>1
  <1>10. ASSUME Stands(buffer, 0, q \o u)
         PROVE  Stands(buffer, 0, h) /\ Stands(buffer, 12, enc)
    <2> DEFINE zero == 0
    <2>1. zero \in Nat /\ Stands(buffer, zero, q \o u) /\ Len(buffer) \in Nat
      BY <1>10, ByteType
    <2> HIDE DEF zero
    <2>2. Stands(buffer, zero, q)
      BY <1>2, <2>1, StandsSplit
    <2>3. Stands(buffer, zero, p)
      BY <1>2, <1>7, <2>1, <2>2, StandsSplit
    <2>4. Stands(buffer, zero, h) /\ Stands(buffer, zero + Len(h), enc)
      BY <1>6, <2>1, <2>3, StandsSplit
    <2>5. zero + Len(h) = 12
      BY <1>3 DEF zero
    <2> QED
      BY <2>4, <2>5 DEF zero
  <1> QED
    BY <1>3, <1>4, <1>5, <1>8, <1>9, <1>10

\* A question that is there is read, and the place behind it.
LEMMA QuestionRead ==
    ASSUME NEW buffer \in ByteSeq, NEW labels, NiceName(labels), Len(labels) <= 10,
           Stands(buffer, 12, EncodeName(labels)),
           12 + Len(EncodeName(labels)) + 4 <= Len(buffer)
    PROVE  LET q == DecodeQuestions(buffer, 1, 12)
           IN  /\ q.ok = TRUE /\ q.questions = << labels >>
               /\ q.offset = 12 + Len(EncodeName(labels)) + 4
  <1>1. PICK size \in Nat : size = Len(buffer)
    BY ByteType
  <1>2. labels \in Seq(ByteSeq)
    BY DEF NiceName
  <1>3. PICK n \in Nat : n = Len(EncodeName(labels))
    BY <1>2, EncodeNameType, ByteType
  <1>4. PICK x \in Nat : x = 12
    OBVIOUS
  <1>5. PICK y \in Nat : y = 12 + n
    OBVIOUS
  <1>6. DecodeName(buffer, x) = [name |-> labels, offset |-> y]
    <2>1. PICK g : NameLoop(g, buffer) /\ NameFrom(buffer, x) = g[MaxSteps][x]
      BY NameLoopIs
    <2>2. MaxSteps \in Len(labels) + 1 .. MaxSteps
      <3>1. Len(labels) \in Nat
        <4> HIDE DEF ByteSeq
        <4> QED
          BY <1>2
      <3> QED
        BY <3>1 DEF MaxSteps
    <2>3. NameFound(g, buffer, labels, x, MaxSteps)
      BY <1>4, <2>1, <2>2, NameIsFound
    <2>4. WholeAt(g[MaxSteps][x], labels, y)
      BY <1>1, <1>3, <1>4, <1>5, <2>3 DEF NameFound
    <2>5. PICK e : e = NameFrom(buffer, x) /\ WholeAt(e, labels, y)
      BY <2>1, <2>4
    <2> QED
      BY <2>5, Zenon DEF DecodeName, WholeAt
  <1>7. PICK one \in Nat : one = 1
    OBVIOUS
  <1>8. PICK g : /\ QuestionLoop(g, buffer, one)
                 /\ DecodeQuestions(buffer, one, x) = g[one][x]
    BY QuestionLoopIs
  <1>9. g[one][x] = QuestionStep(buffer, g[0], x)
    <2>1. one \in 1 .. one /\ one - 1 = 0
      BY <1>7
    <2> QED
      BY <1>8, <2>1 DEF QuestionLoop
  <1>10. ~(y + 4 > Len(buffer)) /\ y + 4 \in Nat
    BY <1>1, <1>3, <1>5
  <1>11. QuestionStep(buffer, g[0], x) =
            [g[0][y + 4] EXCEPT !.questions = << labels >> \o @]
    <2>1. DecodeName(buffer, x).offset = y /\ DecodeName(buffer, x).name = labels
      BY <1>6
    <2> QED
      BY <1>10, <2>1, Zenon DEF QuestionStep
  <1>12. g[0][y + 4] = [ok |-> TRUE, offset |-> y + 4, questions |-> <<>>]
    BY <1>8, <1>10 DEF QuestionLoop
  <1>13. << labels >> \o <<>> = << labels >>
    OBVIOUS
  <1>14. DecodeQuestions(buffer, one, x) =
            [ok |-> TRUE, offset |-> y + 4, questions |-> << labels >> \o <<>>]
    <2>1. DecodeQuestions(buffer, one, x) =
            [[ok |-> TRUE, offset |-> y + 4, questions |-> <<>>]
                EXCEPT !.questions = << labels >> \o @]
      BY <1>8, <1>9, <1>11, <1>12, Zenon
    <2> QED
      BY <2>1
  <1> QED
    BY <1>3, <1>4, <1>5, <1>7, <1>13, <1>14

\* A message with such an opening is decoded to what its records come to.
LEMMA OpeningRead ==
    ASSUME NEW buffer \in ByteSeq, NEW labels, NiceName(labels), Len(labels) <= 10,
           NEW flags \in Nat, NEW count, Word(count),
           Stands(buffer, 0, Opening(labels, flags, count)),
           NEW base \in Nat, base = 12 + Len(EncodeName(labels)) + 4, base <= Len(buffer)
    PROVE  Decode(buffer) =
                LET a == DecodeAnswers(buffer, count, base)
                IN  IF ~a.ok THEN Refused
                    ELSE [ok |-> TRUE, questions |-> << labels >>, answers |-> a.answers]
  <1>1. PICK size \in Nat : size = Len(buffer)
    BY ByteType
  <1>2. labels \in Seq(ByteSeq) /\ count \in Nat
    BY DEF NiceName, Word
  <1>3. PICK n \in Nat : n = Len(EncodeName(labels))
    BY <1>2, EncodeNameType, ByteType
  <1>4. /\ Stands(buffer, 0, Header(7, flags, 1, count))
        /\ Stands(buffer, 12, EncodeName(labels))
    BY <1>2, OpeningStands
  <1>5. Len(buffer) >= 12 /\ ~(Len(buffer) < 12) /\ 12 + Len(EncodeName(labels)) + 4 <= Len(buffer)
    BY <1>1, <1>3
  <1>6. ReadU16(buffer, 4) = 1 /\ ReadU16(buffer, 6) = count
    BY <1>4, <1>5, HeaderRead
  <1> DEFINE q == DecodeQuestions(buffer, 1, 12)
  <1>7. q.ok = TRUE /\ q.questions = << labels >> /\ q.offset = base
    BY <1>4, <1>5, QuestionRead
  <1> QED
    BY <1>5, <1>6, <1>7, Zenon DEF Decode

\* The loop over a name ends well from there, with so many turns.
Goes(buffer, to, s) == \A g : NameLoop(g, buffer) => g[s][to].whole = TRUE

\* decodeName goes on at y where the name is in the buffer; else what it makes of it
\* is no place for a record.
NameOffset(buffer, x, y) ==
    /\ y <= Len(buffer) => DecodeName(buffer, x).offset = y
    /\ y > Len(buffer) => Dead(buffer, DecodeName(buffer, x).offset)

\* What the loop comes to is what decodeName returns.
LEMMA OffsetIs ==
    ASSUME NEW buffer \in ByteSeq, NEW x \in Nat, NEW e, e = NameFrom(buffer, x)
    PROVE  /\ CutOff(e, buffer) => Dead(buffer, DecodeName(buffer, x).offset)
           /\ e.whole = TRUE /\ e.jump_offset = 0 =>
                    DecodeName(buffer, x).offset = e.offset
           /\ e.whole = TRUE /\ e.jump_offset # 0 =>
                    DecodeName(buffer, x).offset = e.jump_offset
  <1>1. CutOff(e, buffer) => DecodeName(buffer, x).offset = e.offset
    BY Zenon DEF DecodeName, CutOff
  <1>2. CutOff(e, buffer) => Dead(buffer, e.offset)
    BY DEF CutOff
  <1>3. e.whole = TRUE => DecodeName(buffer, x).offset =
                            IF e.jump_offset = 0 THEN e.offset ELSE e.jump_offset
    BY Zenon DEF DecodeName
  <1> QED
    BY <1>1, <1>2, <1>3, Zenon

\* A name in full.
LEMMA FullRead ==
    ASSUME NEW buffer \in ByteSeq, Len(buffer) <= 512, NEW x \in Nat,
           NEW labels, NiceName(labels), Len(labels) <= 10,
           Stands(buffer, x, EncodeName(labels)),
           NEW y \in Nat, y = x + Len(EncodeName(labels))
    PROVE  NameOffset(buffer, x, y)
  <1>1. labels \in Seq(ByteSeq) /\ Len(labels) \in Nat
    <2>1. labels \in Seq(ByteSeq)
      BY DEF NiceName
    <2> HIDE DEF ByteSeq
    <2> QED
      BY <2>1
  <1>2. PICK g : NameLoop(g, buffer) /\ NameFrom(buffer, x) = g[MaxSteps][x]
    BY NameLoopIs
  <1>3. MaxSteps \in Len(labels) + 1 .. MaxSteps
    BY <1>1 DEF MaxSteps
  <1>4. NameFound(g, buffer, labels, x, MaxSteps)
    BY <1>2, <1>3, NameIsFound
  <1>5. PICK e : e = NameFrom(buffer, x) /\ e = g[MaxSteps][x]
    BY <1>2
  <1>6. /\ y <= Len(buffer) => WholeAt(e, labels, y)
        /\ y > Len(buffer) => CutOff(e, buffer)
    BY <1>4, <1>5, Zenon DEF NameFound
  <1>7. /\ y <= Len(buffer) => DecodeName(buffer, x).offset = y
        /\ y > Len(buffer) => Dead(buffer, DecodeName(buffer, x).offset)
    BY <1>5, <1>6, OffsetIs DEF WholeAt
  <1> QED
    BY <1>7 DEF NameOffset

\* The loop has gone through a pointer whose end is y.
Pointed(e, buffer, y) ==
    /\ y <= Len(buffer) => e.whole = TRUE /\ e.jump_offset = y
    /\ y > Len(buffer) => CutOff(e, buffer)

\* With s turns left the loop comes to e from x, where a pointer stands to a place
\* from where it ends well.
AtPointer(g, buffer, s, x, to, t, y, e) ==
    /\ NameLoop(g, buffer) /\ s \in 1 .. MaxSteps /\ t = s - 1
    /\ Stands(buffer, x, Pointer(to)) /\ Goes(buffer, to, t)
    /\ y = x + 2 /\ e = g[s][x]

\* A turn at a pointer, in the loop.
LEMMA PointerTurn ==
    ASSUME NEW buffer \in ByteSeq, NEW x \in Nat, NEW y \in Nat, NEW to \in 0 .. 511,
           NEW g, NEW s, NEW t \in Nat, NEW e, AtPointer(g, buffer, s, x, to, t, y, e)
    PROVE  Pointed(e, buffer, y)
  <1> USE DEF AtPointer
  <1>1. PICK rest \in [Nat -> NameEnds] : rest = g[s - 1]
    BY LoopTurn
  <1>2. e = NameStep(buffer, rest, x)
    BY <1>1, LoopTurn
  <1>3. /\ y <= Len(buffer) =>
                NameStep(buffer, rest, x) = [rest[to] EXCEPT !.jump_offset = y]
        /\ y > Len(buffer) => CutOff(NameStep(buffer, rest, x), buffer)
    <2>1. /\ x + 2 <= Len(buffer) =>
                NameStep(buffer, rest, x) = [rest[to] EXCEPT !.jump_offset = x + 2]
          /\ x + 2 > Len(buffer) => CutOff(NameStep(buffer, rest, x), buffer)
      BY NameStepPointer
    <2> QED
      BY <2>1, Zenon
  <1>4. rest[to].whole = TRUE
    BY <1>1 DEF Goes
  <1>5. PICK r \in NameEnds : r = rest[to] /\ r.whole = TRUE
    BY <1>4
  <1>6. [r EXCEPT !.jump_offset = y].whole = TRUE /\ [r EXCEPT !.jump_offset = y].jump_offset = y
    BY <1>5 DEF NameEnds
  <1>7. y <= Len(buffer) => e.whole = TRUE /\ e.jump_offset = y
    BY <1>2, <1>3, <1>5, <1>6, Zenon
  <1> QED
    BY <1>2, <1>3, <1>7, Zenon DEF Pointed

\* A name that is a pointer.
LEMMA PointerRead ==
    ASSUME NEW buffer \in ByteSeq, NEW x \in Nat, NEW to \in 0 .. 511,
           Stands(buffer, x, Pointer(to)), Goes(buffer, to, 10),
           NEW y \in Nat, y = x + 2
    PROVE  NameOffset(buffer, x, y)
  <1>1. PICK g : NameLoop(g, buffer) /\ NameFrom(buffer, x) = g[MaxSteps][x]
    BY NameLoopIs
  <1>2. PICK s \in 1 .. MaxSteps, t \in Nat : s = MaxSteps /\ t = 10 /\ t = s - 1
    BY DEF MaxSteps
  <1>3. PICK e : e = NameFrom(buffer, x) /\ e = g[s][x]
    BY <1>1, <1>2
  <1>4. Goes(buffer, to, t)
    BY <1>2
  <1>5. Pointed(e, buffer, y)
    <2>1. AtPointer(g, buffer, s, x, to, t, y, e)
      BY <1>1, <1>2, <1>3, <1>4 DEF AtPointer
    <2> QED
      BY <2>1, PointerTurn
  <1>6. y # 0
    OBVIOUS
  <1>7. /\ y <= Len(buffer) => DecodeName(buffer, x).offset = y
        /\ y > Len(buffer) => Dead(buffer, DecodeName(buffer, x).offset)
    BY <1>3, <1>5, <1>6, OffsetIs DEF Pointed
  <1> QED
    BY <1>7 DEF NameOffset

\* Two bytes put together.
LEMMA TwoBytes ==
    ASSUME NEW a \in 0 .. 255, NEW b \in 0 .. 255
    PROVE  << a >> \o << b >> = << a, b >>
  <1> DEFINE p == << a >>
             q == << b >>
             w == << a, b >>
             T == 0 .. 255
  <1>1. p \in Seq(T) /\ q \in Seq(T) /\ w \in Seq(T)
    OBVIOUS
  <1>2. Len(p) = 1 /\ Len(q) = 1 /\ Len(w) = 2
    OBVIOUS
  <1>3. p[1] = a /\ q[1] = b /\ w[1] = a /\ w[2] = b
    OBVIOUS
  <1> HIDE DEF p, q, w, T
  <1>4. p \o q \in Seq(T) /\ Len(p \o q) = 2
    BY <1>1, <1>2, ConcatProperties
  <1>5. (p \o q)[1] = p[1]
    BY <1>1, <1>2, ConcatProperties
  <1>6. (p \o q)[2] = q[1]
    BY <1>1, <1>2, ConcatProperties
  <1>7. ASSUME NEW i \in 1 .. Len(w)
        PROVE  (p \o q)[i] = w[i]
    <2>1. i = 1 \/ i = 2
      BY <1>2
    <2> QED
      BY <1>3, <1>5, <1>6, <2>1
  <1>8. p \o q = w
    BY <1>1, <1>2, <1>4, <1>7, SeqEqual
  <1> QED
    BY <1>8 DEF p, q, w

\* A name that is a label and a pointer.
LEMMA BelowRead ==
    ASSUME NEW buffer \in ByteSeq, Len(buffer) <= 512, NEW x \in Nat, NEW to \in 0 .. 511,
           Stands(buffer, x, << 1, 120 >>), NEW y \in Nat, y = x + 2,
           Stands(buffer, y, Pointer(to)), Goes(buffer, to, 9),
           NEW z \in Nat, z = y + 2
    PROVE  NameOffset(buffer, x, z)
  <1>1. PICK g : NameLoop(g, buffer) /\ NameFrom(buffer, x) = g[MaxSteps][x]
    BY NameLoopIs
  <1>2. PICK s \in 1 .. MaxSteps : s = MaxSteps /\ s - 1 = 10
    BY DEF MaxSteps
  <1>3. PICK t \in 1 .. MaxSteps, u \in Nat : t = s - 1 /\ u = 9 /\ u = t - 1
    BY <1>2 DEF MaxSteps
  <1>4. PICK e : e = NameFrom(buffer, x) /\ e = g[s][x]
    BY <1>1, <1>2
  <1>5. PICK rest \in [Nat -> NameEnds] : rest = g[t]
    BY <1>1, <1>3, LoopTurn
  <1>6. e = NameStep(buffer, rest, x)
    BY <1>1, <1>3, <1>4, <1>5, LoopTurn
  <1>7. Goes(buffer, to, u)
    BY <1>3
  <1>8. PICK r \in NameEnds : r = rest[y]
    OBVIOUS
  <1>9. Pointed(r, buffer, z)
    <2>1. AtPointer(g, buffer, t, y, to, u, z, r)
      BY <1>1, <1>3, <1>5, <1>7, <1>8 DEF AtPointer
    <2> QED
      BY <2>1, PointerTurn
  <1>10. PICK label : label = << 120 >> /\ NiceLabel(label) /\ Len(label) = 1
    <2>1. PICK c \in NameBytes : c = 120
      BY DEF NameBytes
    <2>2. << c >> \in Seq(NameBytes) /\ Len(<< c >>) = 1
      OBVIOUS
    <2>3. 1 \in 1 .. 63
      OBVIOUS
    <2> QED
      BY <2>1, <2>2, <2>3 DEF NiceLabel
  <1>11. LengthAndLabel(label) = << 1, 120 >>
    <2>1. LengthAndLabel(label) = << Len(label) >> \o label
      BY <1>10, NiceLabelIs
    <2>2. PICK a \in 0 .. 255, b \in 0 .. 255 : a = 1 /\ b = 120
      OBVIOUS
    <2>3. << a >> \o << b >> = << a, b >>
      BY TwoBytes
    <2> QED
      BY <1>10, <2>1, <2>2, <2>3, Zenon
  <1>12. PICK size \in Nat : size = Len(buffer)
    BY ByteType
  <1>13. /\ y <= size => LabelTaken(e, r, label)
         /\ y > size => CutOff(e, buffer)
    <2>1. x + 1 + Len(label) = y
      BY <1>10
    <2>2. Stands(buffer, x, LengthAndLabel(label))
      BY <1>11
    <2> QED
      BY <1>6, <1>8, <1>10, <1>12, <2>1, <2>2, NameStepLabel
  <1>14. ASSUME z <= size
         PROVE  e.whole = TRUE /\ e.jump_offset = z
    <2>1. y <= size
      BY <1>14
    <2>2. LabelTaken(e, r, label) /\ r.whole = TRUE /\ r.jump_offset = z
      BY <1>9, <1>12, <1>13, <1>14, <2>1 DEF Pointed
    <2> QED
      BY <2>2 DEF LabelTaken
  <1>15. ASSUME z > size
         PROVE  CutOff(e, buffer)
    <2>1. CASE y <= size
      <3>1. LabelTaken(e, r, label) /\ CutOff(r, buffer)
        BY <1>9, <1>12, <1>13, <1>15, <2>1 DEF Pointed
      <3> QED
        BY <3>1 DEF LabelTaken, CutOff, Pointed
    <2>2. CASE y > size
      BY <1>13, <2>2
    <2> QED
      BY <2>1, <2>2
  <1>16. z # 0
    OBVIOUS
  <1>17. /\ z <= Len(buffer) => DecodeName(buffer, x).offset = z
         /\ z > Len(buffer) => Dead(buffer, DecodeName(buffer, x).offset)
    BY <1>4, <1>12, <1>14, <1>15, <1>16, OffsetIs
  <1> QED
    BY <1>17 DEF NameOffset
-----------------------------------------------------------------------------
\* What stands behind the name of a record.
Fields(buffer, y, r) ==
    /\ Stands(buffer, y, U16(r.type)) /\ Stands(buffer, y + 8, U16(Len(r.rdata)))
    /\ Stands(buffer, y + 10, r.rdata)

\* A record that stands with its name at x and with its fields at y, and ends at z.
RecordAt(buffer, x, y, r, z) ==
    /\ r \in [type : Nat, rdata : ByteSeq] /\ Word(r.type) /\ Word(Len(r.rdata))
    /\ NameOffset(buffer, x, y) /\ Fields(buffer, y, r) /\ z = y + 10 + Len(r.rdata)

\* What a turn comes to: the record that ends at z and what follows, or nothing.
TurnIs(e, behind, r, z, buffer) ==
    /\ z <= Len(buffer) => e.ok = behind.ok /\ e.answers = << r >> \o behind.answers
    /\ z > Len(buffer) => e.ok = FALSE

\* A record that is in the buffer is read as it is, and the next one behind it; one
\* that is not whole in it ends the loop.
LEMMA RecordRead ==
    ASSUME NEW buffer \in ByteSeq, NEW rest \in [Nat -> RecordEnds], NEW x \in Nat,
           NEW y \in Nat, NEW z \in Nat, NEW r, RecordAt(buffer, x, y, r, z)
    PROVE  TurnIs(RecordStep(buffer, rest, x), rest[z], r, z, buffer)
  <1> USE DEF RecordAt
  <1>1. PICK e : e = RecordStep(buffer, rest, x)
    OBVIOUS
  <1>2. PICK size \in Nat : size = Len(buffer)
    BY ByteType
  <1>3. PICK len \in Nat : len = Len(r.rdata)
    BY DEF Word
  <1>4. r.type \in Nat /\ r.rdata \in ByteSeq
    OBVIOUS
  <1>5. PICK o \in Nat : o = DecodeName(buffer, x).offset
    BY DecodeNameType
  <1>6. Unanswered(FALSE).ok = FALSE
    BY DEF Unanswered
  <1>7. o + 10 > size => e = Unanswered(FALSE)
    BY <1>1, <1>2, <1>5, Zenon DEF RecordStep
  <1>8. ~(o + 10 > size) /\ o + 10 + ReadU16(buffer, o + 8) > size => e = Unanswered(FALSE)
    BY <1>1, <1>2, <1>5, Zenon DEF RecordStep
  <1> SUFFICES /\ z <= size => e.ok = rest[z].ok /\ e.answers = << r >> \o rest[z].answers
               /\ z > size => e.ok = FALSE
    BY <1>1, <1>2 DEF TurnIs
  <1>9. CASE y > size
    <2>1. Dead(buffer, o)
      BY <1>2, <1>5, <1>9 DEF NameOffset
    <2>2. e = Unanswered(FALSE)
      BY <1>2, <1>7, <1>8, <2>1 DEF Dead
    <2>3. z > size /\ ~(z <= size)
      BY <1>3, <1>9
    <2> QED
      BY <1>6, <2>2, <2>3
  <1>10. CASE y <= size
    <2>1. o = y
      BY <1>2, <1>5, <1>10 DEF NameOffset
    <2>2. CASE y + 10 > size
      <3>1. z > size /\ ~(z <= size)
        BY <1>3, <2>2
      <3>2. e = Unanswered(FALSE)
        BY <1>7, <2>1, <2>2
      <3> QED
        BY <1>6, <3>1, <3>2
    <2>3. CASE y + 10 <= size
      <3>1. PICK w \in Nat, v \in Nat : w = y + 8 /\ v = y + 10
        OBVIOUS
      <3>2. ReadU16(buffer, y) = r.type
        <4>1. y + 2 <= Len(buffer) /\ Len(buffer) \in Nat
          BY <1>2, <2>3
        <4> QED
          BY <4>1, WordRead DEF Fields
      <3>3. ReadU16(buffer, w) = Len(r.rdata)
        <4>1. w + 2 <= Len(buffer) /\ Len(buffer) \in Nat
          BY <1>2, <2>3, <3>1
        <4>2. Stands(buffer, w, U16(Len(r.rdata)))
          BY <3>1 DEF Fields
        <4> QED
          BY <4>1, <4>2, WordRead
      <3>4. ReadU16(buffer, o + 8) = len /\ ReadU16(buffer, o) = r.type
        BY <1>3, <2>1, <3>1, <3>2, <3>3
      <3>5. z = o + 10 + len /\ ~(o + 10 > size)
        BY <1>3, <2>1, <2>3
      <3>6. ASSUME z > size
            PROVE  e.ok = FALSE
        BY <1>6, <1>8, <3>4, <3>5, <3>6
      <3>7. ASSUME z <= size
            PROVE  e.ok = rest[z].ok /\ e.answers = << r >> \o rest[z].answers
        <4>1. Slice(buffer, v, Len(r.rdata)) = r.rdata
          <5>1. Stands(buffer, v, r.rdata)
            BY <3>1 DEF Fields
          <5>2. v + Len(r.rdata) <= Len(buffer)
            BY <1>2, <3>1, <3>7
          <5> QED
            BY <1>4, <5>1, <5>2, SliceStands
        <4>2. Slice(buffer, o + 10, len) = r.rdata
          BY <1>3, <2>1, <3>1, <4>1
        <4>3. ~(o + 10 + len > Len(buffer)) /\ ~(o + 10 > Len(buffer))
          BY <1>2, <3>5, <3>7
        <4>4. e = [rest[o + 10 + len] EXCEPT !.answers =
                        << [type |-> r.type, rdata |-> r.rdata] >> \o @]
          BY <1>1, <1>5, <3>4, <4>2, <4>3, Zenon DEF RecordStep
        <4>5. [type |-> r.type, rdata |-> r.rdata] = r
          OBVIOUS
        <4>6. PICK n \in RecordEnds : n = rest[z]
          OBVIOUS
        <4>7. e = [n EXCEPT !.answers = << r >> \o @]
          BY <3>5, <4>4, <4>5, <4>6, Zenon
        <4> QED
          BY <4>6, <4>7 DEF RecordEnds
      <3> QED
        BY <3>6, <3>7
    <2>4. y + 10 > size \/ y + 10 <= size
      OBVIOUS
    <2> QED
      BY <2>2, <2>3, <2>4, Zenon
  <1>11. y > size \/ y <= size
    OBVIOUS
  <1> QED
    BY <1>9, <1>10, <1>11, Zenon

\* With a record more an answer comes to e; the record's name is n, from x to y, and
\* it ends at z.
Extended(acc, r, form, e, x, n, y, z) ==
    /\ acc \in Growing /\ r \in [type : Nat, rdata : ByteSeq] /\ form \in Forms
    /\ e = AddRecord(acc, r, form) /\ x = Len(acc.bytes)
    /\ n = RecordName(form, acc.name) /\ y = x + Len(n) /\ z = y + 10 + Len(r.rdata)

\* Where the parts of such a record stand.
LEMMA RecordStands ==
    ASSUME hostname \in Seq(ByteSeq), NEW buffer \in ByteSeq, NEW form, NEW acc, NEW r,
           NEW e, NEW x \in Nat, NEW n, NEW y \in Nat, NEW z \in Nat,
           Extended(acc, r, form, e, x, n, y, z)
    PROVE  /\ e \in Growing /\ e.name = x /\ Len(e.bytes) = z
           /\ Stands(buffer, 0, e.bytes) =>
                Stands(buffer, 0, acc.bytes) /\ Stands(buffer, x, n) /\ Fields(buffer, y, r)
  <1> USE DEF Extended
  <1>1. e \in Growing
    BY AddRecordType
  <1>2. PICK a \in ByteSeq, d \in ByteSeq, ty \in Nat :
            a = acc.bytes /\ d = r.rdata /\ ty = r.type /\ acc.name \in Nat
    BY DEF Growing
  <1>3. n \in ByteSeq
    BY <1>2, RecordNameType
  <1>4. PICK size \in Nat, len \in Nat, k \in Nat : 
            size = Len(buffer) /\ len = Len(d) /\ k = Len(n)
    BY <1>3, ByteType
  <1>5. PICK one \in Nat, zero \in Nat, sixty \in Nat : one = 1 /\ zero = 0 /\ sixty = 60
    OBVIOUS
  <1>6. PICK t \in ByteSeq, c \in ByteSeq, o \in ByteSeq, s \in ByteSeq, l \in ByteSeq :
            /\ t = U16(ty) /\ c = U16(one) /\ o = U16(zero) /\ s = U16(sixty)
            /\ l = U16(len)
            /\ Len(t) = 2 /\ Len(c) = 2 /\ Len(o) = 2 /\ Len(s) = 2 /\ Len(l) = 2
    BY U16Type
  <1>7. e.bytes = ((((((a \o n) \o t) \o c) \o o) \o s) \o l) \o d /\ e.name = x
    <2>1. /\ t = U16(r.type) /\ c = U16(1) /\ o = U16(0) /\ s = U16(60)
          /\ l = U16(Len(r.rdata))
      BY <1>2, <1>4, <1>5, <1>6
    <2>2. e.bytes = acc.bytes \o RecordName(form, acc.name) \o U16(r.type) \o U16(1)
                \o U16(0) \o U16(60) \o U16(Len(r.rdata)) \o r.rdata
      BY DEF AddRecord
    <2>3. e.name = x
      BY DEF AddRecord
    <2> QED
      BY <1>2, <2>1, <2>2, <2>3, Zenon
  <1>8. PICK p1 \in ByteSeq : p1 = a \o n /\ Len(p1) = Len(a) + Len(n)
    BY <1>3, BytesJoin
  <1>9. PICK p2 \in ByteSeq : p2 = p1 \o t /\ Len(p2) = Len(p1) + Len(t)
    BY BytesJoin
  <1>10. PICK p3 \in ByteSeq : p3 = p2 \o c /\ Len(p3) = Len(p2) + Len(c)
    BY BytesJoin
  <1>11. PICK p4 \in ByteSeq : p4 = p3 \o o /\ Len(p4) = Len(p3) + Len(o)
    BY BytesJoin
  <1>12. PICK p5 \in ByteSeq : p5 = p4 \o s /\ Len(p5) = Len(p4) + Len(s)
    BY BytesJoin
  <1>13. PICK p6 \in ByteSeq : p6 = p5 \o l /\ Len(p6) = Len(p5) + Len(l)
    BY BytesJoin
  <1>14. PICK p7 \in ByteSeq : p7 = p6 \o d /\ Len(p7) = Len(p6) + Len(d)
    BY BytesJoin
  <1>15. e.bytes = p7
    BY <1>7, <1>8, <1>9, <1>10, <1>11, <1>12, <1>13, <1>14, Zenon
  <1>16. Len(p1) = y
    BY <1>2, <1>8
  <1>17. Len(p2) = y + 2 /\ Len(p3) = y + 4 /\ Len(p4) = y + 6
    BY <1>6, <1>9, <1>10, <1>11, <1>16
  <1>18. Len(p5) = y + 8 /\ Len(p6) = y + 10 /\ Len(p7) = y + 10 + len
    BY <1>4, <1>6, <1>12, <1>13, <1>14, <1>17
  <1>19. ASSUME Stands(buffer, 0, p7)
         PROVE  Stands(buffer, 0, a) /\ Stands(buffer, x, n) /\ Fields(buffer, y, r)
    <2>1. Stands(buffer, zero, p7) /\ Len(buffer) \in Nat /\ \A w \in Nat : zero + w = w
      BY <1>4, <1>5, <1>19
    <2>2. Stands(buffer, zero, p6) /\ Stands(buffer, zero + Len(p6), d)
      BY <1>14, <2>1, StandsSplit
    <2>3. Stands(buffer, zero, p5) /\ Stands(buffer, zero + Len(p5), l)
      BY <1>13, <2>1, <2>2, StandsSplit
    <2>4. Stands(buffer, zero, p4)
      BY <1>12, <2>1, <2>3, StandsSplit
    <2>5. Stands(buffer, zero, p3)
      BY <1>11, <2>1, <2>4, StandsSplit
    <2>6. Stands(buffer, zero, p2)
      BY <1>10, <2>1, <2>5, StandsSplit
    <2>7. Stands(buffer, zero, p1) /\ Stands(buffer, zero + Len(p1), t)
      BY <1>9, <2>1, <2>6, StandsSplit
    <2>8. Stands(buffer, zero, a) /\ Stands(buffer, zero + Len(a), n)
      BY <1>3, <1>8, <2>1, <2>7, StandsSplit
    <2>9. /\ zero + Len(a) = x /\ zero + Len(p1) = y /\ zero + Len(p5) = y + 8
          /\ zero + Len(p6) = y + 10
      BY <1>2, <1>5, <1>16, <1>18
    <2>10. /\ Stands(buffer, x, n) /\ Stands(buffer, y, t) /\ Stands(buffer, y + 8, l)
           /\ Stands(buffer, y + 10, d)
      BY <2>2, <2>3, <2>7, <2>8, <2>9
    <2>11. Fields(buffer, y, r)
      BY <1>2, <1>4, <1>6, <2>10 DEF Fields
    <2> QED
      BY <1>5, <2>8, <2>10, <2>11
  <1> QED
    BY <1>1, <1>2, <1>4, <1>7, <1>15, <1>18, <1>19

\* The labels and pointers of a name of an answer, besides those of the question.
BesidesIn(form, m) == CASE form = "full"    -> 0
                        [] form = "pointer" -> 1
                        [] form = "chained" -> m
                        [] form = "below"   -> 2

\* An answer with m records that stands in a buffer, cut perhaps behind the question.
Served(buffer, f, m, records, form) ==
    /\ buffer \in ByteSeq /\ Len(buffer) <= 512
    /\ records \in Records /\ m = Len(records) /\ Word(m)
    /\ \A i \in 1 .. m : Word(records[i].type) /\ Word(Len(records[i].rdata))
    /\ form \in Forms /\ NiceName(hostname) /\ Len(hostname) + BesidesIn(form, m) <= 10
    /\ Grows(f, m, records, form)
    /\ Stands(buffer, 0, f[m].bytes) /\ Len(f[0].bytes) <= Len(buffer)

\* The types of its parts.
LEMMA ServedTypes ==
    ASSUME NEW buffer, NEW f, NEW m, NEW records, NEW form,
           Served(buffer, f, m, records, form)
    PROVE  /\ buffer \in ByteSeq /\ Len(buffer) \in Nat /\ m \in Nat /\ form \in Forms
           /\ hostname \in Seq(ByteSeq) /\ Len(hostname) \in Nat
           /\ \A i \in 1 .. m : records[i] \in [type : Nat, rdata : ByteSeq]
           /\ \A i \in 0 .. m :
                f[i] \in Growing /\ f[i].bytes \in ByteSeq /\ Len(f[i].bytes) \in Nat
                    /\ f[i].name \in Nat
           /\ \A i \in 1 .. m : f[i] = AddRecord(f[i - 1], records[i], form)
           /\ f[0] = ResponseHead(m)
  <1>1. buffer \in ByteSeq /\ m \in Nat /\ form \in Forms /\ hostname \in Seq(ByteSeq)
    BY DEF Served, Word, NiceName
  <1>2. Len(buffer) \in Nat
    BY <1>1, ByteType
  <1>3. Len(hostname) \in Nat
    <2> HIDE DEF ByteSeq
    <2> QED
      BY <1>1
  <1>4. \A i \in 1 .. m : records[i] \in [type : Nat, rdata : ByteSeq]
    <2> DEFINE T == [type : Nat, rdata : ByteSeq]
    <2>1. records \in Seq(T) /\ m = Len(records)
      BY DEF Served, Records
    <2> HIDE DEF T
    <2>2. \A i \in 1 .. m : records[i] \in T
      BY <2>1
    <2> QED
      BY <2>2 DEF T
  <1>5. /\ f \in [0 .. m -> Growing] /\ f[0] = ResponseHead(m)
        /\ \A i \in 1 .. m : f[i] = AddRecord(f[i - 1], records[i], form)
    BY Zenon DEF Served, Grows
  <1>6. \A e \in Growing : e.bytes \in ByteSeq /\ e.name \in Nat
    BY DEF Growing
  <1>7. \A e \in Growing : Len(e.bytes) \in Nat
    BY <1>6, ByteType
  <1>8. \A i \in 0 .. m : f[i] \in Growing
    BY <1>5
  <1> QED
    BY <1>1, <1>2, <1>3, <1>4, <1>5, <1>6, <1>7, <1>8, Zenon

\* All that stands in the answer stands in the buffer.
LEMMA ServedStands ==
    ASSUME NEW buffer, NEW f, NEW m, NEW records, NEW form,
           Served(buffer, f, m, records, form)
    PROVE  \A i \in 0 .. m : Stands(buffer, 0, f[i].bytes)
  <1> DEFINE P == {j \in Nat : j \in 0 .. m => Stands(buffer, 0, f[m - j].bytes)}
  <1>1. m \in Nat /\ buffer \in ByteSeq /\ form \in Forms /\ hostname \in Seq(ByteSeq)
    BY ServedTypes
  <1>2. 0 \in P
    BY <1>1 DEF Served
  <1>3. ASSUME NEW j \in Nat, j \in P
        PROVE  j + 1 \in P
    <2> SUFFICES ASSUME j + 1 \in 0 .. m
                 PROVE  Stands(buffer, 0, f[m - (j + 1)].bytes)
      OBVIOUS
    <2>1. PICK i \in 1 .. m, k \in 0 .. m : 
                i = m - j /\ k = i - 1 /\ k = m - (j + 1) /\ j \in 0 .. m
      BY <1>1
    <2>2. Stands(buffer, 0, f[i].bytes)
      BY <1>3, <2>1
    <2>3. f[i] = AddRecord(f[k], records[i], form)
      BY <2>1, ServedTypes
    <2>4. PICK acc \in Growing : acc = f[k] /\ acc.bytes \in ByteSeq /\ acc.name \in Nat
      BY ServedTypes
    <2>5. PICK r \in [type : Nat, rdata : ByteSeq] : r = records[i]
      BY ServedTypes
    <2>6. PICK n \in ByteSeq : n = RecordName(form, acc.name)
      BY <1>1, <2>4, RecordNameType
    <2>7. PICK x \in Nat, s \in Nat : x = Len(acc.bytes) /\ s = Len(n)
      BY <2>4, ByteType
    <2>8. PICK y \in Nat : y = x + Len(n)
      BY <2>7
    <2>9. PICK d \in Nat : d = Len(r.rdata)
      <3>1. r.rdata \in ByteSeq
        OBVIOUS
      <3> QED
        BY <3>1, ByteType
    <2>10. PICK z \in Nat : z = y + 10 + Len(r.rdata)
      BY <2>9
    <2>11. PICK e : e = AddRecord(acc, r, form) /\ e = f[i]
      BY <2>3, <2>4, <2>5
    <2>12. Extended(acc, r, form, e, x, n, y, z)
      BY <2>10, <1>1, <2>6, <2>7, <2>8, <2>11 DEF Extended
    <2>13. Stands(buffer, 0, e.bytes) => Stands(buffer, 0, acc.bytes)
      BY <1>1, <2>12, RecordStands
    <2> QED
      BY <2>1, <2>2, <2>4, <2>11, <2>13
  <1> HIDE DEF P
  <1>4. Nat \subseteq P
    BY <1>2, <1>3, Inductive
  <1>5. ASSUME NEW i \in 0 .. m
        PROVE  Stands(buffer, 0, f[i].bytes)
    <2>1. PICK j \in Nat : j \in 0 .. m /\ m - j = i
      <3>1. m - i \in 0 .. m /\ m - (m - i) = i
        BY <1>1
      <3> QED
        BY <3>1
    <2>2. j \in P
      BY <1>4
    <2> QED
      BY <2>1, <2>2 DEF P
  <1> QED
    BY <1>5

\* Where the i-th record is: its name, its fields, its end.
Placed(buffer, f, i, records, form, x, n, y, z) ==
    /\ x = Len(f[i - 1].bytes) /\ n = RecordName(form, f[i - 1].name) /\ y = x + Len(n)
    /\ z = Len(f[i].bytes) /\ z = y + 10 + Len(records[i].rdata)
    /\ x < z /\ y <= z /\ f[i].name = x
    /\ Stands(buffer, x, n) /\ Fields(buffer, y, records[i])

\* Every record of an answer is at such a place.
LEMMA RecordPlaced ==
    ASSUME NEW buffer, NEW f, NEW m, NEW records, NEW form,
           Served(buffer, f, m, records, form), NEW i \in 1 .. m
    PROVE  \E x \in Nat, y \in Nat, z \in Nat, n \in ByteSeq :
                Placed(buffer, f, i, records, form, x, n, y, z)
  <1>1. m \in Nat /\ buffer \in ByteSeq /\ form \in Forms /\ hostname \in Seq(ByteSeq)
    BY ServedTypes
  <1>2. PICK k \in 0 .. m : k = i - 1 /\ i \in 0 .. m
    BY <1>1
  <1>3. Stands(buffer, 0, f[i].bytes)
    BY <1>2, ServedStands
  <1>4. f[i] = AddRecord(f[k], records[i], form)
    BY <1>2, ServedTypes
  <1>5. PICK acc \in Growing : acc = f[k] /\ acc.bytes \in ByteSeq /\ acc.name \in Nat
    BY ServedTypes
  <1>6. PICK r \in [type : Nat, rdata : ByteSeq] : r = records[i] /\ r.rdata \in ByteSeq
    BY ServedTypes
  <1>7. PICK n \in ByteSeq : n = RecordName(form, acc.name)
    BY <1>1, <1>5, RecordNameType
  <1>8. PICK x \in Nat, s \in Nat, d \in Nat : 
            x = Len(acc.bytes) /\ s = Len(n) /\ d = Len(r.rdata)
    BY <1>5, <1>6, ByteType
  <1>9. PICK y \in Nat : y = x + Len(n)
    BY <1>8
  <1>10. PICK e : e = AddRecord(acc, r, form) /\ e = f[i]
    BY <1>4, <1>5, <1>6
  <1>11. PICK z \in Nat : z = y + 10 + Len(r.rdata)
    BY <1>8
  <1>12. Extended(acc, r, form, e, x, n, y, z)
    BY <1>1, <1>7, <1>8, <1>9, <1>10, <1>11 DEF Extended
  <1>13. /\ e.name = x /\ Len(e.bytes) = z
         /\ Stands(buffer, 0, e.bytes) => Stands(buffer, x, n) /\ Fields(buffer, y, r)
    <2>1. e.name = x /\ Len(e.bytes) = z
      BY <1>1, <1>12, RecordStands
    <2>2. Stands(buffer, 0, e.bytes) => Stands(buffer, x, n)
      BY <1>1, <1>12, RecordStands
    <2>3. Stands(buffer, 0, e.bytes) => Fields(buffer, y, r)
      BY <1>1, <1>12, RecordStands
    <2> QED
      BY <2>1, <2>2, <2>3
  <1>14. x < z /\ y <= z
    BY <1>8, <1>9, <1>11
  <1>15. Placed(buffer, f, i, records, form, x, n, y, z)
    BY <1>2, <1>3, <1>5, <1>6, <1>7, <1>8, <1>9, <1>10, <1>13, <1>11, <1>14, Zenon DEF Placed
  <1> QED
    BY <1>15, Zenon

\* A pointer has two bytes.
LEMMA PointerLen ==
    ASSUME NEW offset \in Nat
    PROVE  Len(Pointer(offset)) = 2
  <1>1. PICK a, b : a = 192 + ((offset \div 256) % 64) /\ b = offset % 256
    OBVIOUS
  <1>2. Pointer(offset) = << a, b >>
    BY <1>1, Zenon DEF Pointer
  <1> QED
    BY <1>2

\* The question of an answer is in the buffer, and the loop over its name ends well.
LEMMA QuestionGoes ==
    ASSUME NEW buffer, NEW f, NEW m, NEW records, NEW form,
           Served(buffer, f, m, records, form),
           NEW s \in Nat, Len(hostname) + 1 <= s, s <= 11
    PROVE  f[0].name = 12 /\ 12 < Len(f[0].bytes) /\ Goes(buffer, 12, s)
  <1>1. /\ buffer \in ByteSeq /\ m \in Nat /\ hostname \in Seq(ByteSeq)
        /\ Len(buffer) \in Nat /\ Len(hostname) \in Nat
    BY ServedTypes
  <1>2. PICK flags \in Nat, x \in Nat : flags = 33152 /\ x = 12
    OBVIOUS
  <1>3. PICK o \in ByteSeq : o = Opening(hostname, flags, m)
    BY <1>1, OpeningStands
  <1>4. PICK n \in Nat : n = Len(EncodeName(hostname))
    BY <1>1, EncodeNameType, ByteType
  <1>5. f[0].bytes = o /\ f[0].name = 12
    <2>1. f[0] = ResponseHead(m)
      BY ServedTypes
    <2>2. ResponseHead(m).name = 12 /\ ResponseHead(m).bytes = Opening(hostname, flags, m)
      BY <1>2 DEF ResponseHead, Opening
    <2> QED
      BY <1>3, <2>1, <2>2
  <1>6. Len(o) = 12 + n + 4
    BY <1>1, <1>3, <1>4, OpeningStands
  <1>7. Stands(buffer, x, EncodeName(hostname))
    <2>1. PICK i \in 0 .. m : i = 0
      BY <1>1
    <2>2. Stands(buffer, 0, f[i].bytes)
      BY ServedStands
    <2>3. Stands(buffer, 0, o)
      BY <1>5, <2>1, <2>2
    <2> QED
      BY <1>1, <1>2, <1>3, <2>3, OpeningStands
  <1>8. /\ Len(buffer) <= 512 /\ Len(o) <= Len(buffer) /\ NiceName(hostname)
    BY <1>5 DEF Served
  <1>9. x + Len(EncodeName(hostname)) <= Len(buffer)
    BY <1>1, <1>2, <1>4, <1>6, <1>8
  <1>10. ASSUME NEW g, NameLoop(g, buffer)
         PROVE  g[s][12].whole = TRUE
    <2>1. s \in Len(hostname) + 1 .. MaxSteps
      BY <1>1 DEF MaxSteps
    <2>2. NameFound(g, buffer, hostname, x, s)
      BY <1>1, <1>7, <1>8, <1>10, <2>1, NameIsFound
    <2>3. WholeAt(g[s][x], hostname, x + Len(EncodeName(hostname)))
      BY <1>9, <2>2 DEF NameFound
    <2> QED
      BY <1>2, <2>3 DEF WholeAt
  <1>11. Goes(buffer, 12, s)
    BY <1>10 DEF Goes
  <1>12. 12 < Len(f[0].bytes)
    BY <1>4, <1>5, <1>6
  <1> QED
    BY <1>5, <1>11, <1>12

\* The names of an answer stand before its end.
LEMMA NameBefore ==
    ASSUME NEW buffer, NEW f, NEW m, NEW records, NEW form,
           Served(buffer, f, m, records, form), NEW i \in 0 .. m
    PROVE  f[i].name < Len(f[i].bytes)
  <1>1. m \in Nat /\ Len(hostname) \in Nat /\ Len(hostname) <= 10
    <2>1. m \in Nat /\ form \in Forms /\ Len(hostname) \in Nat
      BY ServedTypes
    <2>2. BesidesIn(form, m) \in Nat /\ Len(hostname) + BesidesIn(form, m) <= 10
      <3>1. BesidesIn(form, m) \in Nat
        BY <2>1 DEF BesidesIn, Forms
      <3> QED
        BY <3>1 DEF Served
    <2> QED
      BY <2>1, <2>2
  <1>2. CASE i = 0
    <2>1. PICK s \in Nat : s = 11 /\ Len(hostname) + 1 <= s /\ s <= 11
      BY <1>1
    <2> QED
      BY <1>2, <2>1, QuestionGoes
  <1>3. CASE i \in 1 .. m
    <2>1. PICK x \in Nat, y \in Nat, z \in Nat, n \in ByteSeq :
                Placed(buffer, f, i, records, form, x, n, y, z)
      BY <1>3, RecordPlaced
    <2>2. f[i].name = x /\ Len(f[i].bytes) = z /\ x < z
      BY <2>1, Zenon DEF Placed
    <2> QED
      BY <2>2, Zenon
  <1>4. i = 0 \/ i \in 1 .. m
    BY <1>1
  <1> QED
    BY <1>2, <1>3, <1>4

\* Through pointers to pointers the loop comes to the question.
LEMMA ChainedGoes ==
    ASSUME NEW buffer, NEW f, NEW m, NEW records, NEW form,
           Served(buffer, f, m, records, form), form = "chained"
    PROVE  \A i \in Nat : i \in 0 .. m =>
                (Len(f[i].bytes) <= Len(buffer) =>
                    \A s \in Nat : Len(hostname) + 1 + i <= s /\ s <= 11 =>
                        Goes(buffer, f[i].name, s))
  <1> DEFINE Q(i) == Len(f[i].bytes) <= Len(buffer) =>
                        \A s \in Nat : Len(hostname) + 1 + i <= s /\ s <= 11 =>
                            Goes(buffer, f[i].name, s)
             P == {i \in Nat : i \in 0 .. m => Q(i)}
  <1>1. /\ buffer \in ByteSeq /\ m \in Nat /\ Len(buffer) \in Nat
        /\ Len(hostname) \in Nat /\ Len(buffer) <= 512
    BY ServedTypes DEF Served
  <1>2. 0 \in P
    <2>1. ASSUME NEW s \in Nat, Len(hostname) + 1 + 0 <= s, s <= 11
          PROVE  Goes(buffer, f[0].name, s)
      <3>1. Len(hostname) + 1 <= s
        BY <1>1, <2>1
      <3> QED
        BY <2>1, <3>1, QuestionGoes
    <2> QED
      BY <2>1
  <1>3. ASSUME NEW k \in Nat, k \in P
        PROVE  k + 1 \in P
    <2> SUFFICES ASSUME k + 1 \in 0 .. m, Len(f[k + 1].bytes) <= Len(buffer),
                        NEW s \in Nat, Len(hostname) + 1 + (k + 1) <= s, s <= 11
                 PROVE  Goes(buffer, f[k + 1].name, s)
      OBVIOUS
    <2>1. PICK i \in 1 .. m : i = k + 1 /\ i - 1 = k /\ k \in 0 .. m
      BY <1>1
    <2>2. PICK x \in Nat, y \in Nat, z \in Nat, n \in ByteSeq :
                Placed(buffer, f, i, records, form, x, n, y, z)
      BY RecordPlaced
    <2>3. PICK to \in Nat : to = f[k].name /\ to < Len(f[k].bytes)
      BY <2>1, NameBefore, ServedTypes
    <2>4. /\ x = Len(f[k].bytes) /\ z = Len(f[i].bytes) /\ f[i].name = x
          /\ n = RecordName(form, f[k].name) /\ Stands(buffer, x, n)
          /\ x < z /\ y <= z /\ y = x + Len(n)
      BY <2>1, <2>2, Zenon DEF Placed
    <2>5. PICK size \in Nat : size = Len(buffer) /\ size <= 512 /\ z <= size
      BY <1>1, <2>1, <2>4
    <2>6. to \in 0 .. 511 /\ x <= Len(buffer)
      <3>1. to < x
        BY <2>3, <2>4
      <3>2. x < z /\ z <= size /\ size <= 512
        BY <2>4, <2>5
      <3>3. to \in 0 .. 511 /\ x <= size
        BY <3>1, <3>2
      <3> QED
        BY <2>5, <3>3
    <2>7. n = Pointer(to)
      BY <2>3, <2>4 DEF RecordName
    <2>8. PICK t \in Nat : t = s - 1 /\ Len(hostname) + 1 + k <= t /\ t <= 11
      BY <1>1
    <2>9. Goes(buffer, to, t)
      BY <1>3, <2>1, <2>3, <2>4, <2>6, <2>8
    <2>10. Len(n) = 2
      BY <2>7, PointerLen
    <2>11. ASSUME NEW g, NameLoop(g, buffer)
           PROVE  g[s][x].whole = TRUE
      <3>1. PICK e : e = g[s][x]
        OBVIOUS
      <3>2. PICK w \in Nat : w = x + 2
        OBVIOUS
      <3>3. s \in 1 .. MaxSteps
        BY <1>1 DEF MaxSteps
      <3>4. AtPointer(g, buffer, s, x, to, t, w, e)
        BY <2>4, <2>7, <2>8, <2>9, <2>11, <3>1, <3>2, <3>3 DEF AtPointer
      <3>5. Pointed(e, buffer, w)
        BY <1>1, <2>6, <3>4, PointerTurn
      <3>6. w = y
        BY <2>4, <2>10, <3>2
      <3>7. w <= Len(buffer)
        <4>1. y <= z /\ z <= size
          BY <2>4, <2>5, Zenon
        <4>2. y <= size
          BY <4>1
        <4> QED
          BY <2>5, <3>6, <4>2
      <3> QED
        BY <3>1, <3>5, <3>7 DEF Pointed
    <2>12. Goes(buffer, x, s)
      BY <2>11 DEF Goes
    <2> QED
      BY <2>1, <2>4, <2>12
  <1> HIDE DEF P
  <1>4. Nat \subseteq P
    BY <1>2, <1>3, Inductive
  <1> QED
    BY <1>4 DEF P

\* How long the name asked for is, by the form of the answer's names.
LEMMA Room ==
    ASSUME NEW buffer, NEW f, NEW m, NEW records, NEW form,
           Served(buffer, f, m, records, form)
    PROVE  /\ Len(hostname) <= 10
           /\ form = "pointer" => Len(hostname) + 1 <= 10
           /\ form = "chained" => Len(hostname) + m <= 10
           /\ form = "below" => Len(hostname) + 1 <= 9
  <1>1. m \in Nat /\ Len(hostname) \in Nat /\ form \in Forms
    BY ServedTypes
  <1>2. PICK h \in Nat : h = Len(hostname)
    BY <1>1
  <1>3. h + BesidesIn(form, m) <= 10
    BY <1>2 DEF Served
  <1>4. /\ form = "full" => BesidesIn(form, m) = 0
        /\ form = "pointer" => BesidesIn(form, m) = 1
        /\ form = "chained" => BesidesIn(form, m) = m
        /\ form = "below" => BesidesIn(form, m) = 2
    BY DEF BesidesIn
  <1>5. form = "full" \/ form = "pointer" \/ form = "chained" \/ form = "below"
    BY <1>1 DEF Forms
  <1> QED
    BY <1>1, <1>2, <1>3, <1>4, <1>5

\* The name of a record is read, in any form, if it begins in the buffer.
LEMMA NameRead ==
    ASSUME NEW buffer, NEW f, NEW m, NEW records, NEW form,
           Served(buffer, f, m, records, form), NEW i \in 1 .. m,
           NEW x \in Nat, NEW y \in Nat, NEW z \in Nat, NEW n \in ByteSeq,
           Placed(buffer, f, i, records, form, x, n, y, z), x <= Len(buffer)
    PROVE  NameOffset(buffer, x, y)
  <1>1. /\ buffer \in ByteSeq /\ m \in Nat /\ Len(buffer) \in Nat /\ form \in Forms
        /\ Len(hostname) \in Nat /\ hostname \in Seq(ByteSeq)
    BY ServedTypes
  <1>2. Len(buffer) <= 512 /\ NiceName(hostname)
    BY Zenon DEF Served
  <1>3. PICK h \in Nat : h = Len(hostname)
    BY <1>1
  <1>4. PICK k \in 0 .. m : k = i - 1 /\ k + 1 <= m
    BY <1>1
  <1>5. PICK to \in Nat : to = f[k].name
    BY ServedTypes
  <1>6. n = RecordName(form, to) /\ Stands(buffer, x, n) /\ y = x + Len(n)
    BY <1>4, <1>5 DEF Placed
  <1>7. PICK twelve \in Nat : twelve = 12 /\ twelve \in 0 .. 511
    OBVIOUS
  <1>8. CASE form = "full"
    <2>1. n = EncodeName(hostname)
      BY <1>6, <1>8 DEF RecordName
    <2>2. Len(hostname) <= 10
      BY Room
    <2> QED
      BY <1>1, <1>2, <1>6, <2>1, <2>2, FullRead
  <1>9. CASE form = "pointer"
    <2>1. n = Pointer(twelve)
      BY <1>6, <1>7, <1>9 DEF RecordName
    <2>2. PICK s \in Nat : s = 10 /\ Len(hostname) + 1 <= s /\ s <= 11
      BY <1>9, Room
    <2>3. Goes(buffer, twelve, 10)
      BY <1>7, <2>2, QuestionGoes
    <2>4. y = x + 2
      BY <1>6, <2>1, PointerLen
    <2>5. Stands(buffer, x, Pointer(twelve))
      BY <1>6, <2>1, Zenon
    <2> QED
      BY <1>1, <1>7, <2>3, <2>4, <2>5, PointerRead
  <1>10. CASE form = "chained"
    <2>1. n = Pointer(to)
      BY <1>6, <1>10 DEF RecordName
    <2>2. x = Len(f[k].bytes) /\ k \in Nat /\ k \in 0 .. m
      BY <1>1, <1>4 DEF Placed
    <2>3. to < Len(f[k].bytes)
      BY <1>5, NameBefore
    <2>4. to \in 0 .. 511
      BY <1>1, <1>2, <2>2, <2>3
    <2>5. PICK s \in Nat : s = 10 /\ Len(hostname) + 1 + k <= s /\ s <= 11
      <3>1. h + m <= 10
        BY <1>3, <1>10, Room
      <3>2. PICK s \in Nat : s = 10 /\ h + 1 + k <= s /\ s <= 11
        BY <1>1, <1>4, <2>2, <3>1
      <3> QED
        BY <1>3, <3>2
    <2>6. Goes(buffer, f[k].name, s)
      BY <1>10, <2>2, <2>5, ChainedGoes
    <2>7. Goes(buffer, to, 10)
      BY <1>5, <2>5, <2>6
    <2>8. y = x + 2
      BY <1>6, <2>1, PointerLen
    <2>9. Stands(buffer, x, Pointer(to))
      BY <1>6, <2>1, Zenon
    <2> QED
      BY <1>1, <2>4, <2>7, <2>8, <2>9, PointerRead
  <1>11. CASE form = "below"
    <2>1. n = << 1, 120 >> \o Pointer(twelve)
      BY <1>6, <1>7, <1>11 DEF RecordName
    <2>2. PICK s \in Nat : s = 9 /\ Len(hostname) + 1 <= s /\ s <= 11
      BY <1>11, Room
    <2>3. Goes(buffer, twelve, 9)
      BY <1>7, <2>2, QuestionGoes
    <2>4. PICK a \in ByteSeq : a = << 1, 120 >> /\ Len(a) = 2
      <3>1. PICK c \in 0 .. 255, d \in 0 .. 255 : c = 1 /\ d = 120
        OBVIOUS
      <3>2. << c, d >> \in ByteSeq /\ Len(<< c, d >>) = 2
        BY FewBytes
      <3> QED
        BY <3>1, <3>2
    <2>5. PICK b \in ByteSeq : b = Pointer(twelve) /\ Len(b) = 2
      BY PointerType, PointerLen
    <2>6. n = a \o b /\ Len(a \o b) = Len(a) + Len(b)
      BY <2>1, <2>4, <2>5, BytesJoin
    <2>7. Stands(buffer, x, a) /\ Stands(buffer, x + Len(a), b)
      BY <1>1, <1>6, <2>6, StandsSplit
    <2>8. PICK v \in Nat : v = x + 2 /\ v = x + Len(a)
      BY <2>4
    <2>9. y = v + 2
      BY <1>6, <2>4, <2>5, <2>6, <2>8
    <2>10. Stands(buffer, x, << 1, 120 >>) /\ Stands(buffer, v, Pointer(twelve))
      BY <2>4, <2>5, <2>7, <2>8
    <2> QED
      BY <1>1, <1>2, <1>7, <2>3, <2>8, <2>9, <2>10, BelowRead
  <1>12. form = "full" \/ form = "pointer" \/ form = "chained" \/ form = "below"
    BY <1>1 DEF Forms
  <1> QED
    BY <1>8, <1>9, <1>10, <1>11, <1>12, Zenon

-----------------------------------------------------------------------------
\* The parts of an answer end one behind the other.
LEMMA EndsRise ==
    ASSUME NEW buffer, NEW f, NEW m, NEW records, NEW form,
           Served(buffer, f, m, records, form)
    PROVE  \A i \in 0 .. m : Len(f[i].bytes) <= Len(f[m].bytes)
  <1> DEFINE P == {j \in Nat : j \in 0 .. m => Len(f[m - j].bytes) <= Len(f[m].bytes)}
  <1>1. m \in Nat
    BY ServedTypes
  <1>2. PICK last \in Nat : last = Len(f[m].bytes)
    <2>1. m \in 0 .. m
      BY <1>1
    <2> QED
      BY <2>1, ServedTypes
  <1>3. 0 \in P
    BY <1>1, <1>2
  <1>4. ASSUME NEW j \in Nat, j \in P
        PROVE  j + 1 \in P
    <2> SUFFICES ASSUME j + 1 \in 0 .. m
                 PROVE  Len(f[m - (j + 1)].bytes) <= Len(f[m].bytes)
      OBVIOUS
    <2>1. PICK i \in 1 .. m : i = m - j /\ i - 1 = m - (j + 1) /\ j \in 0 .. m
      BY <1>1
    <2>2. PICK x \in Nat, y \in Nat, z \in Nat, n \in ByteSeq :
                Placed(buffer, f, i, records, form, x, n, y, z)
      BY RecordPlaced
    <2>3. x = Len(f[m - (j + 1)].bytes) /\ z = Len(f[m - j].bytes) /\ x < z
      BY <2>1, <2>2, Zenon DEF Placed
    <2>4. z <= last
      BY <1>2, <1>4, <2>1, <2>3
    <2>5. x <= last
      BY <2>3, <2>4
    <2> QED
      BY <1>2, <2>3, <2>5
  <1> HIDE DEF P
  <1>5. Nat \subseteq P
    BY <1>3, <1>4, Inductive
  <1>6. ASSUME NEW i \in 0 .. m
        PROVE  Len(f[i].bytes) <= Len(f[m].bytes)
    <2>1. PICK j \in Nat : j \in 0 .. m /\ m - j = i
      <3>1. m - i \in 0 .. m /\ m - (m - i) = i
        BY <1>1
      <3> QED
        BY <3>1
    <2>2. j \in P
      BY <1>5
    <2> QED
      BY <2>1, <2>2 DEF P
  <1> QED
    BY <1>6

\* A turn of the loop over the records of an answer.
LEMMA TurnRead ==
    ASSUME NEW buffer, NEW f, NEW m, NEW records, NEW form,
           Served(buffer, f, m, records, form), NEW i \in 1 .. m,
           NEW rest \in [Nat -> RecordEnds], NEW x \in Nat, NEW z \in Nat,
           x = Len(f[i - 1].bytes), z = Len(f[i].bytes), x <= Len(buffer)
    PROVE  TurnIs(RecordStep(buffer, rest, x), rest[z], records[i], z, buffer)
  <1>1. buffer \in ByteSeq
    BY ServedTypes
  <1>2. PICK a \in Nat, y \in Nat, c \in Nat, n \in ByteSeq :
            Placed(buffer, f, i, records, form, a, n, y, c)
    BY RecordPlaced
  <1>3. a = x /\ c = z
    BY <1>2, Zenon DEF Placed
  <1>4. Placed(buffer, f, i, records, form, x, n, y, z)
    BY <1>2, <1>3
  <1>5. NameOffset(buffer, x, y)
    BY <1>4, NameRead
  <1>6. PICK r \in [type : Nat, rdata : ByteSeq] : r = records[i]
    BY ServedTypes
  <1>7. Fields(buffer, y, r) /\ z = y + 10 + Len(r.rdata)
    BY <1>4, <1>6, Zenon DEF Placed
  <1>8. Word(r.type) /\ Word(Len(r.rdata))
    BY <1>6 DEF Served
  <1>9. RecordAt(buffer, x, y, r, z)
    BY <1>5, <1>7, <1>8, Zenon DEF RecordAt
  <1>10. TurnIs(RecordStep(buffer, rest, x), rest[z], r, z, buffer)
    BY <1>1, <1>9, RecordRead
  <1> QED
    BY <1>6, <1>10, Zenon

\* What the loop over the last j records comes to: all of them, or an error if the
\* answer is longer than the buffer.
LastRead(e, j, records, m, end, buffer) ==
    /\ end <= Len(buffer) => e.ok = TRUE /\ e.answers = SubSeq(records, m - j + 1, m)
    /\ end > Len(buffer) => e.ok = FALSE

\* The loop over the records, from the last one back to the first.
LEMMA RecordsRead ==
    ASSUME NEW buffer, NEW f, NEW m, NEW records, NEW form,
           Served(buffer, f, m, records, form),
           NEW g, RecordLoop(g, buffer, m), NEW end \in Nat, end = Len(f[m].bytes)
    PROVE  \A j \in Nat : j \in 0 .. m =>
                \A x \in Nat : x = Len(f[m - j].bytes) /\ x <= Len(buffer) =>
                    LastRead(g[j][x], j, records, m, end, buffer)
  <1> DEFINE Q(j) == \A x \in Nat : x = Len(f[m - j].bytes) /\ x <= Len(buffer) =>
                        LastRead(g[j][x], j, records, m, end, buffer)
             P == {j \in Nat : j \in 0 .. m => Q(j)}
  <1>1. /\ buffer \in ByteSeq /\ m \in Nat /\ Len(buffer) \in Nat
        /\ records \in Records /\ m = Len(records)
    BY ServedTypes DEF Served
  <1>2. PICK size \in Nat : size = Len(buffer)
    BY <1>1
  <1>3. 0 \in P
    <2> SUFFICES ASSUME NEW x \in Nat, x = Len(f[m - 0].bytes), x <= Len(buffer)
                 PROVE  LastRead(g[0][x], 0, records, m, end, buffer)
      OBVIOUS
    <2>1. x = end
      BY <1>1
    <2>2. g[0][x] = Unanswered(TRUE)
      BY Zenon DEF RecordLoop
    <2>3. Unanswered(TRUE).ok = TRUE /\ Unanswered(TRUE).answers = <<>>
      BY DEF Unanswered
    <2>4. SubSeq(records, m - 0 + 1, m) = <<>>
      <3> DEFINE T == [type : Nat, rdata : ByteSeq]
      <3>1. records \in Seq(T)
        BY <1>1 DEF Records
      <3> HIDE DEF T
      <3>2. PICK b \in Nat : b = m + 1 /\ b = m - 0 + 1
        BY <1>1
      <3>3. Len(SubSeq(records, b, m)) = 0 /\ SubSeq(records, b, m) \in Seq(T)
        BY <1>1, <3>1, <3>2
      <3>4. SubSeq(records, b, m) = <<>>
        BY <3>3, EmptySeq
      <3> QED
        BY <3>2, <3>4
    <2>5. ~(end > Len(buffer))
      BY <1>2, <2>1
    <2> QED
      BY <2>2, <2>3, <2>4, <2>5, Zenon DEF LastRead
  <1>4. ASSUME NEW j \in Nat, j \in P
        PROVE  j + 1 \in P
    <2> SUFFICES ASSUME j + 1 \in 0 .. m, NEW x \in Nat, x = Len(f[m - (j + 1)].bytes),
                        x <= Len(buffer)
                 PROVE  LastRead(g[j + 1][x], j + 1, records, m, end, buffer)
      OBVIOUS
    <2>1. PICK i \in 1 .. m, k \in 1 .. m : 
            /\ i = m - j /\ i - 1 = m - (j + 1) /\ j \in 0 .. m /\ i \in 0 .. m
            /\ k = j + 1 /\ k - 1 = j /\ m - (j + 1) + 1 = i /\ m - j + 1 = i + 1
      <3>1. /\ m - j \in 1 .. m /\ (m - j) - 1 = m - (j + 1) /\ j \in 0 .. m
            /\ m - j \in 0 .. m /\ j + 1 \in 1 .. m /\ (j + 1) - 1 = j
            /\ m - (j + 1) + 1 = m - j /\ m - j + 1 = (m - j) + 1
        BY <1>1
      <3> QED
        BY <3>1
    <2>2. PICK z \in Nat : z = Len(f[i].bytes)
      BY <2>1, ServedTypes
    <2>3. PICK rest \in [Nat -> RecordEnds] : rest = g[j]
      BY <2>1 DEF RecordLoop
    <2>4. PICK e : e = g[j + 1][x] /\ e = RecordStep(buffer, rest, x)
      <3>1. g[k][x] = RecordStep(buffer, g[k - 1], x)
        BY Zenon DEF RecordLoop
      <3> QED
        BY <2>1, <2>3, <3>1
    <2>5. PICK r : r = records[i]
      OBVIOUS
    <2>6. PICK behind : behind = rest[z]
      OBVIOUS
    <2>7. x = Len(f[i - 1].bytes)
      BY <2>1
    <2>8. TurnIs(e, behind, r, z, buffer)
      <3>1. TurnIs(RecordStep(buffer, rest, x), rest[z], records[i], z, buffer)
        BY <2>2, <2>7, TurnRead
      <3> QED
        BY <2>4, <2>5, <2>6, <3>1
    <2>9. z <= size => LastRead(behind, j, records, m, end, buffer)
      <3>1. Q(j)
        BY <1>4, <2>1
      <3>2. z = Len(f[m - j].bytes)
        BY <2>1, <2>2
      <3> QED
        BY <1>2, <2>3, <2>6, <3>1, <3>2
    <2>10. ASSUME end <= size
           PROVE  e.ok = TRUE /\ e.answers = SubSeq(records, m - (j + 1) + 1, m)
      <3>1. z <= end
        BY <2>1, <2>2, EndsRise
      <3>2. z <= size
        BY <2>10, <3>1
      <3>3. behind.ok = TRUE /\ behind.answers = SubSeq(records, m - j + 1, m)
        BY <1>2, <2>9, <2>10, <3>2, Zenon DEF LastRead
      <3>4. e.ok = TRUE /\ e.answers = << r >> \o SubSeq(records, i + 1, m)
        BY <1>2, <2>1, <2>8, <3>2, <3>3, Zenon DEF TurnIs
      <3>5. << records[i] >> \o SubSeq(records, i + 1, m) = SubSeq(records, i, m)
        <4> DEFINE T == [type : Nat, rdata : ByteSeq]
        <4>1. records \in Seq(T)
          BY <1>1 DEF Records
        <4> HIDE DEF T
        <4> QED
          BY <1>1, <4>1, SubSeqRecursiveFirst
      <3> QED
        BY <2>1, <2>5, <3>4, <3>5, Zenon
    <2>11. ASSUME end > size
           PROVE  e.ok = FALSE
      <3>1. CASE z <= size
        <4>1. behind.ok = FALSE
          BY <1>2, <2>9, <2>11, <3>1, Zenon DEF LastRead
        <4> QED
          BY <1>2, <2>8, <3>1, <4>1, Zenon DEF TurnIs
      <3>2. CASE z > size
        BY <1>2, <2>8, <3>2, Zenon DEF TurnIs
      <3>3. z <= size \/ z > size
        OBVIOUS
      <3> QED
        BY <3>1, <3>2, <3>3
    <2> QED
      BY <1>2, <2>4, <2>10, <2>11, Zenon DEF LastRead
  <1> HIDE DEF P
  <1>5. Nat \subseteq P
    BY <1>3, <1>4, Inductive
  <1> QED
    BY <1>5 DEF P

\* An answer that is whole in the buffer decodes to its records, a cut one is refused.
LEMMA ServedDecodes ==
    ASSUME NEW buffer, NEW f, NEW m, NEW records, NEW form,
           Served(buffer, f, m, records, form)
    PROVE  /\ Len(f[m].bytes) <= Len(buffer) =>
                Decode(buffer).ok = TRUE /\ Decode(buffer).answers = records
           /\ Len(f[m].bytes) > Len(buffer) => Decode(buffer).ok = FALSE
  <1>1. /\ buffer \in ByteSeq /\ m \in Nat /\ Len(buffer) \in Nat /\ NiceName(hostname)
        /\ hostname \in Seq(ByteSeq)
        /\ Word(m) /\ Len(f[0].bytes) <= Len(buffer) /\ m = Len(records)
    BY ServedTypes DEF Served
  <1>2. PICK flags \in Nat : flags = 33152
    OBVIOUS
  <1>3. f[0].bytes = Opening(hostname, flags, m)
    <2>1. f[0] = ResponseHead(m)
      BY ServedTypes
    <2>2. ResponseHead(m).bytes = Opening(hostname, flags, m)
      BY <1>2 DEF ResponseHead, Opening
    <2> QED
      BY <2>1, <2>2
  <1>4. PICK base \in Nat : base = 12 + Len(EncodeName(hostname)) + 4
                                /\ base = Len(f[0].bytes)
    <2>1. Len(f[0].bytes) = 12 + Len(EncodeName(hostname)) + 4
      BY <1>1, <1>3, OpeningStands
    <2>2. 0 \in 0 .. m
      BY <1>1
    <2>3. Len(f[0].bytes) \in Nat
      BY <2>2, ServedTypes
    <2> QED
      BY <2>1, <2>3
  <1>5. Stands(buffer, 0, Opening(hostname, flags, m))
    <2>1. 0 \in 0 .. m
      BY <1>1
    <2>2. Stands(buffer, 0, f[0].bytes)
      BY <2>1, ServedStands
    <2> QED
      BY <1>3, <2>2
  <1>6. Len(hostname) <= 10 /\ base <= Len(buffer)
    BY <1>1, <1>4, Room
  <1>7. PICK a : a = DecodeAnswers(buffer, m, base)
    OBVIOUS
  <1>8. Decode(buffer) = IF ~a.ok THEN Refused
                         ELSE [ok |-> TRUE, questions |-> << hostname >>,
                               answers |-> a.answers]
    <2>1. Decode(buffer) =
                LET b == DecodeAnswers(buffer, m, base)
                IN  IF ~b.ok THEN Refused
                    ELSE [ok |-> TRUE, questions |-> << hostname >>, answers |-> b.answers]
      BY <1>1, <1>4, <1>5, <1>6, OpeningRead
    <2> QED
      BY <1>7, <2>1, Zenon
  <1>9. PICK g : RecordLoop(g, buffer, m) /\ a = g[m][base]
    <2>1. PICK g : /\ RecordLoop(g, buffer, m)
                   /\ \A pos \in Nat : DecodeAnswers(buffer, m, pos) = g[m][pos]
      BY <1>1, RecordLoopIs
    <2> QED
      BY <1>7, <2>1
  <1>10. PICK end \in Nat : end = Len(f[m].bytes)
    <2>1. m \in 0 .. m
      BY <1>1
    <2> QED
      BY <2>1, ServedTypes
  <1>11. LastRead(a, m, records, m, end, buffer)
    <2>1. m \in 0 .. m /\ m - m = 0
      BY <1>1
    <2>2. base = Len(f[m - m].bytes)
      BY <1>4, <2>1
    <2> QED
      BY <1>1, <1>6, <1>9, <1>10, <2>1, <2>2, RecordsRead
  <1>12. SubSeq(records, m - m + 1, m) = records
    <2> DEFINE T == [type : Nat, rdata : ByteSeq]
    <2>1. records \in Seq(T)
      BY DEF Served, Records
    <2> HIDE DEF T
    <2>2. SubSeq(records, 1, Len(records)) = records
      BY <2>1, SubSeqFull
    <2>3. m - m + 1 = 1
      BY <1>1
    <2> QED
      BY <1>1, <2>2, <2>3
  <1>13. /\ end <= Len(buffer) => a.ok = TRUE /\ a.answers = records
         /\ end > Len(buffer) => a.ok = FALSE
    BY <1>11, <1>12, Zenon DEF LastRead
  <1>14. a.ok = TRUE => Decode(buffer).ok = TRUE /\ Decode(buffer).answers = a.answers
    BY <1>8
  <1>15. a.ok = FALSE => Decode(buffer).ok = FALSE
    BY <1>8 DEF Refused
  <1> QED
    BY <1>10, <1>13, <1>14, <1>15, Zenon

\* Names the decoder can follow have labels whose lengths are written as they are.
LEMMA FollowableIs ==
    ASSUME NEW labels \in Seq(ByteSeq), NEW n, Followable(labels, n)
    PROVE  NiceName(labels)
  BY DEF Followable, NiceName, NiceLabel

\* The query and the beginning of an answer differ in the flags and the count.
LEMMA QueryOpens ==
    ASSUME NEW labels \in Seq(ByteSeq)
    PROVE  /\ EncodeQuery(7, labels, 1) = Opening(labels, 256, 0)
           /\ EncodeQuery(7, labels, 1) \in ByteSeq
           /\ Len(EncodeQuery(7, labels, 1)) = 12 + Len(EncodeName(labels)) + 4
  <1>1. EncodeQuery(7, labels, 1) = Opening(labels, 256, 0)
    BY Zenon DEF EncodeQuery, Opening
  <1>2. PICK flags \in Nat, count \in Nat : flags = 256 /\ count = 0
    OBVIOUS
  <1>3. PICK buffer \in ByteSeq : TRUE
    <2>1. <<>> \in ByteSeq
      BY DEF ByteSeq
    <2> QED
      BY <2>1
  <1>4. /\ Opening(labels, flags, count) \in ByteSeq
        /\ Len(Opening(labels, flags, count)) = 12 + Len(EncodeName(labels)) + 4
    BY <1>3, OpeningStands
  <1> QED
    BY <1>1, <1>2, <1>4

\* The query decodes to the name it asks for.
LEMMA QueryDecodes ==
    ASSUME NEW labels \in Seq(ByteSeq), Followable(labels, 0)
    PROVE  Decode(EncodeQuery(7, labels, 1)) =
                [ok |-> TRUE, questions |-> << labels >>, answers |-> <<>>]
  <1>1. PICK buffer \in ByteSeq : buffer = EncodeQuery(7, labels, 1)
    BY QueryOpens
  <1>2. PICK flags \in Nat, count \in Nat : flags = 256 /\ count = 0 /\ Word(count)
    BY DEF Word
  <1>3. NiceName(labels)
    BY FollowableIs
  <1>4. Len(labels) <= 10
    <2>1. Len(labels) + 0 <= 10
      BY DEF Followable
    <2>2. Len(labels) \in Nat
      <3> HIDE DEF ByteSeq
      <3> QED
        OBVIOUS
    <2> QED
      BY <2>1, <2>2
  <1>5. Stands(buffer, 0, Opening(labels, flags, count))
    <2>1. PICK n \in Nat : n = Len(buffer)
      BY ByteType
    <2>2. n \in 0 .. Len(buffer)
      BY <2>1
    <2>3. Stands(buffer, 0, buffer)
      BY <2>2, StandsCut
    <2> QED
      BY <1>1, <1>2, <2>3, QueryOpens
  <1>6. PICK base \in Nat : base = 12 + Len(EncodeName(labels)) + 4 /\ base <= Len(buffer)
    <2>1. Len(buffer) = 12 + Len(EncodeName(labels)) + 4 /\ Len(buffer) \in Nat
      BY <1>1, QueryOpens, ByteType
    <2> QED
      BY <2>1
  <1>7. PICK a : a = DecodeAnswers(buffer, count, base)
    OBVIOUS
  <1>8. Decode(buffer) = IF ~a.ok THEN Refused
                         ELSE [ok |-> TRUE, questions |-> << labels >>,
                               answers |-> a.answers]
    <2>1. Decode(buffer) =
                LET b == DecodeAnswers(buffer, count, base)
                IN  IF ~b.ok THEN Refused
                    ELSE [ok |-> TRUE, questions |-> << labels >>, answers |-> b.answers]
      BY <1>2, <1>3, <1>4, <1>5, <1>6, OpeningRead
    <2> QED
      BY <1>7, <2>1, Zenon
  <1>9. a = Unanswered(TRUE)
    <2>1. PICK g : /\ RecordLoop(g, buffer, count)
                   /\ \A pos \in Nat : DecodeAnswers(buffer, count, pos) = g[count][pos]
      BY RecordLoopIs
    <2>2. g[0][base] = Unanswered(TRUE)
      BY <2>1, Zenon DEF RecordLoop
    <2> QED
      BY <1>2, <1>7, <2>1, <2>2
  <1>10. a.ok = TRUE /\ a.answers = <<>>
    BY <1>9 DEF Unanswered
  <1> QED
    BY <1>1, <1>8, <1>10

\* Of well-formed records, those of type A have an address.
LEMMA AddressesAre ==
    ASSUME NEW records, WellFormed(records)
    PROVE  ARecords(records) = IPv4Addresses(records)
  <1> DEFINE a == [k \in DOMAIN records |->
                     IF records[k].type = 1 /\ Len(records[k].rdata) = 4
                     THEN << records[k].rdata >> ELSE <<>>]
             b == [k \in DOMAIN records |->
                     IF records[k].type = 1 THEN << records[k].rdata >> ELSE <<>>]
  <1>1. a = b
    <2>1. \A k \in DOMAIN records : records[k].type = 1 => Len(records[k].rdata) = 4
      BY DEF WellFormed
    <2> QED
      BY <2>1
  <1>2. ARecords(records) = FlattenSeq(a)
    BY Zenon DEF ARecords
  <1>3. IPv4Addresses(records) = FlattenSeq(b)
    BY Zenon DEF IPv4Addresses
  <1> QED
    BY <1>1, <1>2, <1>3

\* The types of what the server may send.
LEMMA ListTypes ==
    ASSUME NEW records \in RecordLists, WellFormed(records), NEW m, m = Len(records)
    PROVE  /\ records \in Records /\ Word(m)
           /\ \A i \in 1 .. m : Word(records[i].type) /\ Word(Len(records[i].rdata))
  <1> DEFINE S == [type : {1, 5, 28}, rdata : Seq(0 .. 255)]
             T == [type : Nat, rdata : Seq(0 .. 255)]
  <1>1. S \subseteq T
    OBVIOUS
  <1>2. records \in Seq(S)
    BY ResolverAssumption
  <1>3. \A r \in S : Word(r.type) /\ r.rdata \in ByteSeq
    BY DEF Word, ByteSeq
  <1> HIDE DEF S, T
  <1>4. m \in Nat /\ records \in [1 .. m -> S] /\ DOMAIN records = 1 .. m
    BY <1>2
  <1>5. records \in Records
    <2>1. records \in [1 .. m -> T]
      BY <1>1, <1>4
    <2>2. records \in Seq(T)
      BY <1>4, <2>1, FunctionIsSeq
    <2> QED
      BY <2>2 DEF T, Records, ByteSeq
  <1>6. Word(m)
    BY <1>4 DEF Word, WellFormed
  <1>7. ASSUME NEW i \in 1 .. m
        PROVE  Word(records[i].type) /\ Word(Len(records[i].rdata))
    <2>1. PICK r \in S : r = records[i]
      BY <1>4
    <2>2. Word(r.type) /\ r.rdata \in ByteSeq
      BY <1>3
    <2>3. Len(r.rdata) \in Nat
      BY <2>2, ByteType
    <2>4. Len(r.rdata) < 65536
      BY <1>4, <2>1 DEF WellFormed
    <2> QED
      BY <2>1, <2>2, <2>3, <2>4 DEF Word
  <1> QED
    BY <1>5, <1>6, <1>7

\* What the handler is called with for a message.
CallOf(message) ==
    IF message.ok THEN [ok |-> TRUE, addresses |-> ARecords(message.answers)]
    ELSE [ok |-> FALSE, addresses |-> <<>>]

\* What came is an answer of the server.
IsAnswer(records, form, m, f) ==
    /\ answer.records = records /\ answer.form = form
    /\ records \in RecordLists /\ form \in Forms /\ m = Len(records)
    /\ Grows(f, m, records, form) /\ datagram = f[m].bytes

\* What the steps keep besides: an address of the hosts is all that is handed over
\* there; what was sent asks for the name; what came back, unless altered, is an
\* answer of the server, and what was made of it is what it decodes to.
AnswerInv ==
    /\ hosts = "address" =>
        /\ step \in {"start", "posted", "none"} /\ network = "idle" /\ query = <<>>
        /\ \A k \in DOMAIN calls : calls[k].addresses = << HostsAddress >>
    /\ step = "posted" => hosts = "address"
    /\ step = "start" => network = "idle" /\ query = <<>>
    /\ step = "system" => network = "idle" /\ query = <<>>
    /\ step \in {"send", "receive"} \/ network # "idle" \/ query # <<>> =>
            query = EncodeQuery(7, hostname, 1)
    /\ network = "answered" =>
        /\ step \in {"receive", "none"}
        /\ ~answer.altered => \E records, form, m, f : IsAnswer(records, form, m, f)
        /\ step = "none" => calls = << CallOf(Decode(RecvBuffer)) >>

\* The name asked for stays, and how an answer grows.
LEMMA GrowsStays ==
    ASSUME NEW f, NEW m, NEW records, NEW form, Grows(f, m, records, form),
           hostname' = hostname
    PROVE  Grows(f, m, records, form)'
  <1>1. ResponseHead(m)' = ResponseHead(m)
    BY DEF ResponseHead
  <1>2. \A b : RecordName(form, b)' = RecordName(form, b)
    BY Zenon DEF RecordName
  <1>3. \A acc, r : AddRecord(acc, r, form)' = AddRecord(acc, r, form)
    BY <1>2, Zenon DEF AddRecord
  <1>4. /\ f \in [0 .. m -> Growing] /\ f[0] = ResponseHead(m)
        /\ \A i \in 1 .. m : f[i] = AddRecord(f[i - 1], records[i], form)
    BY Zenon DEF Grows
  <1>5. /\ f \in [0 .. m -> Growing] /\ f[0] = ResponseHead(m)'
        /\ \A i \in 1 .. m : f[i] = AddRecord(f[i - 1], records[i], form)'
    BY <1>1, <1>3, <1>4, Zenon
  <1> QED
    BY <1>5, Zenon DEF Grows

\* So an answer stays one.
LEMMA AnswerStays ==
    ASSUME NEW records, NEW form, NEW m, NEW f, IsAnswer(records, form, m, f),
           hostname' = hostname, answer' = answer, datagram' = datagram
    PROVE  IsAnswer(records, form, m, f)'
  <1>1. Grows(f, m, records, form)'
    BY GrowsStays DEF IsAnswer
  <1> QED
    BY <1>1 DEF IsAnswer

\* A step that hands over what was received.
LEMMA ReceivedCalls ==
    ASSUME ResolverInv, Received
    PROVE  calls' = << CallOf(Decode(RecvBuffer)) >> /\ RecvBuffer' = RecvBuffer
  <1>1. calls = <<>>
    BY DEF Received, ResolverInv
  <1>2. Deliver(Decode(RecvBuffer))
    BY Zenon DEF Received
  <1>3. PICK message : message = Decode(RecvBuffer)
    OBVIOUS
  <1>4. calls' = Append(calls, CallOf(message))
    BY <1>2, <1>3 DEF Deliver, Finish, CallOf
  <1>5. \A c : Append(<<>>, c) = << c >>
    OBVIOUS
  <1>6. RecvBuffer' = RecvBuffer
    BY DEF Received, RecvBuffer
  <1> QED
    BY <1>1, <1>3, <1>4, <1>5, <1>6, Zenon

\* A step of the resolver or of the network keeps this.
LEMMA AnswerStep ==
    ASSUME ResolverInv, AnswerInv, ResolverNext
    PROVE  AnswerInv'
  <1> USE DEF given
  <1>1. calls = <<>> /\ DOMAIN calls = {}
    <2>1. calls = <<>>
      BY StepCalls DEF ResolverInv
    <2> QED
      BY <2>1
  <1>2. CASE Resolve
    <2>1. network = "idle" /\ query = <<>> /\ network' = network /\ hosts' = hosts
      BY <1>2 DEF AnswerInv, Resolve
    <2>2. CASE hosts = "address"
      BY <1>1, <1>2, <2>1, <2>2 DEF AnswerInv, Resolve
    <2>3. CASE hosts # "address" /\ step' = "send"
      BY <1>2, <2>1, <2>3 DEF AnswerInv, Resolve, Finish
    <2>4. CASE hosts # "address" /\ step' # "send"
      BY <1>2, <2>1, <2>4 DEF AnswerInv, Resolve, Finish
    <2> QED
      BY <2>2, <2>3, <2>4
  <1>3. CASE Posted
    <2>1. calls' = << [ok |-> TRUE, addresses |-> << HostsAddress >>] >> /\ step' = "none"
      BY <1>1, <1>3 DEF Posted, Finish
    <2>2. \A k \in DOMAIN calls' : calls'[k].addresses = << HostsAddress >>
      BY <2>1
    <2> QED
      BY <1>3, <2>1, <2>2 DEF AnswerInv, Posted
  <1>4. CASE SystemResolved
    BY <1>4 DEF AnswerInv, SystemResolved, Finish
  <1>5. CASE Sent
    BY <1>5 DEF AnswerInv, Sent, Finish
  <1>6. CASE Received
    <2>1. calls' = << CallOf(Decode(RecvBuffer)) >> /\ RecvBuffer' = RecvBuffer
      BY <1>6, ReceivedCalls
    <2>2. step' = "none" /\ step = "receive"
      BY <1>6 DEF Received, Deliver, Finish
    <2>3. hostname' = hostname /\ answer' = answer /\ datagram' = datagram
      BY <1>6 DEF Received
    <2>4. (\E records, form, m, f : IsAnswer(records, form, m, f)) =>
            \E records, form, m, f : IsAnswer(records, form, m, f)'
      BY <2>3, AnswerStays
    <2>5. (\E records, form, m, f : IsAnswer(records, form, m, f)) =>
            (\E records, form, m, f : IsAnswer(records, form, m, f))'
      BY <2>4
    <2>6. calls' = << CallOf(Decode(RecvBuffer))' >>
      BY <2>1
    <2> QED
      BY <1>6, <2>1, <2>2, <2>5, <2>6 DEF AnswerInv, Received
  <1>7. CASE ReceiveFails
    BY <1>7 DEF AnswerInv, ReceiveFails, Finish
  <1>8. CASE ServerAnswers
    <2>1. PICK records \in RecordLists, form \in Forms :
            /\ answer' = [records |-> records, form |-> form, altered |-> FALSE]
            /\ datagram' = Response(records, form)
      BY <1>8 DEF ServerAnswers
    <2>2. answer'.records = records /\ answer'.form = form
      BY <2>1
    <2>3. hostname' = hostname /\ hosts' = hosts /\ step' = "receive" /\ query' = query
      BY <1>8 DEF ServerAnswers
    <2>4. PICK m : m = Len(records)
      OBVIOUS
    <2>5. PICK f : Grows(f, m, records, form) /\ Response(records, form) = f[m].bytes
      BY <2>4, GivenTypes, ResponseGrows
    <2>6. Grows(f, m, records, form)'
      BY <2>3, <2>5, GrowsStays
    <2>7. IsAnswer(records, form, m, f)'
      BY <2>1, <2>2, <2>4, <2>5, <2>6 DEF IsAnswer
    <2>8. (\E u, v, w, h : IsAnswer(u, v, w, h))'
      BY <2>7
    <2> QED
      BY <1>8, <2>3, <2>8 DEF AnswerInv, ServerAnswers
  <1>9. CASE Alter
    <2>1. answer' = [answer EXCEPT !.altered = TRUE] /\ step' = "receive"
      BY <1>9 DEF Alter
    <2>2. answer'.altered = TRUE
      BY <2>1 DEF ResolverInv, ResolverTypeOK
    <2> QED
      BY <1>9, <2>1, <2>2 DEF AnswerInv, Alter
  <1>10. CASE Lost
    BY <1>10 DEF AnswerInv, Lost
  <1> QED
    BY <1>2, <1>3, <1>4, <1>5, <1>6, <1>7, <1>8, <1>9, <1>10 DEF ResolverNext, Resolving

\* What came back is an answer of the server until a byte of it is altered, and
\* what was handed over is what it decodes to.
THEOREM AnswerInvariance == ResolverSpec => [](ResolverInv /\ AnswerInv)
  <1>1. ResolverInit => AnswerInv
    BY DEF ResolverInit, AnswerInv
  <1>2. ResolverInv /\ AnswerInv /\ [ResolverNext]_resolverVars => AnswerInv'
    <2> SUFFICES ASSUME ResolverInv, AnswerInv, [ResolverNext]_resolverVars
                 PROVE  AnswerInv'
      OBVIOUS
    <2>1. CASE ResolverNext
      BY <2>1, AnswerStep
    <2>2. CASE UNCHANGED resolverVars
      <3>1. /\ step' = step /\ calls' = calls /\ network' = network /\ query' = query
            /\ hosts' = hosts /\ hostname' = hostname
            /\ answer' = answer /\ datagram' = datagram
        BY <2>2 DEF resolverVars, given
      <3>2. RecvBuffer' = RecvBuffer
        BY <3>1 DEF RecvBuffer
      <3>3. (\E records, form, m, f : IsAnswer(records, form, m, f)) =>
                (\E records, form, m, f : IsAnswer(records, form, m, f))'
        <4>1. (\E records, form, m, f : IsAnswer(records, form, m, f)) =>
                \E records, form, m, f : IsAnswer(records, form, m, f)'
          BY <3>1, AnswerStays
        <4> QED
          BY <4>1
      <3>4. calls = << CallOf(Decode(RecvBuffer)) >> =>
                calls' = << CallOf(Decode(RecvBuffer))' >>
        BY <3>1, <3>2
      <3> QED
        BY <3>1, <3>3, <3>4 DEF AnswerInv
    <2> QED
      BY <2>1, <2>2
  <1> QED
    BY <1>1, <1>2, ResolverInvariance, PTL DEF ResolverSpec

\* The question is not longer than the answer.
LEMMA StartFirst ==
    ASSUME hostname \in Seq(ByteSeq), NEW form \in Forms, NEW records \in Records,
           NEW m \in Nat, m = Len(records), NEW f, Grows(f, m, records, form),
           NEW start \in Nat, start = Len(f[0].bytes), NEW buffer \in ByteSeq
    PROVE  start <= Len(f[m].bytes)
  <1> DEFINE P == {i \in Nat : i \in 0 .. m => start <= Len(f[i].bytes)}
  <1>1. /\ f \in [0 .. m -> Growing]
        /\ \A i \in 1 .. m : f[i] = AddRecord(f[i - 1], records[i], form)
    BY Zenon DEF Grows
  <1>2. \A i \in 1 .. m : records[i] \in [type : Nat, rdata : ByteSeq]
    <2> DEFINE T == [type : Nat, rdata : ByteSeq]
    <2>1. records \in Seq(T)
      BY DEF Records
    <2> HIDE DEF T
    <2>2. \A i \in 1 .. m : records[i] \in T
      BY <2>1
    <2> QED
      BY <2>2 DEF T
  <1>3. 0 \in P
    OBVIOUS
  <1>4. ASSUME NEW k \in Nat, k \in P
        PROVE  k + 1 \in P
    <2> SUFFICES ASSUME k + 1 \in 0 .. m
                 PROVE  start <= Len(f[k + 1].bytes)
      OBVIOUS
    <2>1. PICK i \in 1 .. m : i = k + 1 /\ i - 1 = k /\ k \in 0 .. m
      OBVIOUS
    <2>2. PICK acc \in Growing : acc = f[k] /\ acc.bytes \in ByteSeq /\ acc.name \in Nat
      BY <1>1, <2>1 DEF Growing
    <2>3. PICK r \in [type : Nat, rdata : ByteSeq] : r = records[i] /\ r.rdata \in ByteSeq
      BY <1>2
    <2>4. PICK n \in ByteSeq : n = RecordName(form, acc.name)
      BY <2>2, RecordNameType
    <2>5. PICK x \in Nat, s \in Nat, d \in Nat :
                x = Len(acc.bytes) /\ s = Len(n) /\ d = Len(r.rdata)
      BY <2>2, <2>3, ByteType
    <2>6. PICK y \in Nat, z \in Nat : y = x + s /\ z = y + 10 + d /\ x <= z
      <3>1. PICK y \in Nat : y = x + s
        OBVIOUS
      <3>2. PICK z \in Nat : z = y + 10 + d
        OBVIOUS
      <3>3. x <= z
        BY <3>1, <3>2
      <3> QED
        BY <3>1, <3>2, <3>3, Zenon
    <2>7. y = x + Len(n) /\ z = y + 10 + Len(r.rdata) /\ x <= z
      BY <2>5, <2>6, Zenon
    <2>8. PICK e : e = AddRecord(acc, r, form) /\ e = f[i]
      BY <1>1, <2>1, <2>2, <2>3
    <2>9. Extended(acc, r, form, e, x, n, y, z)
      BY <2>2, <2>3, <2>4, <2>5, <2>7, <2>8 DEF Extended
    <2>10. Len(e.bytes) = z
      BY <2>9, RecordStands
    <2>11. start <= x
      BY <1>4, <2>1, <2>2, <2>5
    <2> QED
      BY <2>1, <2>7, <2>8, <2>10, <2>11
  <1> HIDE DEF P
  <1>5. Nat \subseteq P
    BY <1>3, <1>4, Inductive
  <1>6. m \in P /\ m \in 0 .. m
    BY <1>5
  <1> QED
    BY <1>6 DEF P

\* What the socket hands over of an answer, from which the question is not cut off, is
\* what ServedDecodes is about.
LEMMA AnswerServed ==
    ASSUME ResolverInv, NEW records, NEW form, NEW m, NEW f, IsAnswer(records, form, m, f),
           Followable(hostname, Besides), WellFormed(records),
           query = EncodeQuery(7, hostname, 1), Len(query) <= RecvSize
    PROVE  /\ Served(RecvBuffer, f, m, records, form)
           /\ Len(datagram) > RecvSize => Len(f[m].bytes) > Len(RecvBuffer)
           /\ ~(Len(datagram) > RecvSize) => Len(f[m].bytes) <= Len(RecvBuffer)
  <1>1. hostname \in Seq(ByteSeq) /\ form \in Forms /\ records \in RecordLists /\ m = Len(records)
    BY GivenTypes DEF IsAnswer
  <1>2. /\ records \in Records /\ Word(m) /\ m \in Nat
        /\ \A i \in 1 .. m : Word(records[i].type) /\ Word(Len(records[i].rdata))
    BY <1>1, ListTypes DEF Word
  <1>3. NiceName(hostname)
    BY <1>1, FollowableIs
  <1>4. Len(hostname) + BesidesIn(form, m) <= 10
    <2>1. Besides = BesidesIn(form, m)
      BY <1>1 DEF Besides, BesidesIn, IsAnswer
    <2> QED
      BY <2>1 DEF Followable
  <1>5. Grows(f, m, records, form) /\ datagram = f[m].bytes
    BY DEF IsAnswer
  <1>6. PICK d \in ByteSeq : d = datagram
    BY DEF ResolverInv, ResolverTypeOK
  <1>7. PICK size \in Nat, room \in Nat : 
            size = Len(datagram) /\ room = RecvSize /\ room <= 512
    BY <1>6, ByteType, ResolverAssumption
  <1>8. PICK start \in Nat : start = Len(f[0].bytes) /\ start = Len(query)
    <2>1. f[0] = ResponseHead(m)
      BY <1>5, Zenon DEF Grows
    <2>2. PICK flags \in Nat : flags = 33152
      OBVIOUS
    <2>3. ResponseHead(m).bytes = Opening(hostname, flags, m)
      BY <2>2 DEF ResponseHead, Opening
    <2>4. Len(Opening(hostname, flags, m)) = 12 + Len(EncodeName(hostname)) + 4
      BY <1>1, <1>2, <1>6, OpeningStands
    <2>5. Len(query) = 12 + Len(EncodeName(hostname)) + 4 /\ query \in ByteSeq
      BY <1>1, QueryOpens
    <2>6. Len(query) \in Nat
      BY <2>5, ByteType
    <2> QED
      BY <2>1, <2>3, <2>4, <2>5, <2>6
  <1>9. start <= room
    BY <1>7, <1>8
  <1>10. CASE size > room
    <2>1. RecvBuffer = SubSeq(datagram, 1, room)
      BY <1>7, <1>10 DEF RecvBuffer
    <2>2. room \in 0 .. Len(d)
      BY <1>6, <1>7, <1>10
    <2>3. /\ Stands(SubSeq(d, 1, room), 0, d) /\ SubSeq(d, 1, room) \in ByteSeq
          /\ Len(SubSeq(d, 1, room)) = room
      BY <2>2, StandsCut
    <2>4. /\ Stands(RecvBuffer, 0, f[m].bytes) /\ RecvBuffer \in ByteSeq
          /\ Len(RecvBuffer) = room
      BY <1>5, <1>6, <2>1, <2>3
    <2>5. Len(RecvBuffer) <= 512 /\ Len(f[0].bytes) <= Len(RecvBuffer)
      BY <1>7, <1>8, <1>9, <2>4
    <2>6. Served(RecvBuffer, f, m, records, form)
      BY <1>1, <1>2, <1>3, <1>4, <1>5, <2>4, <2>5, Zenon DEF Served
    <2>7. Len(f[m].bytes) = size
      BY <1>5, <1>7
    <2> QED
      BY <1>7, <1>10, <2>4, <2>6, <2>7
  <1>11. CASE ~(size > room)
    <2>1. RecvBuffer = datagram
      BY <1>7, <1>11 DEF RecvBuffer
    <2>2. size \in 0 .. Len(d)
      BY <1>6, <1>7
    <2>3. Stands(d, 0, d)
      BY <2>2, StandsCut
    <2>4. /\ Stands(RecvBuffer, 0, f[m].bytes) /\ RecvBuffer \in ByteSeq
          /\ Len(RecvBuffer) = size
      BY <1>5, <1>6, <1>7, <2>1, <2>3
    <2>5. start <= size
      <3>1. start <= Len(f[m].bytes)
        BY <1>1, <1>2, <1>5, <1>6, <1>8, StartFirst
      <3> QED
        BY <1>5, <1>7, <3>1
    <2>6. Len(RecvBuffer) <= 512 /\ Len(f[0].bytes) <= Len(RecvBuffer)
      BY <1>7, <1>8, <1>11, <2>4, <2>5
    <2>7. Served(RecvBuffer, f, m, records, form)
      BY <1>1, <1>2, <1>3, <1>4, <1>5, <2>4, <2>6, Zenon DEF Served
    <2>8. Len(f[m].bytes) = size
      BY <1>5, <1>7
    <2> QED
      BY <1>7, <1>11, <2>4, <2>7, <2>8
  <1> QED
    BY <1>10, <1>11

\* What is sent asks for the name, and decodes to it; what comes back is handed over as
\* it is: all the addresses, in order, or an error if the answer does not fit the
\* buffer.
THEOREM AnswersTrue == ResolverSpec => []AnsweredTrue
  <1>1. ResolverInv /\ AnswerInv => AnsweredTrue
    <2> SUFFICES ASSUME ResolverInv, AnswerInv
                 PROVE  AnsweredTrue
      OBVIOUS
    <2>1. hostname \in Seq(ByteSeq)
      BY GivenTypes
    <2>2. ASSUME query # <<>>, Followable(hostname, 0)
          PROVE  Decode(query) = [ok |-> TRUE, questions |-> << hostname >>,
                                  answers |-> <<>>]
      BY <2>1, <2>2, QueryDecodes DEF AnswerInv
    <2>3. ASSUME NEW k \in DOMAIN calls, hosts = "address"
          PROVE  calls[k].addresses = << HostsAddress >>
      BY <2>3 DEF AnswerInv
    <2>4. ASSUME NEW k \in DOMAIN calls, network = "answered", ~answer.altered,
                 Followable(hostname, Besides), Len(query) <= RecvSize,
                 WellFormed(answer.records)
          PROVE  IF Len(datagram) > RecvSize THEN ~calls[k].ok
                 ELSE calls[k] = [ok |-> TRUE, addresses |-> IPv4Addresses(answer.records)]
      <3>1. step = "none"
        <4>1. calls # <<>>
          OBVIOUS
        <4> QED
          BY <4>1 DEF ResolverInv
      <3>2. calls = << CallOf(Decode(RecvBuffer)) >>
        BY <2>4, <3>1 DEF AnswerInv
      <3>3. calls[k] = CallOf(Decode(RecvBuffer))
        BY <3>2
      <3>4. PICK records, form, m, f : IsAnswer(records, form, m, f)
        BY <2>4 DEF AnswerInv
      <3>5. answer.records = records
        BY <3>4 DEF IsAnswer
      <3>6. query = EncodeQuery(7, hostname, 1)
        BY <2>4 DEF AnswerInv
      <3>7. /\ Served(RecvBuffer, f, m, records, form)
            /\ Len(datagram) > RecvSize => Len(f[m].bytes) > Len(RecvBuffer)
            /\ ~(Len(datagram) > RecvSize) => Len(f[m].bytes) <= Len(RecvBuffer)
        BY <2>4, <3>4, <3>5, <3>6, AnswerServed
      <3>8. PICK message : message = Decode(RecvBuffer)
        OBVIOUS
      <3>9. /\ Len(f[m].bytes) <= Len(RecvBuffer) =>
                    message.ok = TRUE /\ message.answers = records
            /\ Len(f[m].bytes) > Len(RecvBuffer) => message.ok = FALSE
        BY <3>7, <3>8, ServedDecodes
      <3>10. ASSUME Len(datagram) > RecvSize
             PROVE  ~calls[k].ok
        BY <3>3, <3>7, <3>8, <3>9, <3>10 DEF CallOf
      <3>11. ASSUME ~(Len(datagram) > RecvSize)
             PROVE  calls[k] = [ok |-> TRUE, addresses |-> IPv4Addresses(answer.records)]
        <4>1. calls[k] = [ok |-> TRUE, addresses |-> ARecords(records)]
          BY <3>3, <3>7, <3>8, <3>9, <3>11 DEF CallOf
        <4>2. ARecords(records) = IPv4Addresses(records)
          BY <2>4, <3>5, AddressesAre
        <4> QED
          BY <3>5, <4>1, <4>2
      <3> QED
        BY <3>10, <3>11, Zenon
    <2> QED
      BY <2>2, <2>3, <2>4 DEF AnsweredTrue
  <1> QED
    BY <1>1, AnswerInvariance, PTL
=============================================================================
