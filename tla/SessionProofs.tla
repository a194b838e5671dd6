--------------------------- MODULE SessionProofs ---------------------------
(***************************************************************************)
(* Proofs about Session: type correctness, that lifetime, registry and the *)
(* two relay loops agree, and that what is counted is what is relayed, for *)
(* any finite set of sessions and any clients.                             *)
(***************************************************************************)
EXTENDS Session, SequenceLemmas, FiniteSetTheorems

\* What holds of one session, of the values of its variables: o its pending
\* operations, lf its life, st its state, sk and ob its ends, reg whether the
\* manager lists it.  The last three conjuncts are what the invariants lack to
\* be inductive: a session that has not started yet, the reply (or first
\* write) under which ApiClose must not leave the client's end open alone, and
\* a handshake that is over once the relay runs.
SInv(o, lf, st, sk, ob, reg) ==
    /\ reg <=> Busy(o)
    /\ lf = "alive" <=> Busy(o)
    /\ lf = "gone" => sk = "closed" /\ ob # "open"
    /\ AtMostOne(o, SetupOps \cup UploadOps)
    /\ AtMostOne(o, SetupOps \cup DownOps)
    /\ lf = "alive" /\ st = "Streaming" /\ sk = "open" =>
          ob = "open" /\ SomeOf(o, UploadOps) /\ SomeOf(o, DownOps)
    /\ SomeOf(o, {"reply", "initial"} \cup UploadOps \cup DownOps)
          => ob # "null"
    /\ lf = "unborn" => st = "Handshake" /\ sk = "open" /\ ob = "null"
    /\ SomeOf(o, {"reply", "initial"}) /\ sk = "open" => ob = "open"
    /\ SomeOf(o, SetupOps) => st # "Streaming"

LifeInv ==
    \A s \in Sessions :
        SInv(op[s], life[s], state[s], socket[s], outbound[s], s \in connections)

IInv == TypeOK /\ LifeInv

-----------------------------------------------------------------------------
(* Type correctness. *)

\* An operation is started live or doomed, whatever the state of its end.
LEMMA StatusType == \A end : Started(end) \in OpStatus
  BY DEF Started, OpStatus

\* What is written to a peer is a sequence of positions of the stream.
LEMMA UnitsType ==
    ASSUME NEW lo \in Nat, NEW n \in Nat
    PROVE  Units(lo, n) \in Seq(Nat)
  BY DEF Units

\* After keeps the types of what it changes.
LEMMA AfterType ==
    ASSUME TypeOK, NEW s \in Sessions, NEW o \in [Ops -> OpStatus],
           NEW sk \in {"open", "closed"}, NEW ob \in {"null", "open", "closed"},
           After(s, o, sk, ob)
    PROVE  /\ life' \in [Sessions -> {"unborn", "alive", "gone"}]
           /\ op' \in [Sessions -> [Ops -> OpStatus]]
           /\ socket' \in [Sessions -> {"open", "closed"}]
           /\ outbound' \in [Sessions -> {"null", "open", "closed"}]
           /\ connections' \in SUBSET Sessions
  <1>1. Closed(ob) \in {"null", "open", "closed"}
    BY DEF Closed
  <1>2. /\ op \in [Sessions -> [Ops -> OpStatus]]
        /\ life \in [Sessions -> {"unborn", "alive", "gone"}]
        /\ socket \in [Sessions -> {"open", "closed"}]
        /\ outbound \in [Sessions -> {"null", "open", "closed"}]
        /\ connections \in SUBSET Sessions
    BY DEF TypeOK, LifeTypeOK
  <1>3. op' \in [Sessions -> [Ops -> OpStatus]]
    BY <1>2 DEF After
  <1>4. life' \in [Sessions -> {"unborn", "alive", "gone"}]
    BY <1>2 DEF After
  <1>5. socket' \in [Sessions -> {"open", "closed"}]
    BY <1>2 DEF After
  <1>6. outbound' \in [Sessions -> {"null", "open", "closed"}]
    BY <1>1, <1>2 DEF After
  <1>7. connections' \in SUBSET Sessions
    BY <1>2 DEF After
  <1>8. QED
    BY <1>3, <1>4, <1>5, <1>6, <1>7

\* Closing keeps an outbound end among its three states.
LEMMA CloseType ==
    \A end \in {"null", "open", "closed"} : Closed(end) \in {"null", "open", "closed"}
  BY DEF Closed

\* So do the helpers built on it.
LEMMA DropType ==
    ASSUME TypeOK, NEW s \in Sessions, NEW k \in Ops, Drop(s, k)
    PROVE  LifeTypeOK'
  <1>1. /\ [op[s] EXCEPT ![k] = "idle"] \in [Ops -> OpStatus]
        /\ socket[s] \in {"open", "closed"}
        /\ outbound[s] \in {"null", "open", "closed"}
    BY DEF TypeOK, LifeTypeOK, OpStatus
  <1>2. QED
    BY <1>1, AfterType DEF Drop, LifeTypeOK

\* Chain: one handler starts the next operation (do_read, relay loops).
LEMMA ChainType ==
    ASSUME TypeOK, NEW s \in Sessions, NEW k \in Ops, NEW j \in Ops, NEW end,
           Chain(s, k, j, end)
    PROVE  LifeTypeOK'
  <1>1. /\ [op[s] EXCEPT ![k] = "idle", ![j] = Started(end)] \in [Ops -> OpStatus]
        /\ socket[s] \in {"open", "closed"}
        /\ outbound[s] \in {"null", "open", "closed"}
    BY DEF TypeOK, LifeTypeOK, OpStatus, Started
  <1>2. QED
    BY <1>1, AfterType DEF Chain, LifeTypeOK

\* CloseBoth: a relay handler that met an error closes both ends.
LEMMA CloseBothType ==
    ASSUME TypeOK, NEW s \in Sessions, NEW k \in Ops, CloseBoth(s, k)
    PROVE  LifeTypeOK'
  <1>1. /\ [op[s] EXCEPT ![k] = "idle"] \in [Ops -> OpStatus]
        /\ outbound[s] \in {"null", "open", "closed"}
    BY DEF TypeOK, LifeTypeOK, OpStatus
  <1>2. QED
    BY <1>1, AfterType, CloseType DEF CloseBoth, LifeTypeOK

\* The names of the operations; the proofs below only need membership.
LEMMA OpNames ==
    /\ "read" \in Ops /\ "greet" \in Ops /\ "dial" \in Ops /\ "reply" \in Ops
    /\ "initial" \in Ops /\ "c2tRead" \in Ops /\ "c2tWrite" \in Ops
    /\ "t2cRead" \in Ops /\ "t2cWrite" \in Ops
  BY DEF Ops, SetupOps, UploadOps, DownOps

\* handle_connect and handle_connect_http up to the dial keep the types.
LEMMA ConnectType ==
    ASSUME TypeOK, NEW s \in Sessions, NEW dest \in {"asked", "other"},
           Connect(s, dest)
    PROVE  /\ LifeTypeOK'
           /\ routed' \in [Sessions -> {"none", "asked", "other"}]
  <1>1. routed' \in [Sessions -> {"none", "asked", "other"}]
    BY DEF TypeOK, StageTypeOK, Connect
  <1>2. CASE After(s, [op[s] EXCEPT !["read"] = "idle", !["dial"] = "live"],
                   socket[s], outbound[s])
    <2>1. /\ [op[s] EXCEPT !["read"] = "idle", !["dial"] = "live"]
                 \in [Ops -> OpStatus]
          /\ socket[s] \in {"open", "closed"}
          /\ outbound[s] \in {"null", "open", "closed"}
      BY OpNames DEF TypeOK, LifeTypeOK, OpStatus
    <2>2. QED
      BY <1>1, <1>2, <2>1, AfterType DEF LifeTypeOK
  <1>3. CASE Drop(s, "read") \/ CloseBoth(s, "read")
    BY <1>1, <1>3, OpNames, DropType, CloseBothType
  <1>4. QED
    BY <1>2, <1>3 DEF Connect

\* start_relay keeps the types.
LEMMA StartRelayType ==
    ASSUME TypeOK, NEW s \in Sessions, NEW k \in Ops, StartRelay(s, k)
    PROVE  /\ LifeTypeOK'
           /\ state' \in [Sessions -> {"Handshake", "Request", "Streaming"}]
  <1>1. state' \in [Sessions -> {"Handshake", "Request", "Streaming"}]
    BY DEF TypeOK, StageTypeOK, StartRelay
  <1>2. /\ [op[s] EXCEPT ![k] = "idle", !["c2tRead"] = Started(socket[s]),
                         !["t2cRead"] = Started(outbound[s])] \in [Ops -> OpStatus]
        /\ socket[s] \in {"open", "closed"}
        /\ outbound[s] \in {"null", "open", "closed"}
    BY OpNames, StatusType DEF TypeOK, LifeTypeOK, OpStatus
  <1>3. QED
    BY <1>1, <1>2, AfterType DEF StartRelay, LifeTypeOK

\* Each action keeps every part of TypeOK.
LEMMA AcceptType ==
    ASSUME TypeOK, NEW s \in Sessions, Accept(s), SessionAssumption
    PROVE  TypeOK'
  <1>1. LifeTypeOK'
    BY OpNames DEF TypeOK, LifeTypeOK, Accept, OpStatus
  <1>2. ClientTypeOK'
    BY DEF TypeOK, ClientTypeOK, Accept, SessionAssumption
  <1>3. TargetTypeOK' /\ StageTypeOK' /\ BufferTypeOK' /\ CountTypeOK' /\ WroteTypeOK'
    BY DEF TypeOK, TargetTypeOK, StageTypeOK, BufferTypeOK, CountTypeOK,
           WroteTypeOK, Accept, targetVars, bufferVars, countVars, wroteVars
  <1>4. QED
    BY <1>1, <1>2, <1>3 DEF TypeOK

\* The first read of a session, SOCKS or HTTP, keeps TypeOK.
LEMMA ReadHandshakeType ==
    ASSUME TypeOK, NEW s \in Sessions, ReadHandshake(s)
    PROVE  TypeOK'
  <1>1. LifeTypeOK' /\ running' \in BOOLEAN
        /\ routed' \in [Sessions -> {"none", "asked", "other"}]
    <2>1. PICK p \in Cuts(s) : HandleSocks5Handshake(s, p) \/ HandleHttpRequest(s, p)
      BY DEF ReadHandshake
    <2>2. running \in BOOLEAN /\ LifeTypeOK
          /\ routed \in [Sessions -> {"none", "asked", "other"}]
      BY DEF TypeOK, StageTypeOK
    <2>3. CASE HandleSocks5Handshake(s, p)
      BY <2>2, <2>3, OpNames, DropType, ChainType DEF HandleSocks5Handshake
    <2>4. CASE HandleHttpRequest(s, p)
      <3>1. running' \in BOOLEAN
        BY <2>2, <2>4 DEF HandleHttpRequest
      <3>2. CASE Connect(s, "asked") \/ Connect(s, "other")
        BY <3>1, <3>2, ConnectType
      <3>3. CASE Drop(s, "read") /\ UNCHANGED routed
        BY <2>2, <3>1, <3>3, OpNames, DropType
      <3>4. CASE UNCHANGED <<lifeVars, routed>>
        BY <2>2, <3>1, <3>4 DEF lifeVars, LifeTypeOK
      <3>5. QED
        BY <2>4, <3>2, <3>3, <3>4 DEF HandleHttpRequest
    <2>5. QED
      BY <2>1, <2>3, <2>4
  <1>2. BufferTypeOK'
    BY DEF TypeOK, BufferTypeOK, ClientTypeOK, ReadHandshake, Cuts
  <1>3. StageTypeOK'
    BY <1>1 DEF TypeOK, StageTypeOK, ReadHandshake
  <1>4. ClientTypeOK' /\ TargetTypeOK' /\ CountTypeOK' /\ WroteTypeOK'
    BY DEF TypeOK, ClientTypeOK, TargetTypeOK, CountTypeOK, WroteTypeOK,
           ReadHandshake, clientVars, targetVars, countVars, wroteVars
  <1>5. QED
    BY <1>1, <1>2, <1>3, <1>4 DEF TypeOK

\* The read of the SOCKS request keeps TypeOK.
LEMMA ReadRequestType ==
    ASSUME TypeOK, NEW s \in Sessions, ReadRequest(s)
    PROVE  TypeOK'
  <1>1. LifeTypeOK' /\ routed' \in [Sessions -> {"none", "asked", "other"}]
        /\ running' \in BOOLEAN
    <2>1. PICK p \in Cuts(s) : HandleSocks5Request(s, p)
      BY DEF ReadRequest
    <2>2. /\ routed \in [Sessions -> {"none", "asked", "other"}]
          /\ running \in BOOLEAN
      BY DEF TypeOK, StageTypeOK
    <2>3. CASE Drop(s, "read") /\ UNCHANGED <<running, routed>>
      BY <2>2, <2>3, OpNames, DropType
    <2>4. CASE (Connect(s, "asked") \/ Connect(s, "other")) /\ UNCHANGED running
      BY <2>2, <2>4, ConnectType
    <2>5. CASE running' = FALSE /\ UNCHANGED <<lifeVars, routed>>
      BY <2>2, <2>5 DEF TypeOK, LifeTypeOK, lifeVars
    <2>6. QED
      BY <2>1, <2>3, <2>4, <2>5 DEF HandleSocks5Request
  <1>2. BufferTypeOK'
    BY DEF TypeOK, BufferTypeOK, ClientTypeOK, ReadRequest, Cuts
  <1>3. StageTypeOK'
    BY <1>1 DEF TypeOK, StageTypeOK, ReadRequest
  <1>4. ClientTypeOK' /\ TargetTypeOK' /\ CountTypeOK' /\ WroteTypeOK'
    BY DEF TypeOK, ClientTypeOK, TargetTypeOK, CountTypeOK, WroteTypeOK,
           ReadRequest, clientVars, targetVars, countVars, wroteVars
  <1>5. QED
    BY <1>1, <1>2, <1>3, <1>4 DEF TypeOK

\* A handshake read that fails keeps TypeOK.
LEMMA ReadErrorType ==
    ASSUME TypeOK, NEW s \in Sessions, ReadError(s)
    PROVE  TypeOK'
  <1>1. LifeTypeOK'
    BY OpNames, DropType DEF ReadError
  <1>2. ClientTypeOK' /\ TargetTypeOK' /\ StageTypeOK' /\ BufferTypeOK'
        /\ CountTypeOK' /\ WroteTypeOK'
    BY DEF TypeOK, ClientTypeOK, TargetTypeOK, StageTypeOK, BufferTypeOK,
           CountTypeOK, WroteTypeOK, ReadError, clientVars, targetVars,
           bufferVars, countVars, wroteVars
  <1>3. QED
    BY <1>1, <1>2 DEF TypeOK

\* The completion of the method selection reply keeps TypeOK.
LEMMA GreetDoneType ==
    ASSUME TypeOK, NEW s \in Sessions, GreetDone(s)
    PROVE  TypeOK'
  <1>1. LifeTypeOK'
    BY OpNames, DropType, ChainType DEF GreetDone
  <1>2. ClientTypeOK' /\ StageTypeOK'
    BY DEF TypeOK, ClientTypeOK, StageTypeOK, GreetDone
  <1>3. TargetTypeOK' /\ BufferTypeOK' /\ CountTypeOK' /\ WroteTypeOK'
    BY DEF TypeOK, TargetTypeOK, BufferTypeOK, CountTypeOK, WroteTypeOK,
           GreetDone, targetVars, bufferVars, countVars, wroteVars
  <1>4. QED
    BY <1>1, <1>2, <1>3 DEF TypeOK

\* The completion of a dial, in success or error, keeps TypeOK.
LEMMA DialDoneType ==
    ASSUME TypeOK, NEW s \in Sessions, DialDone(s)
    PROVE  TypeOK'
  <1>1. LifeTypeOK'
    <2>1. CASE Drop(s, "dial") \/ CloseBoth(s, "dial")
      BY <2>1, OpNames, DropType, CloseBothType
    <2>2. ASSUME NEW k \in Ops, NEW end,
                 After(s, [op[s] EXCEPT !["dial"] = "idle", ![k] = Started(end)],
                       socket[s], "open")
          PROVE  LifeTypeOK'
      <3>1. /\ [op[s] EXCEPT !["dial"] = "idle", ![k] = Started(end)]
                   \in [Ops -> OpStatus]
            /\ socket[s] \in {"open", "closed"}
        BY DEF TypeOK, LifeTypeOK, OpStatus, Started
      <3>2. QED
        BY <2>2, <3>1, AfterType DEF LifeTypeOK
    <2>3. FirstWrite(kind[s]) \in Ops
      BY OpNames DEF FirstWrite
    <2>4. QED
      BY <2>1, <2>2, <2>3 DEF DialDone
  <1>2. ClientTypeOK' /\ TargetTypeOK' /\ StageTypeOK' /\ BufferTypeOK'
        /\ CountTypeOK' /\ WroteTypeOK'
    BY DEF TypeOK, ClientTypeOK, TargetTypeOK, StageTypeOK, BufferTypeOK,
           CountTypeOK, WroteTypeOK, DialDone, clientVars, targetVars,
           bufferVars, countVars, wroteVars
  <1>3. QED
    BY <1>1, <1>2 DEF TypeOK

\* The completion of the CONNECT reply keeps TypeOK.
LEMMA ReplyDoneType ==
    ASSUME TypeOK, NEW s \in Sessions, ReplyDone(s)
    PROVE  TypeOK'
  <1>1. LifeTypeOK' /\ state' \in [Sessions -> {"Handshake", "Request", "Streaming"}]
    <2>1. state \in [Sessions -> {"Handshake", "Request", "Streaming"}]
      BY DEF TypeOK, StageTypeOK
    <2>2. QED
      BY <2>1, OpNames, DropType, StartRelayType DEF ReplyDone
  <1>2. ClientTypeOK' /\ StageTypeOK'
    BY <1>1 DEF TypeOK, ClientTypeOK, StageTypeOK, ReplyDone
  <1>3. TargetTypeOK' /\ BufferTypeOK' /\ CountTypeOK' /\ WroteTypeOK'
    BY DEF TypeOK, TargetTypeOK, BufferTypeOK, CountTypeOK, WroteTypeOK,
           ReplyDone, targetVars, bufferVars, countVars, wroteVars
  <1>4. QED
    BY <1>1, <1>2, <1>3 DEF TypeOK

\* The completion of a plain request's first write keeps TypeOK.
LEMMA InitialDoneType ==
    ASSUME TypeOK, NEW s \in Sessions, InitialDone(s)
    PROVE  TypeOK'
  <1>1. LifeTypeOK' /\ state' \in [Sessions -> {"Handshake", "Request", "Streaming"}]
    <2>1. state \in [Sessions -> {"Handshake", "Request", "Streaming"}]
      BY DEF TypeOK, StageTypeOK
    <2>2. QED
      BY <2>1, OpNames, DropType, StartRelayType DEF InitialDone
  <1>2. WroteTypeOK'
    <2>1. PICK n \in 0 .. taken[s] :
             toTarget' = [toTarget EXCEPT ![s] = @ \o Units(0, n)]
      <3>1. taken[s] \in 0 .. taken[s]
        BY DEF TypeOK, BufferTypeOK
      <3>2. QED
        BY <3>1 DEF InitialDone
    <2>2. n \in Nat
      BY DEF TypeOK, BufferTypeOK
    <2>3. toTarget[s] \o Units(0, n) \in Seq(Nat)
      BY <2>2, UnitsType DEF TypeOK, WroteTypeOK
    <2>4. QED
      BY <2>1, <2>3 DEF InitialDone, TypeOK, WroteTypeOK
  <1>3. StageTypeOK'
    BY <1>1 DEF TypeOK, StageTypeOK, InitialDone
  <1>4. ClientTypeOK' /\ TargetTypeOK' /\ BufferTypeOK' /\ CountTypeOK'
    BY DEF TypeOK, ClientTypeOK, TargetTypeOK, BufferTypeOK, CountTypeOK,
           InitialDone, clientVars, targetVars, bufferVars, countVars
  <1>5. QED
    BY <1>1, <1>2, <1>3, <1>4 DEF TypeOK

\* A read of the upload loop keeps TypeOK.
LEMMA C2TReadDoneType ==
    ASSUME TypeOK, NEW s \in Sessions, C2TReadDone(s)
    PROVE  TypeOK'
  <1>1. LifeTypeOK'
    BY OpNames, ChainType, CloseBothType DEF C2TReadDone
  <1>2. BufferTypeOK' /\ CountTypeOK'
    BY DEF TypeOK, BufferTypeOK, CountTypeOK, ClientTypeOK, C2TReadDone, Cuts,
           CountUp
  <1>3. ClientTypeOK' /\ TargetTypeOK' /\ StageTypeOK' /\ WroteTypeOK'
    BY DEF TypeOK, ClientTypeOK, TargetTypeOK, StageTypeOK, WroteTypeOK,
           C2TReadDone, clientVars, targetVars, wroteVars
  <1>4. QED
    BY <1>1, <1>2, <1>3 DEF TypeOK

\* A write of the upload loop keeps TypeOK.
LEMMA C2TWriteDoneType ==
    ASSUME TypeOK, NEW s \in Sessions, C2TWriteDone(s)
    PROVE  TypeOK'
  <1>1. LifeTypeOK'
    BY OpNames, ChainType, CloseBothType DEF C2TWriteDone
  <1>2. WroteTypeOK'
    <2>1. PICK n \in 0 .. taken[s] - ubase[s] :
             toTarget' = [toTarget EXCEPT ![s] = @ \o Units(ubase[s], n)]
      BY DEF C2TWriteDone
    <2>2. n \in Nat /\ ubase[s] \in Nat
      BY DEF TypeOK, BufferTypeOK
    <2>3. toTarget[s] \o Units(ubase[s], n) \in Seq(Nat)
      <3>1. Units(ubase[s], n) \in Seq(Nat)
        BY <2>2, UnitsType
      <3>2. toTarget[s] \in Seq(Nat)
        BY DEF TypeOK, WroteTypeOK
      <3>3. QED
        BY <3>1, <3>2
    <2>4. QED
      BY <2>1, <2>3 DEF C2TWriteDone, TypeOK, WroteTypeOK
  <1>3. ClientTypeOK' /\ TargetTypeOK' /\ StageTypeOK' /\ BufferTypeOK' /\ CountTypeOK'
    BY DEF TypeOK, ClientTypeOK, TargetTypeOK, StageTypeOK, BufferTypeOK,
           CountTypeOK, C2TWriteDone, clientVars, targetVars, bufferVars, countVars
  <1>4. QED
    BY <1>1, <1>2, <1>3 DEF TypeOK

\* A read of the download loop keeps TypeOK.
LEMMA T2CReadDoneType ==
    ASSUME TypeOK, NEW s \in Sessions, T2CReadDone(s)
    PROVE  TypeOK'
  <1>1. LifeTypeOK'
    BY OpNames, ChainType, CloseBothType DEF T2CReadDone
  <1>2. BufferTypeOK' /\ CountTypeOK'
    BY DEF TypeOK, BufferTypeOK, CountTypeOK, TargetTypeOK, T2CReadDone,
           CountDown
  <1>3. ClientTypeOK' /\ TargetTypeOK' /\ StageTypeOK' /\ WroteTypeOK'
    BY DEF TypeOK, ClientTypeOK, TargetTypeOK, StageTypeOK, WroteTypeOK,
           T2CReadDone, clientVars, targetVars, wroteVars
  <1>4. QED
    BY <1>1, <1>2, <1>3 DEF TypeOK

\* A write of the download loop keeps TypeOK.
LEMMA T2CWriteDoneType ==
    ASSUME TypeOK, NEW s \in Sessions, T2CWriteDone(s)
    PROVE  TypeOK'
  <1>1. LifeTypeOK'
    BY OpNames, ChainType, CloseBothType DEF T2CWriteDone
  <1>2. WroteTypeOK'
    <2>1. PICK n \in 0 .. ttaken[s] - dbase[s] :
             toClient' = [toClient EXCEPT ![s] = @ \o Units(dbase[s], n)]
      BY DEF T2CWriteDone
    <2>2. n \in Nat /\ dbase[s] \in Nat
      BY DEF TypeOK, BufferTypeOK
    <2>3. toClient[s] \o Units(dbase[s], n) \in Seq(Nat)
      <3>1. Units(dbase[s], n) \in Seq(Nat)
        BY <2>2, UnitsType
      <3>2. toClient[s] \in Seq(Nat)
        BY DEF TypeOK, WroteTypeOK
      <3>3. QED
        BY <3>1, <3>2
    <2>4. QED
      BY <2>1, <2>3 DEF T2CWriteDone, TypeOK, WroteTypeOK
  <1>3. ClientTypeOK' /\ TargetTypeOK' /\ StageTypeOK' /\ BufferTypeOK' /\ CountTypeOK'
    BY DEF TypeOK, ClientTypeOK, TargetTypeOK, StageTypeOK, BufferTypeOK,
           CountTypeOK, T2CWriteDone, clientVars, targetVars, bufferVars, countVars
  <1>4. QED
    BY <1>1, <1>2, <1>3 DEF TypeOK

\* A connection closed through the REST API keeps TypeOK.
LEMMA ApiCloseType ==
    ASSUME TypeOK, NEW s \in Sessions, ApiClose(s)
    PROVE  TypeOK'
  <1>1. LifeTypeOK' /\ StageTypeOK'
    BY CloseType DEF TypeOK, LifeTypeOK, StageTypeOK, ApiClose
  <1>2. ClientTypeOK' /\ TargetTypeOK' /\ BufferTypeOK' /\ CountTypeOK' /\ WroteTypeOK'
    BY DEF TypeOK, ClientTypeOK, TargetTypeOK, BufferTypeOK, CountTypeOK,
           WroteTypeOK, ApiClose, clientVars, targetVars, bufferVars, countVars,
           wroteVars
  <1>3. QED
    BY <1>1, <1>2 DEF TypeOK

\* What clients and targets do keeps TypeOK.
LEMMA EnvironmentType ==
    ASSUME TypeOK, SessionAssumption, NEW s \in Sessions,
           ClientSend(s) \/ ClientEnd(s) \/ TargetSend(s) \/ TargetEnd(s)
    PROVE  TypeOK'
  <1>1. ClientTypeOK'
    <2>1. MsgEnds(kind[s]) \subseteq Nat
      BY DEF SessionAssumption, MsgEnds, Hdr, Total, GreetLen, ReqLen, HttpLen
    <2>2. QED
      BY <2>1 DEF TypeOK, ClientTypeOK, ClientSend, ClientEnd, TargetSend,
                  TargetEnd, clientVars
  <1>2. TargetTypeOK'
    BY DEF TypeOK, TargetTypeOK, ClientSend, ClientEnd, TargetSend, TargetEnd,
           targetVars
  <1>3. LifeTypeOK' /\ StageTypeOK' /\ BufferTypeOK' /\ CountTypeOK' /\ WroteTypeOK'
    BY DEF TypeOK, LifeTypeOK, StageTypeOK, BufferTypeOK, CountTypeOK,
           WroteTypeOK, ClientSend, ClientEnd, TargetSend, TargetEnd, lifeVars,
           bufferVars, countVars, wroteVars
  <1>4. QED
    BY <1>1, <1>2, <1>3 DEF TypeOK

\* A process that has accepted nothing is well typed.
LEMMA InitType == Init => TypeOK
  BY DEF Init, TypeOK, ClientTypeOK, TargetTypeOK, LifeTypeOK, StageTypeOK,
         BufferTypeOK, CountTypeOK, WroteTypeOK, NoOps, OpStatus

\* Every step of the inbound side keeps TypeOK.
LEMMA StepType == TypeOK /\ [Next]_vars => TypeOK'
  <1> SUFFICES ASSUME TypeOK, [Next]_vars PROVE TypeOK'
    OBVIOUS
  <1>1. CASE UNCHANGED vars
    BY <1>1 DEF vars, clientVars, targetVars, lifeVars, bufferVars, countVars,
                wroteVars, TypeOK, ClientTypeOK, TargetTypeOK, LifeTypeOK,
                StageTypeOK, BufferTypeOK, CountTypeOK, WroteTypeOK
  <1>2. CASE Next
    BY <1>2, SessionAssumption, AcceptType, ReadHandshakeType, ReadRequestType,
       ReadErrorType, GreetDoneType, DialDoneType, ReplyDoneType,
       InitialDoneType, C2TReadDoneType, C2TWriteDoneType, T2CReadDoneType,
       T2CWriteDoneType, ApiCloseType, EnvironmentType
       DEF Next
  <1>3. QED
    BY <1>1, <1>2

\* Every variable of Session keeps its type, for any sessions and clients.
THEOREM TypeCorrect == Spec => []TypeOK
  BY InitType, StepType, PTL DEF Spec

-----------------------------------------------------------------------------
(* Lifetime. *)

\* After keeps LifeInv when the session is alive and what the handler leaves
\* behind, if anything, is again a proper session.
LEMMA AfterLife ==
    ASSUME TypeOK, LifeInv, NEW s \in Sessions, NEW o \in [Ops -> OpStatus],
           NEW sk \in {"open", "closed"}, NEW ob \in {"null", "open", "closed"},
           NEW st, state' = [state EXCEPT ![s] = st],
           After(s, o, sk, ob), life[s] = "alive",
           Busy(o) => SInv(o, "alive", st, sk, ob, TRUE)
    PROVE  LifeInv'
  <1>1. /\ op \in [Sessions -> [Ops -> OpStatus]]
        /\ life \in [Sessions -> {"unborn", "alive", "gone"}]
        /\ socket \in [Sessions -> {"open", "closed"}]
        /\ outbound \in [Sessions -> {"null", "open", "closed"}]
        /\ state \in [Sessions -> {"Handshake", "Request", "Streaming"}]
        /\ connections \in SUBSET Sessions
    BY DEF TypeOK, LifeTypeOK, StageTypeOK
  <1>2. ASSUME NEW t \in Sessions
        PROVE  SInv(op[t], life[t], state[t], socket[t], outbound[t],
                    t \in connections)'
    <2>1. SInv(op[t], life[t], state[t], socket[t], outbound[t], t \in connections)
      BY DEF LifeInv
    <2>2. CASE t # s
      <3>1. /\ op'[t] = op[t] /\ life'[t] = life[t] /\ state'[t] = state[t]
            /\ socket'[t] = socket[t] /\ outbound'[t] = outbound[t]
            /\ t \in connections' <=> t \in connections
        BY <1>1, <2>2 DEF After
      <3>2. QED
        BY <2>1, <3>1 DEF SInv
    <2>3. CASE t = s /\ Busy(o)
      <3>1. /\ op'[s] = o /\ life'[s] = "alive" /\ state'[s] = st
            /\ socket'[s] = sk /\ outbound'[s] = ob
            /\ s \in connections'
        <4>1. SInv(op[s], life[s], state[s], socket[s], outbound[s], s \in connections)
          BY <2>1, <2>3
        <4>2. s \in connections
          BY <4>1 DEF SInv
        <4>3. QED
          BY <1>1, <2>3, <4>2 DEF After
      <3>2. QED
        BY <2>3, <3>1 DEF SInv
    <2>4. CASE t = s /\ ~Busy(o)
      <3>1. /\ op'[s] = o /\ life'[s] = "gone"
            /\ socket'[s] = "closed" /\ outbound'[s] = Closed(ob)
            /\ s \notin connections'
        BY <1>1, <2>4 DEF After
      <3>2. \A k \in Ops : o[k] = "idle"
        BY <2>4 DEF Busy, SomeOf
      <3>3. \A k \in SetupOps \cup UploadOps \cup DownOps : o[k] = "idle"
        BY <3>2 DEF Ops
      <3>4. "reply" \in SetupOps /\ "initial" \in SetupOps
        BY DEF SetupOps
      <3>5. /\ AtMostOne(o, SetupOps \cup UploadOps)
            /\ AtMostOne(o, SetupOps \cup DownOps)
        BY <3>3 DEF AtMostOne
      <3>6. /\ ~SomeOf(o, {"reply", "initial"} \cup UploadOps \cup DownOps)
            /\ ~SomeOf(o, {"reply", "initial"})
            /\ ~SomeOf(o, SetupOps)
        BY <3>3, <3>4 DEF SomeOf
      <3>7. Closed(ob) # "open"
        BY DEF Closed
      <3>8. QED
        BY <2>4, <3>1, <3>5, <3>6, <3>7 DEF SInv
    <2>5. QED
      BY <2>2, <2>3, <2>4
  <1>3. QED
    BY <1>2 DEF LifeInv

\* While an operation of the handshake is pending no other is.
LEMMA OnlyOp ==
    ASSUME TypeOK, LifeInv, NEW s \in Sessions, NEW k \in SetupOps,
           op[s][k] # "idle"
    PROVE  /\ \A j \in Ops : j # k => op[s][j] = "idle"
           /\ life[s] = "alive"
           /\ state[s] # "Streaming"
           /\ k \in {"reply", "initial"} =>
                 outbound[s] # "null" /\ (socket[s] = "open" => outbound[s] = "open")
  <1>1. SInv(op[s], life[s], state[s], socket[s], outbound[s], s \in connections)
    BY DEF LifeInv
  <1>2. SomeOf(op[s], SetupOps) /\ Busy(op[s])
    BY DEF SomeOf, Busy, Ops
  <1>3. \A j \in Ops : j # k => op[s][j] = "idle"
    BY <1>1 DEF SInv, AtMostOne, Ops
  <1>4. k \in {"reply", "initial"} =>
           /\ SomeOf(op[s], {"reply", "initial"})
           /\ SomeOf(op[s], {"reply", "initial"} \cup UploadOps \cup DownOps)
    BY DEF SomeOf
  <1>5. QED
    BY <1>1, <1>2, <1>3, <1>4 DEF SInv

\* A session left with one operation of the handshake is a proper one.
LEMMA SetupLeft ==
    ASSUME NEW o \in [Ops -> OpStatus], NEW j \in SetupOps, o[j] # "idle",
           \A k \in Ops : k # j => o[k] = "idle",
           NEW st, st # "Streaming", NEW sk, NEW ob,
           j \in {"reply", "initial"} =>
              ob # "null" /\ (sk = "open" => ob = "open")
    PROVE  SInv(o, "alive", st, sk, ob, TRUE)
  <1>1. \A k \in SetupOps \cup UploadOps \cup DownOps : k # j => o[k] = "idle"
    BY DEF Ops
  <1>2. Busy(o)
    BY DEF Busy, SomeOf, Ops
  <1>3. /\ AtMostOne(o, SetupOps \cup UploadOps)
        /\ AtMostOne(o, SetupOps \cup DownOps)
    BY <1>1 DEF AtMostOne
  <1>4. "reply" \in SetupOps /\ "initial" \in SetupOps
    BY DEF SetupOps
  <1>5. SomeOf(o, {"reply", "initial"} \cup UploadOps \cup DownOps)
           => j \in {"reply", "initial"}
    <2>1. j \notin UploadOps /\ j \notin DownOps
      BY DEF SetupOps, UploadOps, DownOps
    <2>2. QED
      BY <1>1, <1>4, <2>1 DEF SomeOf
  <1>6. SomeOf(o, {"reply", "initial"}) => j \in {"reply", "initial"}
    BY <1>1, <1>4 DEF SomeOf
  <1>7. QED
    BY <1>2, <1>3, <1>5, <1>6 DEF SInv

\* A session left with the two reads of the relay is a proper one.
LEMMA RelayLeft ==
    ASSUME NEW o \in [Ops -> OpStatus],
           o["c2tRead"] # "idle", o["t2cRead"] # "idle",
           \A k \in Ops : k \notin {"c2tRead", "t2cRead"} => o[k] = "idle",
           NEW sk, NEW ob, ob # "null", sk = "open" => ob = "open"
    PROVE  SInv(o, "alive", "Streaming", sk, ob, TRUE)
  <1>1. Busy(o) /\ SomeOf(o, UploadOps) /\ SomeOf(o, DownOps)
    BY DEF Busy, SomeOf, Ops, UploadOps, DownOps
  <1>2. \A k \in SetupOps : o[k] = "idle"
    BY DEF Ops, SetupOps
  <1>3. \A k \in UploadOps : k # "c2tRead" => o[k] = "idle"
    BY DEF Ops, UploadOps
  <1>4. \A k \in DownOps : k # "t2cRead" => o[k] = "idle"
    BY DEF Ops, DownOps
  <1>5. /\ AtMostOne(o, SetupOps \cup UploadOps)
        /\ AtMostOne(o, SetupOps \cup DownOps)
    BY <1>2, <1>3, <1>4 DEF AtMostOne
  <1>6. ~SomeOf(o, SetupOps) /\ ~SomeOf(o, {"reply", "initial"})
    BY <1>2 DEF SomeOf, SetupOps
  <1>7. QED
    BY <1>1, <1>5, <1>6 DEF SInv

\* AfterLife for a handler that changes neither the ends nor the state.
LEMMA AfterSameLife ==
    ASSUME TypeOK, LifeInv, NEW s \in Sessions, NEW o \in [Ops -> OpStatus],
           After(s, o, socket[s], outbound[s]), UNCHANGED state,
           life[s] = "alive",
           Busy(o) => SInv(o, "alive", state[s], socket[s], outbound[s], TRUE)
    PROVE  LifeInv'
  <1> DEFINE sk == socket[s]
             ob == outbound[s]
             st == state[s]
  <1>1. sk \in {"open", "closed"} /\ ob \in {"null", "open", "closed"}
    BY DEF TypeOK, LifeTypeOK
  <1>2. state' = [state EXCEPT ![s] = st]
    BY DEF TypeOK, StageTypeOK
  <1>3. After(s, o, sk, ob) /\ (Busy(o) => SInv(o, "alive", st, sk, ob, TRUE))
    OBVIOUS
  <1> HIDE DEF sk, ob, st
  <1>4. QED
    BY <1>1, <1>2, <1>3, AfterLife

\* Handlers that only log, in the handshake.
LEMMA DropLife ==
    ASSUME TypeOK, LifeInv, NEW s \in Sessions, NEW k \in SetupOps,
           op[s][k] # "idle", Drop(s, k), UNCHANGED state
    PROVE  LifeInv'
  <1> DEFINE o == [op[s] EXCEPT ![k] = "idle"]
  <1>1. /\ o \in [Ops -> OpStatus] /\ k \in Ops
        /\ socket[s] \in {"open", "closed"}
        /\ outbound[s] \in {"null", "open", "closed"}
    BY DEF TypeOK, LifeTypeOK, OpStatus, Ops
  <1>2. life[s] = "alive" /\ \A j \in Ops : j # k => op[s][j] = "idle"
    BY OnlyOp
  <1>3. \A j \in Ops : o[j] = "idle"
    BY <1>1, <1>2 DEF TypeOK, LifeTypeOK
  <1>4. ~Busy(o)
    BY <1>3 DEF Busy, SomeOf
  <1>5. After(s, o, socket[s], outbound[s])
    BY DEF Drop
  <1> HIDE DEF o
  <1>6. QED
    BY <1>1, <1>2, <1>4, <1>5, AfterSameLife

\* Handlers that close both ends, in the handshake.
LEMMA SetupCloseLife ==
    ASSUME TypeOK, LifeInv, NEW s \in Sessions, NEW k \in SetupOps,
           op[s][k] # "idle", CloseBoth(s, k), UNCHANGED state
    PROVE  LifeInv'
  <1> DEFINE o == [op[s] EXCEPT ![k] = "idle"]
  <1>1. /\ o \in [Ops -> OpStatus] /\ k \in Ops
        /\ Closed(outbound[s]) \in {"null", "open", "closed"}
    BY CloseType DEF TypeOK, LifeTypeOK, OpStatus, Ops
  <1>2. life[s] = "alive" /\ \A j \in Ops : j # k => op[s][j] = "idle"
    BY OnlyOp
  <1>3. \A j \in Ops : o[j] = "idle"
    BY <1>1, <1>2 DEF TypeOK, LifeTypeOK
  <1>4. ~Busy(o)
    BY <1>3 DEF Busy, SomeOf
  <1>5. state' = [state EXCEPT ![s] = state[s]]
    BY DEF TypeOK, StageTypeOK
  <1>6. After(s, o, "closed", Closed(outbound[s]))
    BY DEF CloseBoth
  <1> HIDE DEF o
  <1>7. QED
    BY <1>1, <1>2, <1>4, <1>5, <1>6, AfterLife

\* Handlers of the handshake that start the next operation of it.
LEMMA SetupNextLife ==
    ASSUME TypeOK, LifeInv, NEW s \in Sessions, NEW k \in SetupOps,
           NEW j \in SetupOps, k # j, op[s][k] # "idle",
           NEW v \in {"live", "doomed"}, NEW ob \in {"null", "open", "closed"},
           NEW st, st # "Streaming", state' = [state EXCEPT ![s] = st],
           j \in {"reply", "initial"} => ob = "open",
           After(s, [op[s] EXCEPT ![k] = "idle", ![j] = v], socket[s], ob)
    PROVE  LifeInv'
  <1> DEFINE o == [op[s] EXCEPT ![k] = "idle", ![j] = v]
  <1>1. /\ o \in [Ops -> OpStatus] /\ k \in Ops /\ j \in Ops
        /\ socket[s] \in {"open", "closed"}
    BY DEF TypeOK, LifeTypeOK, OpStatus, Ops
  <1>2. life[s] = "alive" /\ \A i \in Ops : i # k => op[s][i] = "idle"
    BY OnlyOp
  <1>3. o[j] # "idle" /\ \A i \in Ops : i # j => o[i] = "idle"
    BY <1>1, <1>2 DEF TypeOK, LifeTypeOK
  <1> HIDE DEF o
  <1>4. SInv(o, "alive", st, socket[s], ob, TRUE)
    BY <1>1, <1>3, SetupLeft
  <1>5. After(s, o, socket[s], ob)
    BY DEF o
  <1>6. QED
    BY <1>1, <1>2, <1>4, <1>5, AfterLife

\* start_relay from a reply or a first write: both loops start, on two open
\* ends or on none.
LEMMA StartRelayLife ==
    ASSUME TypeOK, LifeInv, NEW s \in Sessions, NEW k \in {"reply", "initial"},
           op[s][k] # "idle", StartRelay(s, k)
    PROVE  LifeInv'
  <1> DEFINE o == [op[s] EXCEPT ![k] = "idle",
                                !["c2tRead"] = Started(socket[s]),
                                !["t2cRead"] = Started(outbound[s])]
  <1>1. k \in SetupOps
    BY DEF SetupOps
  <1>2. /\ o \in [Ops -> OpStatus] /\ k \in Ops
        /\ socket[s] \in {"open", "closed"}
        /\ outbound[s] \in {"null", "open", "closed"}
    BY <1>1, OpNames, StatusType DEF TypeOK, LifeTypeOK, OpStatus, Ops
  <1>3. /\ life[s] = "alive" /\ \A i \in Ops : i # k => op[s][i] = "idle"
        /\ outbound[s] # "null" /\ (socket[s] = "open" => outbound[s] = "open")
    BY <1>1, OnlyOp
  <1>4. Started(socket[s]) # "idle" /\ Started(outbound[s]) # "idle"
    BY DEF Started
  <1>5. /\ o["c2tRead"] # "idle" /\ o["t2cRead"] # "idle"
        /\ \A i \in Ops : i \notin {"c2tRead", "t2cRead"} => o[i] = "idle"
    BY <1>2, <1>3, <1>4, OpNames DEF TypeOK, LifeTypeOK
  <1> HIDE DEF o
  <1>6. SInv(o, "alive", "Streaming", socket[s], outbound[s], TRUE)
    BY <1>2, <1>3, <1>5, RelayLeft
  <1>7. /\ After(s, o, socket[s], outbound[s])
        /\ state' = [state EXCEPT ![s] = "Streaming"]
    BY DEF StartRelay, o
  <1>8. QED
    BY <1>2, <1>3, <1>6, <1>7, AfterLife

\* The relay: k and j are the two operations of one loop.
RelayLoop(k, j) ==
    \/ k \in UploadOps /\ j \in UploadOps
    \/ k \in DownOps /\ j \in DownOps

\* While a relay operation is pending the other one of its loop is not, nor is
\* any of the handshake.
LEMMA RelayOp ==
    ASSUME TypeOK, LifeInv, NEW s \in Sessions, NEW k \in UploadOps \cup DownOps,
           op[s][k] # "idle"
    PROVE  /\ life[s] = "alive" /\ outbound[s] # "null"
           /\ \A j \in SetupOps : op[s][j] = "idle"
           /\ \A j \in Ops : RelayLoop(k, j) /\ j # k => op[s][j] = "idle"
  <1>1. SInv(op[s], life[s], state[s], socket[s], outbound[s], s \in connections)
    BY DEF LifeInv
  <1>2. k \in Ops /\ k \notin SetupOps
    BY DEF Ops, SetupOps, UploadOps, DownOps
  <1>3. /\ Busy(op[s])
        /\ SomeOf(op[s], {"reply", "initial"} \cup UploadOps \cup DownOps)
    BY <1>2 DEF SomeOf, Busy
  <1>4. \A j \in SetupOps : op[s][j] = "idle"
    BY <1>1, <1>2 DEF SInv, AtMostOne
  <1>5. \A j \in Ops : RelayLoop(k, j) /\ j # k => op[s][j] = "idle"
    BY <1>1 DEF SInv, AtMostOne, RelayLoop
  <1>6. QED
    BY <1>1, <1>3, <1>4, <1>5 DEF SInv

\* Handlers that go on with their relay loop.
LEMMA RelayNextLife ==
    ASSUME TypeOK, LifeInv, NEW s \in Sessions,
           NEW k \in UploadOps \cup DownOps, NEW j \in UploadOps \cup DownOps,
           RelayLoop(k, j), k # j, op[s][k] # "idle",
           NEW end, Chain(s, k, j, end), UNCHANGED state
    PROVE  LifeInv'
  <1> DEFINE o == [op[s] EXCEPT ![k] = "idle", ![j] = Started(end)]
  <1>1. /\ o \in [Ops -> OpStatus] /\ k \in Ops /\ j \in Ops
        /\ socket[s] \in {"open", "closed"}
        /\ outbound[s] \in {"null", "open", "closed"}
        /\ op[s] \in [Ops -> OpStatus]
    BY StatusType DEF TypeOK, LifeTypeOK, OpStatus, Ops
  <1>2. SInv(op[s], life[s], state[s], socket[s], outbound[s], s \in connections)
    BY DEF LifeInv
  <1>3. /\ life[s] = "alive" /\ outbound[s] # "null"
        /\ \A i \in SetupOps : op[s][i] = "idle"
        /\ op[s][j] = "idle"
    BY <1>1, RelayOp
  <1>4. Started(end) # "idle"
    BY DEF Started
  <1>5. /\ o[k] = "idle" /\ o[j] # "idle"
        /\ \A i \in Ops : i # k /\ i # j => o[i] = op[s][i]
    BY <1>1, <1>4
  <1>6. k \notin SetupOps /\ j \notin SetupOps
    BY DEF SetupOps, UploadOps, DownOps
  <1>7. \A i \in SetupOps : o[i] = "idle"
    BY <1>3, <1>5, <1>6 DEF Ops
  <1>8. Busy(o)
    BY <1>1, <1>5 DEF Busy, SomeOf
  <1>9. SomeOf(op[s], UploadOps) => SomeOf(o, UploadOps)
    BY <1>5 DEF SomeOf, RelayLoop, Ops, UploadOps, DownOps
  <1>10. SomeOf(op[s], DownOps) => SomeOf(o, DownOps)
    BY <1>5 DEF SomeOf, RelayLoop, Ops, UploadOps, DownOps
  <1>11. AtMostOne(o, SetupOps \cup UploadOps)
    BY <1>2, <1>5, <1>7 DEF SInv, AtMostOne, RelayLoop, Ops, UploadOps, DownOps
  <1>12. AtMostOne(o, SetupOps \cup DownOps)
    BY <1>2, <1>5, <1>7 DEF SInv, AtMostOne, RelayLoop, Ops, UploadOps, DownOps
  <1>13. ~SomeOf(o, {"reply", "initial"}) /\ ~SomeOf(o, SetupOps)
    BY <1>7 DEF SomeOf, SetupOps
  <1>14. SInv(o, "alive", state[s], socket[s], outbound[s], TRUE)
    BY <1>2, <1>3, <1>8, <1>9, <1>10, <1>11, <1>12, <1>13 DEF SInv
  <1>15. After(s, o, socket[s], outbound[s])
    BY DEF Chain
  <1> HIDE DEF o
  <1>16. QED
    BY <1>1, <1>3, <1>14, <1>15, AfterSameLife

\* Handlers that end the relay.
LEMMA RelayCloseLife ==
    ASSUME TypeOK, LifeInv, NEW s \in Sessions,
           NEW k \in UploadOps \cup DownOps, op[s][k] # "idle",
           CloseBoth(s, k), UNCHANGED state
    PROVE  LifeInv'
  <1> DEFINE o == [op[s] EXCEPT ![k] = "idle"]
  <1>1. /\ o \in [Ops -> OpStatus] /\ k \in Ops
        /\ Closed(outbound[s]) \in {"null", "open", "closed"}
        /\ op[s] \in [Ops -> OpStatus]
    BY CloseType DEF TypeOK, LifeTypeOK, OpStatus, Ops
  <1>2. SInv(op[s], life[s], state[s], socket[s], outbound[s], s \in connections)
    BY DEF LifeInv
  <1>3. /\ life[s] = "alive" /\ outbound[s] # "null"
        /\ \A i \in SetupOps : op[s][i] = "idle"
    BY RelayOp
  <1>4. Closed(outbound[s]) = "closed"
    BY <1>3 DEF Closed
  <1>5. \A i \in Ops : o[i] # "idle" => op[s][i] # "idle"
    BY <1>1
  <1>6. \A i \in SetupOps : o[i] = "idle"
    BY <1>3, <1>5 DEF Ops
  <1>7. /\ AtMostOne(o, SetupOps \cup UploadOps)
        /\ AtMostOne(o, SetupOps \cup DownOps)
    BY <1>2, <1>5 DEF SInv, AtMostOne, Ops
  <1>8. ~SomeOf(o, {"reply", "initial"}) /\ ~SomeOf(o, SetupOps)
    BY <1>6 DEF SomeOf, SetupOps
  <1>9. Busy(o) => SInv(o, "alive", state[s], "closed", "closed", TRUE)
    BY <1>7, <1>8 DEF SInv
  <1>10. state' = [state EXCEPT ![s] = state[s]]
    BY DEF TypeOK, StageTypeOK
  <1>11. After(s, o, "closed", "closed")
    BY <1>4 DEF CloseBoth
  <1> HIDE DEF o
  <1>12. QED
    BY <1>1, <1>3, <1>9, <1>10, <1>11, AfterLife

\* Connect leaves the dial pending, or nothing.
LEMMA DialStartLife ==
    ASSUME TypeOK, LifeInv, NEW s \in Sessions, op[s]["read"] # "idle",
           NEW st, st # "Streaming", state' = [state EXCEPT ![s] = st],
           NEW ob \in {"null", "open", "closed"},
           After(s, [op[s] EXCEPT !["read"] = "idle", !["dial"] = "live"],
                 socket[s], ob)
    PROVE  LifeInv'
  <1> DEFINE o == [op[s] EXCEPT !["read"] = "idle", !["dial"] = "live"]
  <1>1. "read" \in SetupOps /\ "dial" \in SetupOps
    BY DEF SetupOps
  <1>2. o \in [Ops -> OpStatus] /\ socket[s] \in {"open", "closed"}
    BY OpNames DEF TypeOK, LifeTypeOK, OpStatus
  <1>3. life[s] = "alive" /\ \A i \in Ops : i # "read" => op[s][i] = "idle"
    BY <1>1, OnlyOp
  <1>4. o["dial"] # "idle" /\ \A i \in Ops : i # "dial" => o[i] = "idle"
    BY <1>3, OpNames DEF TypeOK, LifeTypeOK
  <1>5. After(s, o, socket[s], ob)
    OBVIOUS
  <1> HIDE DEF o
  <1>6. SInv(o, "alive", st, socket[s], ob, TRUE)
    BY <1>1, <1>2, <1>4, SetupLeft
  <1>7. QED
    BY <1>2, <1>3, <1>5, <1>6, AfterLife

\* The dial is the one operation left, or the session is given up.
LEMMA ConnectLife ==
    ASSUME TypeOK, LifeInv, NEW s \in Sessions, NEW dest,
           op[s]["read"] # "idle", Connect(s, dest), UNCHANGED state
    PROVE  LifeInv'
  <1>1. "read" \in SetupOps
    BY DEF SetupOps
  <1>2. CASE Drop(s, "read") \/ CloseBoth(s, "read")
    BY <1>1, <1>2, DropLife, SetupCloseLife
  <1>3. CASE After(s, [op[s] EXCEPT !["read"] = "idle", !["dial"] = "live"],
                   socket[s], outbound[s])
    <2> DEFINE ob == outbound[s]
               st == state[s]
    <2>1. ob \in {"null", "open", "closed"}
      BY DEF TypeOK, LifeTypeOK
    <2>2. st # "Streaming"
      BY <1>1, OnlyOp
    <2>3. state' = [state EXCEPT ![s] = st]
      BY DEF TypeOK, StageTypeOK
    <2>4. After(s, [op[s] EXCEPT !["read"] = "idle", !["dial"] = "live"],
                socket[s], ob)
      BY <1>3
    <2> HIDE DEF ob, st
    <2>5. QED
      BY <2>1, <2>2, <2>3, <2>4, DialStartLife
  <1>4. QED
    BY <1>2, <1>3 DEF Connect

\* A chain from one operation of the handshake to the next that is not a reply.
LEMMA SetupChainLife ==
    ASSUME TypeOK, LifeInv, NEW s \in Sessions, NEW k \in SetupOps,
           NEW j \in {"read", "greet"}, k # j, op[s][k] # "idle",
           NEW st, st # "Streaming", state' = [state EXCEPT ![s] = st],
           NEW end, Chain(s, k, j, end)
    PROVE  LifeInv'
  <1> DEFINE ob == outbound[s]
             v  == Started(end)
  <1>1. ob \in {"null", "open", "closed"}
    BY DEF TypeOK, LifeTypeOK
  <1>2. v \in {"live", "doomed"}
    BY DEF Started
  <1>3. j \in SetupOps
    BY DEF SetupOps
  <1>4. After(s, [op[s] EXCEPT ![k] = "idle", ![j] = v], socket[s], ob)
    BY DEF Chain
  <1> HIDE DEF ob, v
  <1>5. QED
    BY <1>1, <1>2, <1>3, <1>4, SetupNextLife

\* A session is registered together with its first read (Session::start).
LEMMA AcceptLife ==
    ASSUME TypeOK, LifeInv, NEW s \in Sessions, Accept(s)
    PROVE  LifeInv'
  <1>1. /\ op \in [Sessions -> [Ops -> OpStatus]]
        /\ life \in [Sessions -> {"unborn", "alive", "gone"}]
        /\ state' = state /\ socket' = socket /\ outbound' = outbound
    BY DEF TypeOK, LifeTypeOK, Accept
  <1>2. ASSUME NEW t \in Sessions
        PROVE  SInv(op[t], life[t], state[t], socket[t], outbound[t],
                    t \in connections)'
    <2>1. SInv(op[t], life[t], state[t], socket[t], outbound[t], t \in connections)
      BY DEF LifeInv
    <2>2. CASE t # s
      <3>1. /\ op'[t] = op[t] /\ life'[t] = life[t]
            /\ t \in connections' <=> t \in connections
        BY <1>1, <2>2 DEF Accept
      <3>2. QED
        BY <1>1, <2>1, <3>1 DEF SInv
    <2>3. CASE t = s
      <3> DEFINE o == [op[s] EXCEPT !["read"] = "live"]
      <3>1. /\ op'[s] = o /\ life'[s] = "alive" /\ s \in connections'
            /\ o \in [Ops -> OpStatus]
        BY <1>1, OpNames DEF Accept, OpStatus
      <3>2. ~Busy(op[s]) /\ state[s] = "Handshake"
        <4>1. life[s] = "unborn"
          BY DEF Accept
        <4>2. QED
          BY <2>1, <2>3, <4>1 DEF SInv
      <3>3. o["read"] # "idle" /\ \A k \in Ops : k # "read" => o[k] = "idle"
        BY <1>1, <3>2, OpNames DEF Busy, SomeOf
      <3>4. "read" \in SetupOps
        BY DEF SetupOps
      <3> DEFINE sk == socket[s]
                 ob == outbound[s]
      <3> HIDE DEF o, sk, ob
      <3>5. SInv(o, "alive", "Handshake", sk, ob, TRUE)
        BY <3>1, <3>3, <3>4, SetupLeft
      <3>6. QED
        BY <1>1, <2>3, <3>1, <3>2, <3>5 DEF SInv, sk, ob
    <2>4. QED
      BY <2>2, <2>3
  <1>3. QED
    BY <1>2 DEF LifeInv

\* The handshake reads leave one operation of the session, or none.
LEMMA ReadLife ==
    ASSUME TypeOK, LifeInv, NEW s \in Sessions,
           ReadHandshake(s) \/ ReadRequest(s) \/ ReadError(s)
    PROVE  LifeInv'
  <1>1. op[s]["read"] # "idle" /\ UNCHANGED state
    BY DEF ReadHandshake, ReadRequest, ReadError, MayFail, AtEof
  <1>2. "read" \in SetupOps
    BY DEF SetupOps
  <1>3. CASE Drop(s, "read")
    BY <1>1, <1>2, <1>3, DropLife
  <1>4. CASE Connect(s, "asked") \/ Connect(s, "other")
    BY <1>1, <1>4, ConnectLife
  <1>5. CASE Chain(s, "read", "greet", socket[s])
    <2> DEFINE st == state[s]
    <2>1. st # "Streaming"
      BY <1>1, <1>2, OnlyOp
    <2>2. state' = [state EXCEPT ![s] = st]
      BY <1>1 DEF TypeOK, StageTypeOK
    <2> HIDE DEF st
    <2>3. QED
      BY <1>1, <1>2, <1>5, <2>1, <2>2, SetupChainLife
  <1>6. CASE UNCHANGED lifeVars
    BY <1>1, <1>6 DEF lifeVars, LifeInv, SInv
  <1>7. CASE ReadHandshake(s)
    <2>1. PICK p \in Cuts(s) : HandleSocks5Handshake(s, p) \/ HandleHttpRequest(s, p)
      BY <1>7 DEF ReadHandshake
    <2>2. QED
      BY <1>3, <1>4, <1>5, <1>6, <2>1
         DEF HandleSocks5Handshake, HandleHttpRequest, lifeVars
  <1>8. CASE ReadRequest(s)
    <2>1. PICK p \in Cuts(s) : HandleSocks5Request(s, p)
      BY <1>8 DEF ReadRequest
    <2>2. QED
      BY <1>3, <1>4, <1>6, <2>1 DEF HandleSocks5Request, lifeVars
  <1>9. CASE ReadError(s)
    BY <1>3, <1>9 DEF ReadError
  <1>10. QED
    BY <1>7, <1>8, <1>9

\* So does the completion of the method selection reply.
LEMMA GreetDoneLife ==
    ASSUME TypeOK, LifeInv, NEW s \in Sessions, GreetDone(s)
    PROVE  LifeInv'
  <1>1. "greet" \in SetupOps
    BY DEF SetupOps
  <1>2. CASE /\ op[s]["greet"] = "live"
             /\ state' = [state EXCEPT ![s] = "Request"]
             /\ Chain(s, "greet", "read", socket[s])
    BY <1>1, <1>2, SetupChainLife
  <1>3. CASE /\ MayFail(s, "greet", socket[s], cli[s])
             /\ Drop(s, "greet") /\ UNCHANGED state
    BY <1>1, <1>3, DropLife DEF MayFail
  <1>4. QED
    BY <1>2, <1>3 DEF GreetDone

\* A dial that succeeds sets outbound_conn_ before the operation that uses
\* it starts; one that fails ends the session.
LEMMA DialDoneLife ==
    ASSUME TypeOK, LifeInv, NEW s \in Sessions, DialDone(s)
    PROVE  LifeInv'
  <1>1. op[s]["dial"] # "idle" /\ UNCHANGED state /\ "dial" \in SetupOps
    BY DEF DialDone, SetupOps
  <1>2. CASE Drop(s, "dial") \/ CloseBoth(s, "dial")
    BY <1>1, <1>2, DropLife, SetupCloseLife
  <1>3. ASSUME NEW k \in {"reply", "initial"}, NEW end,
               After(s, [op[s] EXCEPT !["dial"] = "idle", ![k] = Started(end)],
                     socket[s], "open")
        PROVE  LifeInv'
    <2> DEFINE st == state[s]
               v  == Started(end)
    <2>1. st # "Streaming"
      BY <1>1, OnlyOp
    <2>2. state' = [state EXCEPT ![s] = st]
      BY <1>1 DEF TypeOK, StageTypeOK
    <2>3. v \in {"live", "doomed"} /\ k \in SetupOps
      BY DEF Started, SetupOps
    <2>4. After(s, [op[s] EXCEPT !["dial"] = "idle", ![k] = v], socket[s], "open")
      BY <1>3
    <2> HIDE DEF st, v
    <2>5. QED
      BY <1>1, <2>1, <2>2, <2>3, <2>4, SetupNextLife
  <1>4. FirstWrite(kind[s]) \in {"reply", "initial"}
    BY DEF FirstWrite
  <1>5. QED
    BY <1>2, <1>3, <1>4 DEF DialDone

\* The reply, or the first write, hands over to both relay loops at once.
LEMMA RelayStartLife ==
    ASSUME TypeOK, LifeInv, NEW s \in Sessions, ReplyDone(s) \/ InitialDone(s)
    PROVE  LifeInv'
  <1>1. "reply" \in SetupOps /\ "initial" \in SetupOps
    BY DEF SetupOps
  <1>2. ASSUME NEW k \in {"reply", "initial"}, op[s][k] = "live", StartRelay(s, k)
        PROVE  LifeInv'
    BY <1>2, StartRelayLife
  <1>3. ASSUME NEW k \in {"reply", "initial"}, op[s][k] # "idle",
               Drop(s, k), UNCHANGED state
        PROVE  LifeInv'
    BY <1>1, <1>3, DropLife
  <1>4. CASE ReplyDone(s)
    BY <1>2, <1>3, <1>4 DEF ReplyDone, MayFail
  <1>5. CASE InitialDone(s)
    BY <1>2, <1>3, <1>5 DEF InitialDone, MayFail
  <1>6. QED
    BY <1>4, <1>5

\* Each relay loop goes on alone, and an error in one closes both ends.
LEMMA RelayLife ==
    ASSUME TypeOK, LifeInv, NEW s \in Sessions,
           C2TReadDone(s) \/ C2TWriteDone(s) \/ T2CReadDone(s) \/ T2CWriteDone(s)
    PROVE  LifeInv'
  <1>1. UNCHANGED state
    BY DEF C2TReadDone, C2TWriteDone, T2CReadDone, T2CWriteDone
  <1>2. ASSUME NEW k \in UploadOps \cup DownOps, op[s][k] # "idle", CloseBoth(s, k)
        PROVE  LifeInv'
    BY <1>1, <1>2, RelayCloseLife
  <1>3. ASSUME NEW k \in UploadOps \cup DownOps, NEW j \in UploadOps \cup DownOps,
               RelayLoop(k, j), k # j, op[s][k] # "idle", NEW end,
               Chain(s, k, j, end)
        PROVE  LifeInv'
    BY <1>1, <1>3, RelayNextLife
  <1>4. /\ RelayLoop("c2tRead", "c2tWrite") /\ RelayLoop("c2tWrite", "c2tRead")
        /\ RelayLoop("t2cRead", "t2cWrite") /\ RelayLoop("t2cWrite", "t2cRead")
        /\ {"c2tRead", "c2tWrite", "t2cRead", "t2cWrite"} \subseteq UploadOps \cup DownOps
    BY DEF RelayLoop, UploadOps, DownOps
  <1>5. CASE C2TReadDone(s)
    <2>1. op[s]["c2tRead"] # "idle"
      BY <1>5 DEF C2TReadDone, MayFail, AtEof
    <2>2. QED
      BY <1>2, <1>3, <1>4, <1>5, <2>1 DEF C2TReadDone
  <1>6. CASE C2TWriteDone(s)
    <2>1. op[s]["c2tWrite"] # "idle"
      BY <1>6 DEF C2TWriteDone, MayFail
    <2>2. QED
      BY <1>2, <1>3, <1>4, <1>6, <2>1 DEF C2TWriteDone
  <1>7. CASE T2CReadDone(s)
    <2>1. op[s]["t2cRead"] # "idle"
      BY <1>7 DEF T2CReadDone, MayFail, AtEof
    <2>2. QED
      BY <1>2, <1>3, <1>4, <1>7, <2>1 DEF T2CReadDone
  <1>8. CASE T2CWriteDone(s)
    <2>1. op[s]["t2cWrite"] # "idle"
      BY <1>8 DEF T2CWriteDone, MayFail
    <2>2. QED
      BY <1>2, <1>3, <1>4, <1>8, <2>1 DEF T2CWriteDone
  <1>9. QED
    BY <1>5, <1>6, <1>7, <1>8

\* Session::close disturbs no pending operation, so the registry stays exact.
LEMMA ApiCloseLife ==
    ASSUME TypeOK, LifeInv, NEW s \in Sessions, ApiClose(s)
    PROVE  LifeInv'
  <1>1. /\ op' = op /\ life' = life /\ state' = state
        /\ connections' = connections /\ s \in connections
        /\ \A t \in Sessions : t # s =>
              socket'[t] = socket[t] /\ outbound'[t] = outbound[t]
        /\ socket'[s] = "closed" /\ outbound'[s] = Closed(outbound[s])
    BY DEF ApiClose, TypeOK, LifeTypeOK
  <1>2. Closed(outbound[s]) # "open" /\ (outbound[s] # "null" => Closed(outbound[s]) # "null")
    BY DEF Closed
  <1>3. ASSUME NEW t \in Sessions
        PROVE  SInv(op[t], life[t], state[t], socket[t], outbound[t],
                    t \in connections)'
    <2>1. SInv(op[t], life[t], state[t], socket[t], outbound[t], t \in connections)
      BY DEF LifeInv
    <2>2. CASE t # s
      BY <1>1, <2>1, <2>2 DEF SInv
    <2>3. CASE t = s
      <3>1. life[s] = "alive"
        BY <1>1, <2>1, <2>3 DEF SInv
      <3>2. QED
        BY <1>1, <1>2, <2>1, <2>3, <3>1 DEF SInv
    <2>4. QED
      BY <2>2, <2>3
  <1>4. QED
    BY <1>3 DEF LifeInv

\* Before the first connection every session is unborn and unlisted.
LEMMA InitLife == Init => LifeInv
  <1> SUFFICES ASSUME Init, NEW s \in Sessions
               PROVE  SInv(op[s], life[s], state[s], socket[s], outbound[s],
                           s \in connections)
    BY DEF LifeInv
  <1>1. /\ op[s] = NoOps /\ life[s] = "unborn" /\ state[s] = "Handshake"
        /\ socket[s] = "open" /\ outbound[s] = "null" /\ s \notin connections
    BY DEF Init
  <1>2. \A k \in Ops : NoOps[k] = "idle"
    BY DEF NoOps
  <1>3. \A k \in SetupOps \cup UploadOps \cup DownOps : NoOps[k] = "idle"
    BY <1>2 DEF Ops
  <1>4. "reply" \in SetupOps /\ "initial" \in SetupOps
    BY DEF SetupOps
  <1>5. /\ ~Busy(NoOps) /\ ~SomeOf(NoOps, SetupOps)
        /\ ~SomeOf(NoOps, {"reply", "initial"})
        /\ ~SomeOf(NoOps, {"reply", "initial"} \cup UploadOps \cup DownOps)
    BY <1>2, <1>3, <1>4 DEF Busy, SomeOf
  <1>6. /\ AtMostOne(NoOps, SetupOps \cup UploadOps)
        /\ AtMostOne(NoOps, SetupOps \cup DownOps)
    BY <1>3 DEF AtMostOne
  <1>7. QED
    BY <1>1, <1>5, <1>6 DEF SInv

\* Every step of the inbound side keeps the lifetime invariant.
LEMMA StepLife == TypeOK /\ LifeInv /\ [Next]_vars => LifeInv'
  <1> SUFFICES ASSUME TypeOK, LifeInv, [Next]_vars PROVE LifeInv'
    OBVIOUS
  <1>1. CASE UNCHANGED <<lifeVars, state>>
    BY <1>1 DEF lifeVars, LifeInv, SInv
  <1>2. CASE UNCHANGED vars
    BY <1>1, <1>2 DEF vars
  <1>3. ASSUME NEW s \in Sessions,
               ClientSend(s) \/ ClientEnd(s) \/ TargetSend(s) \/ TargetEnd(s)
        PROVE  LifeInv'
    BY <1>1, <1>3 DEF ClientSend, ClientEnd, TargetSend, TargetEnd
  <1>4. CASE Next
    BY <1>3, <1>4, AcceptLife, ReadLife, GreetDoneLife, DialDoneLife,
       RelayStartLife, RelayLife, ApiCloseLife DEF Next
  <1>5. QED
    BY <1>2, <1>4

\* The inductive invariant: well typed, and for each session its pending
\* operations, registry entry and two ends agree (session.cpp).
THEOREM Lifetime == Spec => []IInv
  <1>1. Init => IInv
    BY InitType, InitLife DEF IInv
  <1>2. IInv /\ [Next]_vars => IInv'
    BY StepType, StepLife DEF IInv
  <1>3. QED
    BY <1>1, <1>2, PTL DEF Spec

\* The manager lists a session exactly while a handler keeps it alive.
THEOREM RegistryIsExact == Spec => []RegistryExact
  <1>1. IInv => RegistryExact
    BY DEF IInv, LifeInv, SInv, RegistryExact
  <1>2. QED
    BY <1>1, Lifetime, PTL

\* No buffer and no direction of a socket has two operations at a time.
THEOREM BuffersAreExclusive == Spec => []OneOpPerBuffer
  <1>1. IInv => OneOpPerBuffer
    BY DEF IInv, LifeInv, SInv, OneOpPerBuffer
  <1>2. QED
    BY <1>1, Lifetime, PTL

\* A streaming session with its client's end open relays both ways.
THEOREM RelayIsPaired == Spec => []RelayPaired
  <1>1. IInv => RelayPaired
    BY DEF IInv, LifeInv, SInv, RelayPaired
  <1>2. QED
    BY <1>1, Lifetime, PTL

\* No handler that uses outbound_conn_ is pending while it is null.
THEOREM OutboundIsReady == Spec => []OutboundReady
  <1>1. IInv => OutboundReady
    BY DEF IInv, LifeInv, SInv, OutboundReady
  <1>2. QED
    BY <1>1, Lifetime, PTL

-----------------------------------------------------------------------------
(* The sum over a finite set that SumFunction stands for. *)

Pick(T) == CHOOSE x \in T : TRUE

\* h[T] is the sum of f over T, for the subsets T of S of up to k members.
Sums(h, f, S, k) ==
    \A T \in SUBSET S : Cardinality(T) <= k =>
        h[T] = IF T = {} THEN 0 ELSE f[Pick(T)] + h[T \ {Pick(T)}]

\* A set that is not empty loses one member with its pick.
LEMMA PickLeaves ==
    ASSUME NEW S, IsFiniteSet(S), NEW T \in SUBSET S
    PROVE  /\ IsFiniteSet(T) /\ Cardinality(T) \in Nat
           /\ Cardinality(T) <= Cardinality(S)
           /\ T # {} => /\ Pick(T) \in T /\ T \ {Pick(T)} \in SUBSET S
                        /\ Cardinality(T \ {Pick(T)}) = Cardinality(T) - 1
                        /\ Cardinality(T \ {Pick(T)}) \in Nat
  <1>1. IsFiniteSet(T) /\ Cardinality(T) <= Cardinality(S)
    BY FS_Subset
  <1>2. Cardinality(T) \in Nat
    BY <1>1, FS_CardinalityType
  <1>3. ASSUME T # {}
        PROVE  /\ Pick(T) \in T /\ T \ {Pick(T)} \in SUBSET S
               /\ Cardinality(T \ {Pick(T)}) = Cardinality(T) - 1
               /\ Cardinality(T \ {Pick(T)}) \in Nat
    <2>1. PICK x : x = Pick(T)
      OBVIOUS
    <2>2. x \in T
      BY <1>3, <2>1 DEF Pick
    <2>3. IsFiniteSet(T \ {x}) /\ Cardinality(T \ {x}) = Cardinality(T) - 1
      BY <1>1, <2>2, FS_RemoveElement
    <2>4. Cardinality(T \ {x}) \in Nat
      BY <2>3, FS_CardinalityType
    <2> QED
      BY <2>1, <2>2, <2>3, <2>4
  <1> QED
    BY <1>1, <1>2, <1>3

\* What holds of the empty set, and of a set when it holds without the pick,
\* holds of every subset of a finite set.
LEMMA PickInduction ==
    ASSUME NEW S, IsFiniteSet(S), NEW Q, {} \in Q,
           \A T \in SUBSET S : T # {} /\ T \ {Pick(T)} \in Q => T \in Q
    PROVE  SUBSET S \subseteq Q
  <1> DEFINE P == {k \in Nat : \A T \in SUBSET S : Cardinality(T) = k => T \in Q}
  <1>1. 0 \in P
    <2> SUFFICES ASSUME NEW T \in SUBSET S, Cardinality(T) = 0
                 PROVE  T \in Q
      OBVIOUS
    <2>1. T = {}
      BY PickLeaves, FS_EmptySet
    <2> QED
      BY <2>1
  <1>2. ASSUME NEW k \in Nat, k \in P
        PROVE  k + 1 \in P
    <2> SUFFICES ASSUME NEW T \in SUBSET S, Cardinality(T) = k + 1
                 PROVE  T \in Q
      OBVIOUS
    <2>1. T # {}
      <3>1. Cardinality({}) = 0
        BY FS_EmptySet
      <3> QED
        BY <3>1
    <2>2. T \ {Pick(T)} \in SUBSET S /\ Cardinality(T \ {Pick(T)}) = k
      BY <2>1, PickLeaves
    <2> QED
      BY <1>2, <2>1, <2>2
  <1> HIDE DEF P
  <1>3. Nat \subseteq P
    BY <1>1, <1>2, Inductive
  <1>4. ASSUME NEW T \in SUBSET S
        PROVE  T \in Q
    BY <1>3, PickLeaves DEF P
  <1> QED
    BY <1>4

\* There are such sums.
LEMMA SumsExist ==
    ASSUME NEW S, IsFiniteSet(S), NEW f \in [S -> Nat]
    PROVE  \E h \in [SUBSET S -> Nat] : Sums(h, f, S, Cardinality(S))
  <1> DEFINE P == {k \in Nat : \E h \in [SUBSET S -> Nat] : Sums(h, f, S, k)}
  <1>1. 0 \in P
    <2>1. PICK h : h = [T \in SUBSET S |-> 0]
      OBVIOUS
    <2>2. h \in [SUBSET S -> Nat]
      BY <2>1
    <2>3. ASSUME NEW T \in SUBSET S, Cardinality(T) <= 0
          PROVE  T = {} /\ h[T] = 0
      <3>1. IsFiniteSet(T) /\ Cardinality(T) \in Nat
        BY PickLeaves
      <3>2. Cardinality(T) = 0
        BY <2>3, <3>1
      <3>3. T = {}
        BY <3>1, <3>2, FS_EmptySet
      <3> QED
        BY <2>1, <3>3
    <2>4. Sums(h, f, S, 0)
      BY <2>3, Zenon DEF Sums
    <2> QED
      BY <2>2, <2>4
  <1>2. ASSUME NEW k \in Nat, k \in P
        PROVE  k + 1 \in P
    <2>1. PICK h \in [SUBSET S -> Nat] : Sums(h, f, S, k)
      BY <1>2
    <2> DEFINE B(T) == IF T = {} THEN 0 ELSE f[Pick(T)] + h[T \ {Pick(T)}]
               g    == [T \in SUBSET S |-> B(T)]
    <2>2. ASSUME NEW T \in SUBSET S
          PROVE  B(T) \in Nat
      <3>1. CASE T = {}
        BY <3>1
      <3>2. CASE T # {}
        <4>1. f[Pick(T)] \in Nat /\ h[T \ {Pick(T)}] \in Nat
          BY <3>2, PickLeaves
        <4> QED
          BY <3>2, <4>1
      <3> QED
        BY <3>1, <3>2
    <2>3. \A T \in SUBSET S : Cardinality(T) <= k => g[T] = h[T]
      BY <2>1 DEF Sums
    <2>4. \A T \in SUBSET S : g[T] = B(T)
      OBVIOUS
    <2>5. g \in [SUBSET S -> Nat]
      BY <2>2
    <2> HIDE DEF g
    <2>6. ASSUME NEW T \in SUBSET S, Cardinality(T) <= k + 1
          PROVE  g[T] = IF T = {} THEN 0 ELSE f[Pick(T)] + g[T \ {Pick(T)}]
      <3>1. CASE T = {}
        BY <2>4, <3>1
      <3>2. CASE T # {}
        <4>1. T \ {Pick(T)} \in SUBSET S /\ Cardinality(T \ {Pick(T)}) <= k
          BY <2>6, <3>2, PickLeaves
        <4>2. g[T \ {Pick(T)}] = h[T \ {Pick(T)}]
          BY <2>3, <4>1
        <4> QED
          BY <2>4, <3>2, <4>2
      <3> QED
        BY <3>1, <3>2
    <2>7. Sums(g, f, S, k + 1)
      BY <2>6, Zenon DEF Sums
    <2> QED
      BY <2>5, <2>7
  <1> HIDE DEF P
  <1>3. Nat \subseteq P
    BY <1>1, <1>2, Inductive
  <1>4. Cardinality(S) \in Nat
    BY FS_CardinalityType
  <1> QED
    BY <1>3, <1>4 DEF P

\* SumFunction is the last of them.
LEMMA SumIs ==
    ASSUME NEW S, IsFiniteSet(S), NEW f \in [S -> Nat]
    PROVE  \E h \in [SUBSET S -> Nat] :
              Sums(h, f, S, Cardinality(S)) /\ SumFunction(f) = h[S]
  <1> DEFINE Body(h) == [T \in SUBSET S |->
                            IF T = {} THEN 0
                            ELSE LET x == CHOOSE x \in T : TRUE
                                 IN  f[x] + h[T \ {x}]]
             g == CHOOSE h : h = Body(h)
  <1>1. SumFunction(f) = g[S]
    <2>1. DOMAIN f = S
      OBVIOUS
    <2> QED
      BY <2>1, Zenon DEF SumFunction, SumFunctionOnSet, FoldFunctionOnSet, MapThenFoldSet
  <1>2. PICK h \in [SUBSET S -> Nat] : Sums(h, f, S, Cardinality(S))
    BY SumsExist
  <1>3. ASSUME NEW T \in SUBSET S
        PROVE  h[T] = Body(h)[T]
    <2>1. Cardinality(T) <= Cardinality(S)
      BY PickLeaves
    <2> QED
      BY <1>2, <2>1, Zenon DEF Sums, Pick
  <1>4. h = Body(h)
    BY <1>3
  <1>5. g = Body(g)
    BY <1>4, Zenon
  <1> HIDE DEF g
  <1>6. ASSUME NEW T \in SUBSET S
        PROVE  g[T] = IF T = {} THEN 0 ELSE f[Pick(T)] + g[T \ {Pick(T)}]
    BY <1>5, Zenon DEF Pick
  <1>7. Sums(g, f, S, Cardinality(S))
    BY <1>6, Zenon DEF Sums
  <1>8. g = [T \in SUBSET S |-> g[T]]
    BY <1>5
  <1> HIDE DEF Body
  <1> DEFINE Q == {T \in SUBSET S : g[T] \in Nat}
  <1>9. {} \in Q
    BY <1>6
  <1>10. ASSUME NEW T \in SUBSET S, T # {}, T \ {Pick(T)} \in Q
         PROVE  T \in Q
    <2>1. f[Pick(T)] \in Nat
      BY <1>10, PickLeaves
    <2>2. PICK a \in Nat, b \in Nat : a = f[Pick(T)] /\ b = g[T \ {Pick(T)}]
      BY <1>10, <2>1
    <2>3. g[T] = a + b
      BY <1>6, <1>10, <2>2
    <2> QED
      BY <2>3
  <1> HIDE DEF Q
  <1>11. SUBSET S \subseteq Q
    BY <1>9, <1>10, PickInduction
  <1>12. g \in [SUBSET S -> Nat]
    BY <1>8, <1>11 DEF Q
  <1> QED
    BY <1>1, <1>7, <1>12

\* Nothing sums up to nothing.
LEMMA SumOfNothing ==
    ASSUME NEW S, IsFiniteSet(S)
    PROVE  SumFunction([s \in S |-> 0]) = 0
  <1>1. PICK f : f = [s \in S |-> 0]
    OBVIOUS
  <1>2. f \in [S -> Nat] /\ \A s \in S : f[s] = 0
    BY <1>1
  <1>3. PICK h \in [SUBSET S -> Nat] :
            Sums(h, f, S, Cardinality(S)) /\ SumFunction(f) = h[S]
    BY <1>2, SumIs
  <1> DEFINE Q == {T \in SUBSET S : h[T] = 0}
  <1>4. ASSUME NEW T \in SUBSET S
        PROVE  h[T] = IF T = {} THEN 0 ELSE f[Pick(T)] + h[T \ {Pick(T)}]
    BY <1>3, PickLeaves DEF Sums
  <1>5. {} \in Q
    BY <1>4
  <1>6. ASSUME NEW T \in SUBSET S, T # {}, T \ {Pick(T)} \in Q
        PROVE  T \in Q
    <2>1. f[Pick(T)] = 0
      BY <1>2, <1>6, PickLeaves
    <2> QED
      BY <1>4, <1>6, <2>1
  <1> HIDE DEF Q
  <1>7. SUBSET S \subseteq Q
    BY <1>5, <1>6, PickInduction
  <1> QED
    BY <1>1, <1>3, <1>7 DEF Q

\* What is added to one of the values is added to the sum.
LEMMA SumGrows ==
    ASSUME NEW S, IsFiniteSet(S), NEW f \in [S -> Nat], NEW e \in [S -> Nat],
           NEW s \in S, NEW n \in Nat, e[s] = f[s] + n, \A x \in S \ {s} : e[x] = f[x]
    PROVE  SumFunction(e) = SumFunction(f) + n
  <1>1. PICK h \in [SUBSET S -> Nat] :
            Sums(h, f, S, Cardinality(S)) /\ SumFunction(f) = h[S]
    BY SumIs
  <1>2. PICK g \in [SUBSET S -> Nat] :
            Sums(g, e, S, Cardinality(S)) /\ SumFunction(e) = g[S]
    BY SumIs
  <1> DEFINE Q == {T \in SUBSET S : g[T] = IF s \in T THEN h[T] + n ELSE h[T]}
  <1>3. ASSUME NEW T \in SUBSET S
        PROVE  /\ h[T] = IF T = {} THEN 0 ELSE f[Pick(T)] + h[T \ {Pick(T)}]
               /\ g[T] = IF T = {} THEN 0 ELSE e[Pick(T)] + g[T \ {Pick(T)}]
    BY <1>1, <1>2, PickLeaves DEF Sums
  <1>4. {} \in Q
    BY <1>3
  <1>5. ASSUME NEW T \in SUBSET S, T # {}, T \ {Pick(T)} \in Q
        PROVE  T \in Q
    <2>1. PICK x \in T, U \in SUBSET S : x = Pick(T) /\ U = T \ {x}
      BY <1>5, PickLeaves
    <2>2. h[T] = f[x] + h[U] /\ g[T] = e[x] + g[U]
      BY <1>3, <1>5, <2>1
    <2>3. /\ f[x] \in Nat /\ e[x] \in Nat /\ h[U] \in Nat /\ g[U] \in Nat
      BY <2>1
    <2>4. U \in Q
      BY <1>5, <2>1
    <2>5. CASE x = s
      BY <2>1, <2>2, <2>3, <2>4, <2>5
    <2>6. CASE x # s
      BY <2>1, <2>2, <2>3, <2>4, <2>6
    <2> QED
      BY <2>5, <2>6
  <1> HIDE DEF Q
  <1>6. SUBSET S \subseteq Q
    BY <1>4, <1>5, PickInduction
  <1>7. g[S] = h[S] + n
    BY <1>6 DEF Q
  <1> QED
    BY <1>1, <1>2, <1>7

-----------------------------------------------------------------------------
(* What is counted. *)

\* One direction of a relay: Counted, never both operations, and nothing
\* counted or written before the relay runs.
FlowInv(n, wrote, hand, r, w, st) ==
    /\ hand >= 0 /\ Counted(n, wrote, hand, r, w)
    /\ r = "idle" \/ w = "idle"
    /\ st # "Streaming" => n = 0 /\ wrote = 0

\* One session, of the values of its variables: kd its kind, lf its life, o its
\* pending operations, st its state.  Only a plain client's request is written
\* before the relay runs.
CountInv(kd, lf, o, st, up, down) ==
    /\ down
    /\ kd # "plain" => up
    /\ st # "Streaming" => \A k \in UploadOps \cup DownOps : o[k] = "idle"
    /\ o["initial"] # "idle" => kd = "plain"
    /\ lf = "unborn" => kd = "none"

UpFlow(s) == FlowInv(upload[s], Len(toTarget[s]), taken[s] - ubase[s],
                     op[s]["c2tRead"], op[s]["c2tWrite"], state[s])
DownFlow(s) == FlowInv(download[s], Len(toClient[s]), ttaken[s] - dbase[s],
                       op[s]["t2cRead"], op[s]["t2cWrite"], state[s])

CountsInv == \A s \in Sessions :
    CountInv(kind[s], life[s], op[s], state[s], UpFlow(s), DownFlow(s))

\* The types the lemmas below need.
LEMMA CountTypes ==
    ASSUME TypeOK
    PROVE  /\ kind \in [Sessions -> {"none", "socks", "connect", "plain"}]
           /\ op \in [Sessions -> [Ops -> OpStatus]]
           /\ life \in [Sessions -> {"unborn", "alive", "gone"}]
           /\ state \in [Sessions -> {"Handshake", "Request", "Streaming"}]
           /\ sent \in [Sessions -> Nat] /\ tsent \in [Sessions -> Nat]
           /\ taken \in [Sessions -> Nat] /\ ubase \in [Sessions -> Nat]
           /\ ttaken \in [Sessions -> Nat] /\ dbase \in [Sessions -> Nat]
           /\ upload \in [Sessions -> Nat] /\ download \in [Sessions -> Nat]
           /\ toTarget \in [Sessions -> Seq(Nat)]
           /\ toClient \in [Sessions -> Seq(Nat)]
  BY DEF TypeOK, ClientTypeOK, TargetTypeOK, LifeTypeOK, StageTypeOK, BufferTypeOK,
         CountTypeOK, WroteTypeOK

\* What a handler that returns does to the operations and the lives.
LEMMA AfterOps ==
    ASSUME TypeOK, NEW s \in Sessions, NEW o \in [Ops -> OpStatus], NEW sk, NEW ob,
           After(s, o, sk, ob)
    PROVE  /\ op'[s] = o
           /\ life'[s] = "unborn" => life[s] = "unborn"
           /\ \A t \in Sessions \ {s} : op'[t] = op[t] /\ life'[t] = life[t]
  BY CountTypes DEF After

\* What every session but s has is left as it is.
OthersLeft(s) == \A t \in Sessions \ {s} :
    /\ kind'[t] = kind[t] /\ life'[t] = life[t]
    /\ op'[t] = op[t] /\ state'[t] = state[t]
    /\ upload'[t] = upload[t] /\ download'[t] = download[t]
    /\ taken'[t] = taken[t] /\ ubase'[t] = ubase[t]
    /\ ttaken'[t] = ttaken[t] /\ dbase'[t] = dbase[t]
    /\ toTarget'[t] = toTarget[t] /\ toClient'[t] = toClient[t]

\* Then only s is left to look at.
LEMMA OnlyOne ==
    ASSUME CountsInv, NEW s \in Sessions, OthersLeft(s),
           CountInv(kind[s], life[s], op[s], state[s], UpFlow(s), DownFlow(s))'
    PROVE  CountsInv'
  <1>1. ASSUME NEW t \in Sessions \ {s}
        PROVE  CountInv(kind[t], life[t], op[t], state[t], UpFlow(t), DownFlow(t))'
    <2>1. /\ UpFlow(t)' <=> UpFlow(t)
          /\ DownFlow(t)' <=> DownFlow(t)
      BY DEF OthersLeft, UpFlow, DownFlow
    <2>2. CountInv(kind[t], life[t], op[t], state[t], UpFlow(t), DownFlow(t))
      BY DEF CountsInv
    <2> QED
      BY <2>1, <2>2 DEF CountInv, OthersLeft
  <1> QED
    BY <1>1 DEF CountsInv

\* A handler of the handshake of s leaves its relay alone, or starts it.
SetupStep(s) ==
    /\ OthersLeft(s)
    /\ state[s] # "Streaming"
    /\ kind'[s] = kind[s]
    /\ upload'[s] = upload[s] /\ download'[s] = download[s]
    /\ ubase'[s] = ubase[s] /\ ttaken'[s] = ttaken[s] /\ dbase'[s] = dbase[s]
    /\ toClient'[s] = toClient[s]
    /\ taken'[s] \in Nat /\ taken'[s] >= taken[s]
    /\ toTarget'[s] = toTarget[s] \/ kind[s] = "plain"
    /\ life'[s] = "unborn" => life[s] = "unborn"
    /\ op'[s]["c2tWrite"] = "idle" /\ op'[s]["t2cWrite"] = "idle"
    /\ state'[s] # "Streaming" =>
          op'[s]["c2tRead"] = "idle" /\ op'[s]["t2cRead"] = "idle"
    /\ op'[s]["initial"] # "idle" => kind[s] = "plain"

\* Nothing is counted yet.
LEMMA NothingYet ==
    ASSUME NEW n, NEW wrote, NEW hand \in Int, NEW r, NEW w, NEW st,
           n = 0, wrote = 0, hand >= 0, w = "idle", st # "Streaming" => r = "idle"
    PROVE  FlowInv(n, wrote, hand, r, w, st)
  BY DEF FlowInv, Counted

\* Such a step keeps what is counted.
LEMMA SetupCounts ==
    ASSUME TypeOK, CountsInv, NEW s \in Sessions, SetupStep(s)
    PROVE  CountsInv'
  <1>1. CountInv(kind[s], life[s], op[s], state[s], UpFlow(s), DownFlow(s))
    BY DEF CountsInv
  <1>2. DownFlow(s)'
    <2>1. DownFlow(s)
      BY <1>1, Zenon DEF CountInv
    <2>2. /\ download[s] = 0 /\ Len(toClient[s]) = 0
          /\ ttaken[s] - dbase[s] >= 0
      BY <2>1 DEF DownFlow, FlowInv, SetupStep
    <2>3. /\ download'[s] = 0 /\ Len(toClient'[s]) = 0
          /\ ttaken'[s] - dbase'[s] >= 0
      BY <2>2 DEF SetupStep
    <2>4. /\ op'[s]["t2cWrite"] = "idle"
          /\ state'[s] # "Streaming" => op'[s]["t2cRead"] = "idle"
      BY DEF SetupStep
    <2>5. ttaken[s] \in Nat /\ dbase[s] \in Nat
      BY CountTypes
    <2>6. ttaken'[s] - dbase'[s] \in Int
      BY <2>5 DEF SetupStep
    <2> QED
      BY <2>3, <2>4, <2>6, NothingYet DEF DownFlow
  <1>3. kind[s] # "plain" => UpFlow(s)'
    <2> SUFFICES ASSUME kind[s] # "plain"
                 PROVE  UpFlow(s)'
      OBVIOUS
    <2>1. UpFlow(s)
      BY <1>1, Zenon DEF CountInv
    <2>2. /\ upload[s] = 0 /\ Len(toTarget[s]) = 0
          /\ taken[s] - ubase[s] >= 0
      BY <2>1 DEF UpFlow, FlowInv, SetupStep
    <2>3. taken[s] \in Nat /\ ubase[s] \in Nat
      BY CountTypes
    <2>4. /\ upload'[s] = 0 /\ Len(toTarget'[s]) = 0
          /\ taken'[s] - ubase'[s] >= 0
      BY <2>2, <2>3 DEF SetupStep
    <2>5. /\ op'[s]["c2tWrite"] = "idle"
          /\ state'[s] # "Streaming" => op'[s]["c2tRead"] = "idle"
      BY DEF SetupStep
    <2>6. taken'[s] - ubase'[s] \in Int
      BY <2>3 DEF SetupStep
    <2> QED
      BY <2>4, <2>5, <2>6, NothingYet DEF UpFlow
  <1>4. CountInv(kind[s], life[s], op[s], state[s], UpFlow(s), DownFlow(s))'
    BY <1>1, <1>2, <1>3 DEF CountInv, SetupStep, UploadOps, DownOps
  <1> QED
    BY <1>4, OnlyOne DEF SetupStep

\* Before the relay runs none of its operations is pending.
LEMMA NoRelayOps ==
    ASSUME CountsInv, NEW s \in Sessions, state[s] # "Streaming"
    PROVE  /\ op[s]["c2tRead"] = "idle" /\ op[s]["c2tWrite"] = "idle"
           /\ op[s]["t2cRead"] = "idle" /\ op[s]["t2cWrite"] = "idle"
  BY DEF CountsInv, CountInv, UploadOps, DownOps

\* The handshake is over once the relay runs.
LEMMA SetupBefore ==
    ASSUME LifeInv, NEW s \in Sessions, NEW k \in SetupOps, op[s][k] # "idle"
    PROVE  state[s] # "Streaming"
  BY DEF LifeInv, SInv, SomeOf

\* The relay's operations of s are left alone, and the first request is only
\* written for a plain client.
OpsKept(s) ==
    /\ \A t \in Sessions \ {s} : op'[t] = op[t] /\ life'[t] = life[t]
    /\ life'[s] = "unborn" => life[s] = "unborn"
    /\ \A j \in UploadOps \cup DownOps : op'[s][j] = op[s][j]
    /\ op'[s]["initial"] # "idle" => op[s]["initial"] # "idle" \/ kind[s] = "plain"

\* A handler that returns with such operations does so.
LEMMA AfterKeeps ==
    ASSUME TypeOK, NEW s \in Sessions, NEW o \in [Ops -> OpStatus], NEW sk, NEW ob,
           After(s, o, sk, ob),
           \A j \in UploadOps \cup DownOps : o[j] = op[s][j],
           o["initial"] # "idle" => op[s]["initial"] # "idle" \/ kind[s] = "plain"
    PROVE  OpsKept(s)
  BY AfterOps DEF OpsKept

\* An operation k of the handshake ends, and nothing or another one follows.
LEMMA SetupEnds ==
    ASSUME TypeOK, NEW s \in Sessions, NEW k \in SetupOps, NEW sk, NEW ob,
           After(s, [op[s] EXCEPT ![k] = "idle"], sk, ob)
    PROVE  OpsKept(s)
  <1>1. PICK o : o = [op[s] EXCEPT ![k] = "idle"]
    OBVIOUS
  <1>2. op[s] \in [Ops -> OpStatus]
    BY CountTypes
  <1>3. /\ o \in [Ops -> OpStatus]
        /\ \A j \in UploadOps \cup DownOps : o[j] = op[s][j]
        /\ o["initial"] # "idle" => op[s]["initial"] # "idle"
    BY <1>1, <1>2 DEF OpStatus, SetupOps, UploadOps, DownOps, Ops
  <1> QED
    BY <1>1, <1>3, AfterKeeps

\* An operation k of the handshake ends and i is started.
LEMMA SetupGoesOn ==
    ASSUME TypeOK, NEW s \in Sessions, NEW k \in SetupOps, NEW i \in SetupOps,
           NEW v \in OpStatus, NEW sk, NEW ob, i = "initial" => kind[s] = "plain",
           After(s, [op[s] EXCEPT ![k] = "idle", ![i] = v], sk, ob)
    PROVE  OpsKept(s)
  <1>1. PICK o : o = [op[s] EXCEPT ![k] = "idle", ![i] = v]
    OBVIOUS
  <1>2. op[s] \in [Ops -> OpStatus]
    BY CountTypes
  <1>3. /\ o \in [Ops -> OpStatus]
        /\ \A j \in UploadOps \cup DownOps : o[j] = op[s][j]
        /\ o["initial"] # "idle" => op[s]["initial"] # "idle" \/ kind[s] = "plain"
    BY <1>1, <1>2 DEF OpStatus, SetupOps, UploadOps, DownOps, Ops
  <1> QED
    BY <1>1, <1>3, AfterKeeps

\* Drop, CloseBoth, Chain and Connect on operations of the handshake.
LEMMA SetupKeeps ==
    ASSUME TypeOK, NEW s \in Sessions, NEW k \in SetupOps,
           Drop(s, k) \/ CloseBoth(s, k)
    PROVE  OpsKept(s)
  BY SetupEnds DEF Drop, CloseBoth

\* One that starts the next of the handshake does too.
LEMMA ChainKeeps ==
    ASSUME TypeOK, NEW s \in Sessions, NEW k \in SetupOps, NEW i \in SetupOps,
           i # "initial", NEW end, Chain(s, k, i, end)
    PROVE  OpsKept(s)
  BY SetupGoesOn, StatusType DEF Chain

\* So do handle_connect and handle_connect_http up to the dial.
LEMMA ConnectKeeps ==
    ASSUME TypeOK, NEW s \in Sessions, NEW dest, Connect(s, dest)
    PROVE  OpsKept(s)
  <1>1. "read" \in SetupOps /\ "dial" \in SetupOps /\ "live" \in OpStatus
    BY DEF SetupOps, OpStatus
  <1>2. CASE After(s, [op[s] EXCEPT !["read"] = "idle", !["dial"] = "live"],
                   socket[s], outbound[s])
    <2>1. PICK k \in SetupOps, i \in SetupOps, v \in OpStatus :
              k = "read" /\ i = "dial" /\ v = "live"
      BY <1>1
    <2>2. After(s, [op[s] EXCEPT ![k] = "idle", ![i] = v], socket[s], outbound[s])
      BY <1>2, <2>1
    <2> QED
      BY <2>1, <2>2, SetupGoesOn
  <1>3. CASE Drop(s, "read") \/ CloseBoth(s, "read")
    BY <1>1, <1>3, SetupKeeps
  <1> QED
    BY <1>2, <1>3 DEF Connect

\* A handler of the handshake that starts no relay and writes nothing that
\* counts.
LEMMA SetupAfter ==
    ASSUME TypeOK, LifeInv, CountsInv, NEW s \in Sessions, NEW k \in SetupOps,
           op[s][k] # "idle", OpsKept(s),
           state'[s] # "Streaming", \A t \in Sessions \ {s} : state'[t] = state[t],
           taken'[s] \in Nat, taken'[s] >= taken[s],
           \A t \in Sessions \ {s} : taken'[t] = taken[t],
           toTarget'[s] = toTarget[s] \/ kind[s] = "plain",
           \A t \in Sessions \ {s} : toTarget'[t] = toTarget[t],
           UNCHANGED <<kind, upload, download, ubase, ttaken, dbase, toClient>>
    PROVE  CountsInv'
  <1>1. state[s] # "Streaming"
    BY SetupBefore
  <1>2. op[s]["initial"] # "idle" => kind[s] = "plain"
    BY DEF CountsInv, CountInv
  <1>3. /\ op'[s]["c2tRead"] = "idle" /\ op'[s]["c2tWrite"] = "idle"
        /\ op'[s]["t2cRead"] = "idle" /\ op'[s]["t2cWrite"] = "idle"
    BY <1>1, NoRelayOps DEF OpsKept, UploadOps, DownOps
  <1>4. OthersLeft(s)
    BY DEF OthersLeft, OpsKept
  <1>5. SetupStep(s)
    BY <1>1, <1>2, <1>3, <1>4 DEF SetupStep, OpsKept
  <1> QED
    BY <1>5, SetupCounts

\* Up to the dial only the reads change a variable of the counts' invariant.
LEMMA ReadCounts ==
    ASSUME TypeOK, LifeInv, CountsInv, NEW s \in Sessions,
           ReadHandshake(s) \/ ReadRequest(s) \/ ReadError(s)
    PROVE  CountsInv'
  <1>1. "read" \in SetupOps /\ "greet" \in SetupOps /\ "greet" # "initial"
    BY DEF SetupOps
  <1>2. /\ state \in [Sessions -> {"Handshake", "Request", "Streaming"}]
        /\ taken \in [Sessions -> Nat] /\ sent \in [Sessions -> Nat]
    BY CountTypes
  <1>3. op[s]["read"] # "idle" /\ state' = state
    BY DEF ReadHandshake, ReadRequest, ReadError, MayFail, AtEof
  <1>4. state[s] # "Streaming"
    BY <1>1, <1>3, SetupBefore
  <1>5. OpsKept(s)
    <2>1. CASE UNCHANGED lifeVars
      BY <2>1 DEF lifeVars, OpsKept
    <2>2. CASE Drop(s, "read")
      BY <1>1, <2>2, SetupKeeps
    <2>3. CASE Chain(s, "read", "greet", socket[s])
      BY <1>1, <2>3, ChainKeeps
    <2>4. CASE Connect(s, "asked") \/ Connect(s, "other")
      BY <2>4, ConnectKeeps
    <2>5. CASE ReadHandshake(s)
      BY <2>1, <2>2, <2>3, <2>4, <2>5, Zenon
         DEF ReadHandshake, HandleSocks5Handshake, HandleHttpRequest
    <2>6. CASE ReadRequest(s)
      BY <2>1, <2>2, <2>4, <2>6, Zenon DEF ReadRequest, HandleSocks5Request
    <2>7. CASE ReadError(s)
      BY <2>2, <2>7, Zenon DEF ReadError
    <2> QED
      BY <2>5, <2>6, <2>7
  <1>6. /\ taken'[s] \in Nat /\ taken'[s] >= taken[s]
        /\ \A t \in Sessions \ {s} : taken'[t] = taken[t]
    <2>1. CASE \E p \in Cuts(s) : taken' = [taken EXCEPT ![s] = p]
      BY <1>2, <2>1 DEF Cuts
    <2>2. CASE taken' = taken
      BY <1>2, <2>2
    <2> QED
      BY <2>1, <2>2 DEF ReadHandshake, ReadRequest, ReadError, bufferVars
  <1>7. UNCHANGED <<kind, upload, download, ubase, ttaken, dbase, toTarget, toClient>>
    BY DEF ReadHandshake, ReadRequest, ReadError, clientVars, countVars, wroteVars,
           bufferVars
  <1> QED
    BY <1>1, <1>3, <1>4, <1>5, <1>6, <1>7, SetupAfter

\* The completion of the method selection reply.
LEMMA GreetCounts ==
    ASSUME TypeOK, LifeInv, CountsInv, NEW s \in Sessions, GreetDone(s)
    PROVE  CountsInv'
  <1>1. "read" \in SetupOps /\ "greet" \in SetupOps /\ "read" # "initial"
    BY DEF SetupOps
  <1>2. /\ state \in [Sessions -> {"Handshake", "Request", "Streaming"}]
        /\ taken \in [Sessions -> Nat]
    BY CountTypes
  <1>3. op[s]["greet"] # "idle"
    BY DEF GreetDone, MayFail
  <1>4. state[s] # "Streaming"
    BY <1>1, <1>3, SetupBefore
  <1>5. OpsKept(s)
    <2>1. CASE Drop(s, "greet")
      BY <1>1, <2>1, SetupKeeps
    <2>2. CASE Chain(s, "greet", "read", socket[s])
      BY <1>1, <2>2, ChainKeeps
    <2> QED
      BY <2>1, <2>2, Zenon DEF GreetDone
  <1>6. state'[s] # "Streaming" /\ \A t \in Sessions \ {s} : state'[t] = state[t]
    BY <1>2, <1>4 DEF GreetDone
  <1>7. UNCHANGED <<kind, taken, upload, download, ubase, ttaken, dbase, toTarget, toClient>>
    BY DEF GreetDone, countVars, wroteVars, bufferVars
  <1>8. taken'[s] \in Nat /\ taken'[s] >= taken[s]
    BY <1>2, <1>7
  <1> QED
    BY <1>1, <1>3, <1>5, <1>6, <1>7, <1>8, SetupAfter

\* The completion of a dial: only a plain request is forwarded.
LEMMA DialCounts ==
    ASSUME TypeOK, LifeInv, CountsInv, NEW s \in Sessions, DialDone(s)
    PROVE  CountsInv'
  <1>1. "dial" \in SetupOps /\ "initial" \in SetupOps /\ "reply" \in SetupOps
    BY DEF SetupOps
  <1>2. taken \in [Sessions -> Nat]
    BY CountTypes
  <1>3. op[s]["dial"] # "idle"
    BY DEF DialDone
  <1>4. state[s] # "Streaming"
    BY <1>1, <1>3, SetupBefore
  <1>5. OpsKept(s)
    <2>1. CASE Drop(s, "dial") \/ CloseBoth(s, "dial")
      BY <1>1, <2>1, SetupKeeps
    <2>2. CASE LET k   == FirstWrite(kind[s])
                   end == IF k = "initial" THEN "open" ELSE socket[s]
               IN After(s, [op[s] EXCEPT !["dial"] = "idle", ![k] = Started(end)],
                        socket[s], "open")
      <3>1. PICK k \in SetupOps :
                k = FirstWrite(kind[s]) /\ (k = "initial" => kind[s] = "plain")
        BY <1>1 DEF FirstWrite
      <3>2. PICK end : end = IF k = "initial" THEN "open" ELSE socket[s]
        OBVIOUS
      <3>3. After(s, [op[s] EXCEPT !["dial"] = "idle", ![k] = Started(end)],
                  socket[s], "open")
        BY <2>2, <3>1, <3>2, Zenon
      <3>4. PICK j \in SetupOps, v \in OpStatus : j = "dial" /\ v = Started(end)
        BY <1>1, StatusType
      <3>5. After(s, [op[s] EXCEPT ![j] = "idle", ![k] = v], socket[s], "open")
        BY <3>3, <3>4
      <3> QED
        BY <3>1, <3>5, SetupGoesOn
    <2> QED
      BY <2>1, <2>2, Zenon DEF DialDone
  <1>6. UNCHANGED <<kind, state, taken, upload, download, ubase, ttaken, dbase,
                    toTarget, toClient>>
    BY DEF DialDone, clientVars, countVars, wroteVars, bufferVars
  <1>7. taken'[s] \in Nat /\ taken'[s] >= taken[s]
    BY <1>2, <1>6
  <1> QED
    BY <1>1, <1>3, <1>4, <1>5, <1>6, <1>7, SetupAfter

\* start_relay, when the first write of s is done.
LEMMA StartCounts ==
    ASSUME TypeOK, LifeInv, CountsInv, NEW s \in Sessions, NEW k \in SetupOps,
           op[s][k] # "idle", StartRelay(s, k),
           toTarget'[s] = toTarget[s] \/ kind[s] = "plain",
           \A t \in Sessions \ {s} : toTarget'[t] = toTarget[t],
           UNCHANGED <<kind, taken, upload, download, ubase, ttaken, dbase, toClient>>
    PROVE  CountsInv'
  <1>1. state[s] # "Streaming"
    BY SetupBefore
  <1>2. PICK v \in OpStatus, w \in OpStatus :
            v = Started(socket[s]) /\ w = Started(outbound[s])
    BY StatusType
  <1>3. PICK o : o = [op[s] EXCEPT ![k] = "idle", !["c2tRead"] = v, !["t2cRead"] = w]
    OBVIOUS
  <1>4. op[s] \in [Ops -> OpStatus] /\ taken \in [Sessions -> Nat]
        /\ state \in [Sessions -> {"Handshake", "Request", "Streaming"}]
    BY CountTypes
  <1>5. /\ o \in [Ops -> OpStatus]
        /\ o["c2tWrite"] = op[s]["c2tWrite"] /\ o["t2cWrite"] = op[s]["t2cWrite"]
        /\ o["initial"] # "idle" => op[s]["initial"] # "idle"
    BY <1>3, <1>4 DEF OpStatus, SetupOps, UploadOps, DownOps, Ops
  <1>6. After(s, o, socket[s], outbound[s])
    BY <1>2, <1>3, Zenon DEF StartRelay
  <1>7. /\ op'[s] = o /\ (life'[s] = "unborn" => life[s] = "unborn")
        /\ \A t \in Sessions \ {s} : op'[t] = op[t] /\ life'[t] = life[t]
    BY <1>5, <1>6, AfterOps
  <1>8. state'[s] = "Streaming" /\ \A t \in Sessions \ {s} : state'[t] = state[t]
    BY <1>4 DEF StartRelay
  <1>9. op[s]["initial"] # "idle" => kind[s] = "plain"
    BY DEF CountsInv, CountInv
  <1>10. OthersLeft(s)
    BY <1>7, <1>8 DEF OthersLeft
  <1>11. taken'[s] \in Nat /\ taken'[s] >= taken[s]
    BY <1>4
  <1>12. op[s]["c2tWrite"] = "idle" /\ op[s]["t2cWrite"] = "idle"
    BY <1>1, NoRelayOps
  <1>13. SetupStep(s)
    BY <1>1, <1>5, <1>7, <1>8, <1>9, <1>10, <1>11, <1>12 DEF SetupStep
  <1> QED
    BY <1>13, SetupCounts

\* The completion of the first write.
LEMMA FirstCounts ==
    ASSUME TypeOK, LifeInv, CountsInv, NEW s \in Sessions,
           ReplyDone(s) \/ InitialDone(s)
    PROVE  CountsInv'
  <1>1. "reply" \in SetupOps /\ "initial" \in SetupOps
    BY DEF SetupOps
  <1>2. /\ taken \in [Sessions -> Nat] /\ toTarget \in [Sessions -> Seq(Nat)]
    BY CountTypes
  <1>3. UNCHANGED <<kind, taken, upload, download, ubase, ttaken, dbase, toClient>>
    BY DEF ReplyDone, InitialDone, clientVars, countVars, wroteVars, bufferVars
  <1>4. taken'[s] \in Nat /\ taken'[s] >= taken[s]
    BY <1>2, <1>3
  <1>5. ASSUME NEW k \in SetupOps, op[s][k] # "idle",
               StartRelay(s, k) \/ (Drop(s, k) /\ UNCHANGED state),
               toTarget'[s] = toTarget[s] \/ kind[s] = "plain",
               \A t \in Sessions \ {s} : toTarget'[t] = toTarget[t]
        PROVE  CountsInv'
    <2>1. CASE StartRelay(s, k)
      BY <1>3, <1>5, <2>1, StartCounts
    <2>2. CASE Drop(s, k) /\ UNCHANGED state
      <3>1. OpsKept(s)
        BY <2>2, SetupKeeps
      <3>2. state[s] # "Streaming"
        BY <1>5, SetupBefore
      <3> QED
        BY <1>3, <1>4, <1>5, <2>2, <3>1, <3>2, SetupAfter
    <2> QED
      BY <1>5, <2>1, <2>2
  <1>6. CASE ReplyDone(s)
    <2>1. toTarget' = toTarget
      BY <1>6 DEF ReplyDone, wroteVars
    <2>2. op[s]["reply"] # "idle"
      BY <1>6 DEF ReplyDone, MayFail
    <2>3. StartRelay(s, "reply") \/ (Drop(s, "reply") /\ UNCHANGED state)
      BY <1>6, Zenon DEF ReplyDone
    <2> QED
      BY <1>1, <1>5, <2>1, <2>2, <2>3
  <1>7. CASE InitialDone(s)
    <2>1. \A t \in Sessions \ {s} : toTarget'[t] = toTarget[t]
      BY <1>2, <1>7 DEF InitialDone
    <2>2. op[s]["initial"] # "idle"
      BY <1>7 DEF InitialDone, MayFail
    <2>3. StartRelay(s, "initial") \/ (Drop(s, "initial") /\ UNCHANGED state)
      BY <1>7, Zenon DEF InitialDone
    <2>4. kind[s] = "plain"
      BY <2>2 DEF CountsInv, CountInv
    <2> QED
      BY <1>1, <1>5, <2>1, <2>2, <2>3, <2>4
  <1> QED
    BY <1>6, <1>7

\* A new session: nothing of it is counted.
LEMMA AcceptCounts ==
    ASSUME TypeOK, LifeInv, CountsInv, NEW s \in Sessions, Accept(s)
    PROVE  CountsInv'
  <1>1. CountInv(kind[s], life[s], op[s], state[s], UpFlow(s), DownFlow(s))
    BY DEF CountsInv
  <1>2. /\ op \in [Sessions -> [Ops -> OpStatus]] /\ life[s] = "unborn"
        /\ life \in [Sessions -> {"unborn", "alive", "gone"}]
        /\ kind \in [Sessions -> {"none", "socks", "connect", "plain"}]
    BY CountTypes DEF Accept
  <1>3. /\ kind[s] = "none" /\ op[s]["initial"] = "idle"
    BY <1>1, <1>2 DEF CountInv
  <1>4. UNCHANGED <<state, upload, download, taken, ubase, ttaken, dbase, toTarget,
                    toClient>>
    BY DEF Accept, bufferVars, countVars, wroteVars
  <1>5. /\ \A j \in Ops \ {"read"} : op'[s][j] = op[s][j]
        /\ life'[s] = "alive"
        /\ \A t \in Sessions \ {s} :
              op'[t] = op[t] /\ life'[t] = life[t] /\ kind'[t] = kind[t]
    BY <1>2 DEF Accept
  <1>6. /\ "initial" \in Ops \ {"read"}
        /\ UploadOps \cup DownOps \subseteq Ops \ {"read"}
        /\ "c2tRead" \in UploadOps /\ "c2tWrite" \in UploadOps
        /\ "t2cRead" \in DownOps /\ "t2cWrite" \in DownOps
    BY DEF Ops, SetupOps, UploadOps, DownOps
  <1>7. OthersLeft(s)
    BY <1>4, <1>5 DEF OthersLeft
  <1>8. UpFlow(s) /\ DownFlow(s)
    BY <1>1, <1>3, Zenon DEF CountInv
  <1>9. UpFlow(s)' /\ DownFlow(s)'
    BY <1>4, <1>5, <1>6, <1>8 DEF UpFlow, DownFlow
  <1>10. CountInv(kind[s], life[s], op[s], state[s], UpFlow(s), DownFlow(s))'
    BY <1>1, <1>3, <1>4, <1>5, <1>6, <1>9 DEF CountInv
  <1> QED
    BY <1>7, <1>10, OnlyOne

\* A step of a relay loop, on the numbers of its direction.
LEMMA FlowReads ==
    ASSUME NEW n \in Nat, NEW wrote \in Nat, NEW hand \in Int, NEW r, NEW w, NEW st,
           FlowInv(n, wrote, hand, r, w, st), r # "idle", st = "Streaming",
           NEW h \in Nat, NEW v
    PROVE  /\ FlowInv(n + h, wrote, h, "idle", v, st)
           /\ FlowInv(n, wrote, hand, "idle", w, st)
  BY DEF FlowInv, Counted

\* A write that ends, having written h of what it had in hand.
LEMMA FlowWrites ==
    ASSUME NEW n \in Nat, NEW wrote \in Nat, NEW hand \in Int, NEW r, NEW w, NEW st,
           FlowInv(n, wrote, hand, r, w, st), w # "idle", st = "Streaming",
           NEW h \in Nat, h <= hand, NEW v
    PROVE  /\ h = hand => FlowInv(n, wrote + h, hand, v, "idle", st)
           /\ FlowInv(n, wrote + h, hand, r, "idle", st)
  BY DEF FlowInv, Counted

\* A handler of a relay loop of s leaves everything else alone.
RelayStep(s) ==
    /\ OthersLeft(s)
    /\ kind'[s] = kind[s] /\ state'[s] = state[s] /\ state[s] = "Streaming"
    /\ life'[s] = "unborn" => life[s] = "unborn"
    /\ op'[s]["initial"] = op[s]["initial"]

\* Then it is enough to look at its two directions.
LEMMA RelayCounts ==
    ASSUME CountsInv, NEW s \in Sessions, RelayStep(s),
           DownFlow(s) => DownFlow(s)', UpFlow(s) => UpFlow(s)'
    PROVE  CountsInv'
  <1>1. CountInv(kind[s], life[s], op[s], state[s], UpFlow(s), DownFlow(s))
    BY DEF CountsInv
  <1>2. DownFlow(s)' /\ (kind[s] # "plain" => UpFlow(s)')
    BY <1>1, Zenon DEF CountInv
  <1>3. /\ op[s]["initial"] # "idle" => kind[s] = "plain"
        /\ life[s] = "unborn" => kind[s] = "none"
    BY <1>1, Zenon DEF CountInv
  <1>4. CountInv(kind[s], life[s], op[s], state[s], UpFlow(s), DownFlow(s))'
    BY <1>2, <1>3 DEF CountInv, RelayStep
  <1> QED
    BY <1>4, OnlyOne DEF RelayStep

\* Units put behind a sequence.
LEMMA UnitsLen ==
    ASSUME NEW q \in Seq(Nat), NEW lo \in Nat, NEW n \in Nat
    PROVE  Len(q \o Units(lo, n)) = Len(q) + n
  BY DEF Units

\* A relay operation is pending only while the session streams.
LEMMA RelayStreams ==
    ASSUME CountsInv, NEW s \in Sessions, NEW k \in UploadOps \cup DownOps,
           op[s][k] # "idle"
    PROVE  state[s] = "Streaming"
  BY DEF CountsInv, CountInv

\* How a handler of a relay loop leaves the operations of its session.
LEMMA RelayOps ==
    ASSUME TypeOK, NEW s \in Sessions, NEW k \in UploadOps \cup DownOps,
           NEW j \in UploadOps \cup DownOps, j # k, NEW end,
           Chain(s, k, j, end) \/ CloseBoth(s, k)
    PROVE  /\ op'[s][k] = "idle"
           /\ CloseBoth(s, k) => op'[s][j] = op[s][j]
           /\ \A i \in Ops \ {k, j} : op'[s][i] = op[s][i]
           /\ life'[s] = "unborn" => life[s] = "unborn"
           /\ \A t \in Sessions \ {s} : op'[t] = op[t] /\ life'[t] = life[t]
  <1>1. op[s] \in [Ops -> OpStatus] /\ k \in Ops /\ j \in Ops
    BY CountTypes DEF Ops
  <1>2. CASE Chain(s, k, j, end)
    <2>1. PICK v \in OpStatus : v = Started(end)
      BY StatusType
    <2>2. PICK o : o = [op[s] EXCEPT ![k] = "idle", ![j] = v]
      OBVIOUS
    <2>3. /\ o \in [Ops -> OpStatus] /\ o[k] = "idle"
          /\ \A i \in Ops \ {k, j} : o[i] = op[s][i]
      BY <1>1, <2>2 DEF OpStatus
    <2>4. After(s, o, socket[s], outbound[s])
      BY <1>2, <2>1, <2>2, Zenon DEF Chain
    <2>5. /\ op'[s] = o /\ (life'[s] = "unborn" => life[s] = "unborn")
          /\ \A t \in Sessions \ {s} : op'[t] = op[t] /\ life'[t] = life[t]
      BY <2>3, <2>4, AfterOps
    <2>6. CASE CloseBoth(s, k)
      <3>1. op'[s] = [op[s] EXCEPT ![k] = "idle"]
        BY <2>6, CountTypes DEF CloseBoth, After
      <3> QED
        BY <1>1, <2>3, <2>5, <3>1
    <2> QED
      BY <2>3, <2>5, <2>6
  <1>3. CASE CloseBoth(s, k)
    <2>1. PICK o : o = [op[s] EXCEPT ![k] = "idle"]
      OBVIOUS
    <2>2. /\ o \in [Ops -> OpStatus] /\ o[k] = "idle" /\ o[j] = op[s][j]
          /\ \A i \in Ops \ {k, j} : o[i] = op[s][i]
      BY <1>1, <2>1 DEF OpStatus
    <2>3. After(s, o, "closed", Closed(outbound[s]))
      BY <1>3, <2>1, Zenon DEF CloseBoth
    <2>4. /\ op'[s] = o /\ (life'[s] = "unborn" => life[s] = "unborn")
          /\ \A t \in Sessions \ {s} : op'[t] = op[t] /\ life'[t] = life[t]
      BY <2>2, <2>3, AfterOps
    <2> QED
      BY <2>2, <2>4
  <1> QED
    BY <1>2, <1>3

\* The completion of a read of the loop: what was read is counted.
LEMMA C2TReadDoneCounts ==
    ASSUME TypeOK, CountsInv, NEW s \in Sessions, C2TReadDone(s)
    PROVE  CountsInv'
  <1>1. /\ "c2tRead" \in UploadOps \cup DownOps /\ "c2tWrite" \in UploadOps \cup DownOps
        /\ "c2tRead" # "c2tWrite"
        /\ {"t2cRead", "t2cWrite", "initial"} \subseteq Ops \ {"c2tRead", "c2tWrite"}
    BY DEF Ops, SetupOps, UploadOps, DownOps
  <1>2. op[s]["c2tRead"] # "idle"
    BY DEF C2TReadDone, MayFail, AtEof
  <1>3. state[s] = "Streaming"
    BY <1>1, <1>2, RelayStreams
  <1>4. UNCHANGED <<kind, state, toTarget, toClient>>
    BY DEF C2TReadDone, clientVars, wroteVars
  <1>5. PICK end : Chain(s, "c2tRead", "c2tWrite", end) \/ CloseBoth(s, "c2tRead")
    BY Zenon DEF C2TReadDone
  <1>6. /\ op'[s]["c2tRead"] = "idle"
        /\ CloseBoth(s, "c2tRead") => op'[s]["c2tWrite"] = op[s]["c2tWrite"]
        /\ \A i \in Ops \ {"c2tRead", "c2tWrite"} : op'[s][i] = op[s][i]
        /\ life'[s] = "unborn" => life[s] = "unborn"
        /\ \A t \in Sessions \ {s} : op'[t] = op[t] /\ life'[t] = life[t]
    BY <1>1, <1>5, RelayOps
  <1>7. UNCHANGED <<ttaken, dbase, download>>
    BY DEF C2TReadDone, bufferVars
  <1>8. /\ taken \in [Sessions -> Nat] /\ ubase \in [Sessions -> Nat]
        /\ upload \in [Sessions -> Nat] /\ toTarget[s] \in Seq(Nat)
        /\ sent \in [Sessions -> Nat]
    BY CountTypes
  <1>9. PICK n \in Nat, wrote \in Nat, hand \in Int :
            n = upload[s] /\ wrote = Len(toTarget[s]) /\ hand = taken[s] - ubase[s]
    BY <1>8
  <1>10. /\ \A t \in Sessions \ {s} : /\ taken'[t] = taken[t] /\ ubase'[t] = ubase[t]
                                       /\ upload'[t] = upload[t]
         /\ UpFlow(s) => UpFlow(s)'
    <2>1. CASE \E p \in Cuts(s) : /\ taken' = [taken EXCEPT ![s] = p]
                               /\ ubase' = [ubase EXCEPT ![s] = taken[s]]
                               /\ CountUp(s, p - taken[s])
      <3>1. PICK p \in Cuts(s) : /\ taken' = [taken EXCEPT ![s] = p]
                              /\ ubase' = [ubase EXCEPT ![s] = taken[s]]
                              /\ CountUp(s, p - taken[s])
        BY <2>1
      <3>2. PICK h \in Nat : h = p - taken[s]
        BY <1>8, <3>1 DEF Cuts
      <3>3. /\ upload'[s] = n + h /\ taken'[s] - ubase'[s] = h
            /\ \A t \in Sessions \ {s} : /\ taken'[t] = taken[t] /\ ubase'[t] = ubase[t]
                                          /\ upload'[t] = upload[t]
        BY <1>8, <1>9, <3>1, <3>2 DEF CountUp, Cuts
      <3>4. ASSUME UpFlow(s)
            PROVE  UpFlow(s)'
        <4>1. FlowInv(n, wrote, hand, op[s]["c2tRead"], op[s]["c2tWrite"], state[s])
          BY <1>9, <3>4 DEF UpFlow
        <4>2. FlowInv(n + h, wrote, h, "idle", op'[s]["c2tWrite"], state[s])
          BY <1>2, <1>3, <4>1, FlowReads
        <4> QED
          BY <1>4, <1>6, <1>9, <3>3, <4>2 DEF UpFlow
      <3> QED
        BY <3>3, <3>4
    <2>2. CASE CloseBoth(s, "c2tRead") /\ UNCHANGED <<taken, ubase, upload>>
      <3>1. ASSUME UpFlow(s)
            PROVE  UpFlow(s)'
        <4>1. FlowInv(n, wrote, hand, op[s]["c2tRead"], op[s]["c2tWrite"], state[s])
          BY <1>9, <3>1 DEF UpFlow
        <4>2. FlowInv(n, wrote, hand, "idle", op[s]["c2tWrite"], state[s])
          BY <1>2, <1>3, <4>1, FlowReads
        <4> QED
          BY <1>4, <1>6, <1>9, <2>2, <4>2 DEF UpFlow
      <3> QED
        BY <2>2, <3>1
    <2> QED
      BY <2>1, <2>2 DEF C2TReadDone
  <1>11. DownFlow(s) => DownFlow(s)'
    BY <1>1, <1>4, <1>6, <1>7 DEF DownFlow
  <1>12. RelayStep(s)
    BY <1>1, <1>3, <1>4, <1>6, <1>7, <1>10 DEF RelayStep, OthersLeft
  <1> QED
    BY <1>10, <1>11, <1>12, RelayCounts

\* The completion of a write of the loop: all it had in hand, or a part.
LEMMA C2TWriteDoneCounts ==
    ASSUME TypeOK, CountsInv, NEW s \in Sessions, C2TWriteDone(s)
    PROVE  CountsInv'
  <1>1. /\ "c2tRead" \in UploadOps \cup DownOps /\ "c2tWrite" \in UploadOps \cup DownOps
        /\ "c2tRead" # "c2tWrite"
        /\ {"t2cRead", "t2cWrite", "initial"} \subseteq Ops \ {"c2tRead", "c2tWrite"}
    BY DEF Ops, SetupOps, UploadOps, DownOps
  <1>2. op[s]["c2tWrite"] # "idle"
    BY DEF C2TWriteDone, MayFail
  <1>3. state[s] = "Streaming"
    BY <1>1, <1>2, RelayStreams
  <1>4. UNCHANGED <<kind, state, upload, download, taken, ubase, ttaken, dbase, toClient>>
    BY DEF C2TWriteDone, clientVars, bufferVars, countVars
  <1>5. PICK end : Chain(s, "c2tWrite", "c2tRead", end) \/ CloseBoth(s, "c2tWrite")
    BY Zenon DEF C2TWriteDone
  <1>6. /\ op'[s]["c2tWrite"] = "idle"
        /\ CloseBoth(s, "c2tWrite") => op'[s]["c2tRead"] = op[s]["c2tRead"]
        /\ \A i \in Ops \ {"c2tWrite", "c2tRead"} : op'[s][i] = op[s][i]
        /\ life'[s] = "unborn" => life[s] = "unborn"
        /\ \A t \in Sessions \ {s} : op'[t] = op[t] /\ life'[t] = life[t]
    BY <1>1, <1>5, RelayOps
  <1>7. /\ toTarget \in [Sessions -> Seq(Nat)] /\ upload[s] \in Nat
        /\ taken[s] \in Nat /\ ubase[s] \in Nat
    BY CountTypes
  <1>8. PICK n \in Nat, q \in Seq(Nat), wrote \in Nat, hand \in Int :
            n = upload[s] /\ q = toTarget[s] /\ wrote = Len(q) /\ hand = taken[s] - ubase[s]
    BY <1>7
  <1>9. PICK h \in 0 .. hand :
            /\ toTarget' = [toTarget EXCEPT ![s] = @ \o Units(ubase[s], h)]
            /\ (h = hand) \/ CloseBoth(s, "c2tWrite")
    BY <1>8 DEF C2TWriteDone
  <1>10. h \in Nat /\ h <= hand
    BY <1>9
  <1>11. /\ Len(toTarget'[s]) = wrote + h
         /\ \A t \in Sessions \ {s} : toTarget'[t] = toTarget[t]
    BY <1>7, <1>8, <1>9, <1>10, UnitsLen
  <1>12. ASSUME UpFlow(s)
         PROVE  UpFlow(s)'
    <2>1. FlowInv(n, wrote, hand, op[s]["c2tRead"], op[s]["c2tWrite"], state[s])
      BY <1>8, <1>12 DEF UpFlow
    <2>2. FlowInv(n, wrote + h, hand, op'[s]["c2tRead"], "idle", state[s])
      <3>1. CASE h = hand
        BY <1>2, <1>3, <1>10, <2>1, <3>1, FlowWrites
      <3>2. CASE CloseBoth(s, "c2tWrite")
        BY <1>2, <1>3, <1>6, <1>10, <2>1, <3>2, FlowWrites
      <3> QED
        BY <1>9, <3>1, <3>2
    <2> QED
      BY <1>4, <1>6, <1>8, <1>11, <2>2 DEF UpFlow
  <1>13. DownFlow(s) => DownFlow(s)'
    BY <1>1, <1>4, <1>6 DEF DownFlow
  <1>14. RelayStep(s)
    BY <1>1, <1>3, <1>4, <1>6, <1>11 DEF RelayStep, OthersLeft
  <1> QED
    BY <1>12, <1>13, <1>14, RelayCounts

\* The completion of a read of the loop: what was read is counted.
LEMMA T2CReadDoneCounts ==
    ASSUME TypeOK, CountsInv, NEW s \in Sessions, T2CReadDone(s)
    PROVE  CountsInv'
  <1>1. /\ "t2cRead" \in UploadOps \cup DownOps /\ "t2cWrite" \in UploadOps \cup DownOps
        /\ "t2cRead" # "t2cWrite"
        /\ {"c2tRead", "c2tWrite", "initial"} \subseteq Ops \ {"t2cRead", "t2cWrite"}
    BY DEF Ops, SetupOps, UploadOps, DownOps
  <1>2. op[s]["t2cRead"] # "idle"
    BY DEF T2CReadDone, MayFail, AtEof
  <1>3. state[s] = "Streaming"
    BY <1>1, <1>2, RelayStreams
  <1>4. UNCHANGED <<kind, state, toTarget, toClient>>
    BY DEF T2CReadDone, clientVars, wroteVars
  <1>5. PICK end : Chain(s, "t2cRead", "t2cWrite", end) \/ CloseBoth(s, "t2cRead")
    BY Zenon DEF T2CReadDone
  <1>6. /\ op'[s]["t2cRead"] = "idle"
        /\ CloseBoth(s, "t2cRead") => op'[s]["t2cWrite"] = op[s]["t2cWrite"]
        /\ \A i \in Ops \ {"t2cRead", "t2cWrite"} : op'[s][i] = op[s][i]
        /\ life'[s] = "unborn" => life[s] = "unborn"
        /\ \A t \in Sessions \ {s} : op'[t] = op[t] /\ life'[t] = life[t]
    BY <1>1, <1>5, RelayOps
  <1>7. UNCHANGED <<taken, ubase, upload>>
    BY DEF T2CReadDone, bufferVars
  <1>8. /\ ttaken \in [Sessions -> Nat] /\ dbase \in [Sessions -> Nat]
        /\ download \in [Sessions -> Nat] /\ toClient[s] \in Seq(Nat)
        /\ tsent \in [Sessions -> Nat]
    BY CountTypes
  <1>9. PICK n \in Nat, wrote \in Nat, hand \in Int :
            n = download[s] /\ wrote = Len(toClient[s]) /\ hand = ttaken[s] - dbase[s]
    BY <1>8
  <1>10. /\ \A t \in Sessions \ {s} : /\ ttaken'[t] = ttaken[t] /\ dbase'[t] = dbase[t]
                                       /\ download'[t] = download[t]
         /\ DownFlow(s) => DownFlow(s)'
    <2>1. CASE \E p \in ttaken[s] + 1 .. tsent[s] : /\ ttaken' = [ttaken EXCEPT ![s] = p]
                               /\ dbase' = [dbase EXCEPT ![s] = ttaken[s]]
                               /\ CountDown(s, p - ttaken[s])
      <3>1. PICK p \in ttaken[s] + 1 .. tsent[s] : /\ ttaken' = [ttaken EXCEPT ![s] = p]
                              /\ dbase' = [dbase EXCEPT ![s] = ttaken[s]]
                              /\ CountDown(s, p - ttaken[s])
        BY <2>1
      <3>2. PICK h \in Nat : h = p - ttaken[s]
        BY <1>8, <3>1 DEF Cuts
      <3>3. /\ download'[s] = n + h /\ ttaken'[s] - dbase'[s] = h
            /\ \A t \in Sessions \ {s} : /\ ttaken'[t] = ttaken[t] /\ dbase'[t] = dbase[t]
                                          /\ download'[t] = download[t]
        BY <1>8, <1>9, <3>1, <3>2 DEF CountDown, Cuts
      <3>4. ASSUME DownFlow(s)
            PROVE  DownFlow(s)'
        <4>1. FlowInv(n, wrote, hand, op[s]["t2cRead"], op[s]["t2cWrite"], state[s])
          BY <1>9, <3>4 DEF DownFlow
        <4>2. FlowInv(n + h, wrote, h, "idle", op'[s]["t2cWrite"], state[s])
          BY <1>2, <1>3, <4>1, FlowReads
        <4> QED
          BY <1>4, <1>6, <1>9, <3>3, <4>2 DEF DownFlow
      <3> QED
        BY <3>3, <3>4
    <2>2. CASE CloseBoth(s, "t2cRead") /\ UNCHANGED <<ttaken, dbase, download>>
      <3>1. ASSUME DownFlow(s)
            PROVE  DownFlow(s)'
        <4>1. FlowInv(n, wrote, hand, op[s]["t2cRead"], op[s]["t2cWrite"], state[s])
          BY <1>9, <3>1 DEF DownFlow
        <4>2. FlowInv(n, wrote, hand, "idle", op[s]["t2cWrite"], state[s])
          BY <1>2, <1>3, <4>1, FlowReads
        <4> QED
          BY <1>4, <1>6, <1>9, <2>2, <4>2 DEF DownFlow
      <3> QED
        BY <2>2, <3>1
    <2> QED
      BY <2>1, <2>2 DEF T2CReadDone
  <1>11. UpFlow(s) => UpFlow(s)'
    BY <1>1, <1>4, <1>6, <1>7 DEF UpFlow
  <1>12. RelayStep(s)
    BY <1>1, <1>3, <1>4, <1>6, <1>7, <1>10 DEF RelayStep, OthersLeft
  <1> QED
    BY <1>10, <1>11, <1>12, RelayCounts

\* The completion of a write of the loop: all it had in hand, or a part.
LEMMA T2CWriteDoneCounts ==
    ASSUME TypeOK, CountsInv, NEW s \in Sessions, T2CWriteDone(s)
    PROVE  CountsInv'
  <1>1. /\ "t2cRead" \in UploadOps \cup DownOps /\ "t2cWrite" \in UploadOps \cup DownOps
        /\ "t2cRead" # "t2cWrite"
        /\ {"c2tRead", "c2tWrite", "initial"} \subseteq Ops \ {"t2cRead", "t2cWrite"}
    BY DEF Ops, SetupOps, UploadOps, DownOps
  <1>2. op[s]["t2cWrite"] # "idle"
    BY DEF T2CWriteDone, MayFail
  <1>3. state[s] = "Streaming"
    BY <1>1, <1>2, RelayStreams
  <1>4. UNCHANGED <<kind, state, upload, download, taken, ubase, ttaken, dbase, toTarget>>
    BY DEF T2CWriteDone, clientVars, bufferVars, countVars
  <1>5. PICK end : Chain(s, "t2cWrite", "t2cRead", end) \/ CloseBoth(s, "t2cWrite")
    BY Zenon DEF T2CWriteDone
  <1>6. /\ op'[s]["t2cWrite"] = "idle"
        /\ CloseBoth(s, "t2cWrite") => op'[s]["t2cRead"] = op[s]["t2cRead"]
        /\ \A i \in Ops \ {"t2cWrite", "t2cRead"} : op'[s][i] = op[s][i]
        /\ life'[s] = "unborn" => life[s] = "unborn"
        /\ \A t \in Sessions \ {s} : op'[t] = op[t] /\ life'[t] = life[t]
    BY <1>1, <1>5, RelayOps
  <1>7. /\ toClient \in [Sessions -> Seq(Nat)] /\ download[s] \in Nat
        /\ ttaken[s] \in Nat /\ dbase[s] \in Nat
    BY CountTypes
  <1>8. PICK n \in Nat, q \in Seq(Nat), wrote \in Nat, hand \in Int :
            n = download[s] /\ q = toClient[s] /\ wrote = Len(q) /\ hand = ttaken[s] - dbase[s]
    BY <1>7
  <1>9. PICK h \in 0 .. hand :
            /\ toClient' = [toClient EXCEPT ![s] = @ \o Units(dbase[s], h)]
            /\ (h = hand) \/ CloseBoth(s, "t2cWrite")
    BY <1>8 DEF T2CWriteDone
  <1>10. h \in Nat /\ h <= hand
    BY <1>9
  <1>11. /\ Len(toClient'[s]) = wrote + h
         /\ \A t \in Sessions \ {s} : toClient'[t] = toClient[t]
    BY <1>7, <1>8, <1>9, <1>10, UnitsLen
  <1>12. ASSUME DownFlow(s)
         PROVE  DownFlow(s)'
    <2>1. FlowInv(n, wrote, hand, op[s]["t2cRead"], op[s]["t2cWrite"], state[s])
      BY <1>8, <1>12 DEF DownFlow
    <2>2. FlowInv(n, wrote + h, hand, op'[s]["t2cRead"], "idle", state[s])
      <3>1. CASE h = hand
        BY <1>2, <1>3, <1>10, <2>1, <3>1, FlowWrites
      <3>2. CASE CloseBoth(s, "t2cWrite")
        BY <1>2, <1>3, <1>6, <1>10, <2>1, <3>2, FlowWrites
      <3> QED
        BY <1>9, <3>1, <3>2
    <2> QED
      BY <1>4, <1>6, <1>8, <1>11, <2>2 DEF DownFlow
  <1>13. UpFlow(s) => UpFlow(s)'
    BY <1>1, <1>4, <1>6 DEF UpFlow
  <1>14. RelayStep(s)
    BY <1>1, <1>3, <1>4, <1>6, <1>11 DEF RelayStep, OthersLeft
  <1> QED
    BY <1>12, <1>13, <1>14, RelayCounts

\* Before the first connection nothing is counted.
LEMMA CountsInit == ASSUME Init PROVE CountsInv
  <1> SUFFICES ASSUME NEW s \in Sessions
               PROVE  CountInv(kind[s], life[s], op[s], state[s], UpFlow(s), DownFlow(s))
    BY DEF CountsInv
  <1>1. UploadOps \cup DownOps \subseteq Ops /\ "initial" \in Ops
    BY DEF Ops, SetupOps
  <1>2. /\ kind[s] = "none" /\ \A k \in Ops : op[s][k] = "idle"
        /\ upload[s] = 0 /\ download[s] = 0
        /\ Len(toTarget[s]) = 0 /\ Len(toClient[s]) = 0
        /\ taken[s] - ubase[s] = 0 /\ ttaken[s] - dbase[s] = 0
    BY DEF Init, NoOps
  <1>3. /\ op[s]["c2tRead"] = "idle" /\ op[s]["c2tWrite"] = "idle"
        /\ op[s]["t2cRead"] = "idle" /\ op[s]["t2cWrite"] = "idle"
    BY <1>1, <1>2 DEF UploadOps, DownOps
  <1>4. UpFlow(s) /\ DownFlow(s)
    BY <1>2, <1>3, NothingYet DEF UpFlow, DownFlow
  <1> QED
    BY <1>1, <1>2, <1>4 DEF CountInv

\* A step that changes nothing of this keeps it.
LEMMA IdleCounts ==
    ASSUME CountsInv,
           UNCHANGED <<kind, life, op, state, upload, download, toTarget, toClient,
                       taken, ubase, ttaken, dbase>>
    PROVE  CountsInv'
  <1>1. ASSUME NEW s \in Sessions
        PROVE  /\ UpFlow(s) => UpFlow(s)'
               /\ DownFlow(s) => DownFlow(s)'
    BY DEF UpFlow, DownFlow
  <1>2. ASSUME NEW s \in Sessions
        PROVE  CountInv(kind[s], life[s], op[s], state[s], UpFlow(s), DownFlow(s))'
    <2>1. CountInv(kind[s], life[s], op[s], state[s], UpFlow(s), DownFlow(s))
      BY DEF CountsInv
    <2> QED
      BY <1>1, <2>1 DEF CountInv
  <1> QED
    BY <1>2 DEF CountsInv

\* Every step keeps what is counted of each session.
LEMMA CountsStep ==
    ASSUME TypeOK, LifeInv, CountsInv, [Next]_vars
    PROVE  CountsInv'
  <1>1. CASE UNCHANGED vars
    BY <1>1, IdleCounts DEF vars, clientVars, lifeVars, bufferVars, countVars, wroteVars
  <1>2. ASSUME NEW s \in Sessions,
               \/ ApiClose(s) \/ ClientSend(s) \/ ClientEnd(s)
               \/ TargetSend(s) \/ TargetEnd(s)
        PROVE  CountsInv'
    BY <1>2, IdleCounts DEF ApiClose, ClientSend, ClientEnd, TargetSend, TargetEnd,
           clientVars, lifeVars, bufferVars, countVars, wroteVars
  <1>3. ASSUME NEW s \in Sessions, Accept(s)
        PROVE  CountsInv'
    BY <1>3, AcceptCounts
  <1>4. ASSUME NEW s \in Sessions, ReadHandshake(s) \/ ReadRequest(s) \/ ReadError(s)
        PROVE  CountsInv'
    BY <1>4, ReadCounts
  <1>5. ASSUME NEW s \in Sessions,
               GreetDone(s) \/ DialDone(s) \/ ReplyDone(s) \/ InitialDone(s)
        PROVE  CountsInv'
    BY <1>5, GreetCounts, DialCounts, FirstCounts
  <1>6. ASSUME NEW s \in Sessions,
               C2TReadDone(s) \/ C2TWriteDone(s) \/ T2CReadDone(s) \/ T2CWriteDone(s)
        PROVE  CountsInv'
    BY <1>6, C2TReadDoneCounts, C2TWriteDoneCounts, T2CReadDoneCounts, T2CWriteDoneCounts
  <1> QED
    BY <1>1, <1>2, <1>3, <1>4, <1>5, <1>6, Zenon DEF Next

-----------------------------------------------------------------------------
(* The totals. *)

TotalsInv == totalUp = SumFunction(upload) /\ totalDown = SumFunction(download)

\* The totals begin as the sums of nothing.
LEMMA TotalsInit == ASSUME SessionAssumption, Init PROVE TotalsInv
  <1>1. IsFiniteSet(Sessions)
    BY DEF SessionAssumption
  <1>2. /\ upload = [s \in Sessions |-> 0] /\ download = [s \in Sessions |-> 0]
        /\ totalUp = 0 /\ totalDown = 0
    BY DEF Init
  <1> QED
    BY <1>1, <1>2, SumOfNothing DEF TotalsInv

\* A read of the relay adds the same to its session's counter and to the total,
\* and no other step touches either.
LEMMA TotalsStep ==
    ASSUME SessionAssumption, TypeOK, TotalsInv, [Next]_vars
    PROVE  TotalsInv'
  <1>1. IsFiniteSet(Sessions)
    BY DEF SessionAssumption
  <1>2. /\ upload \in [Sessions -> Nat] /\ download \in [Sessions -> Nat]
        /\ taken \in [Sessions -> Nat] /\ ttaken \in [Sessions -> Nat]
        /\ sent \in [Sessions -> Nat] /\ tsent \in [Sessions -> Nat]
    BY CountTypes
  <1>3. CASE UNCHANGED countVars
    BY <1>3 DEF TotalsInv, countVars
  <1>4. ASSUME NEW s \in Sessions, C2TReadDone(s)
        PROVE  TotalsInv'
    <2>1. CASE \E p \in Cuts(s) : CountUp(s, p - taken[s])
      <3>1. PICK p \in Cuts(s) : CountUp(s, p - taken[s])
        BY <2>1
      <3>2. PICK n \in Nat : n = p - taken[s]
        BY <1>2, <3>1 DEF Cuts
      <3>3. upload' = [upload EXCEPT ![s] = @ + n] /\ totalUp' = totalUp + n
        BY <3>1, <3>2 DEF CountUp
      <3>4. SumFunction(upload') = SumFunction(upload) + n
        <4>1. PICK f \in [Sessions -> Nat], e \in [Sessions -> Nat] : f = upload /\ e = upload'
          BY <1>2, <3>3
        <4>2. e[s] = f[s] + n /\ \A t \in Sessions \ {s} : e[t] = f[t]
          BY <3>3, <4>1
        <4>3. SumFunction(e) = SumFunction(f) + n
          BY <1>1, <4>2, SumGrows
        <4> QED
          BY <4>1, <4>3
      <3> QED
        BY <1>4, <3>3, <3>4 DEF TotalsInv, C2TReadDone
    <2>2. CASE UNCHANGED <<upload, totalUp>>
      BY <1>4, <2>2 DEF C2TReadDone, TotalsInv
    <2> QED
      BY <1>4, <2>1, <2>2 DEF C2TReadDone
  <1>5. ASSUME NEW s \in Sessions, T2CReadDone(s)
        PROVE  TotalsInv'
    <2>1. CASE \E p \in ttaken[s] + 1 .. tsent[s] : CountDown(s, p - ttaken[s])
      <3>1. PICK p \in ttaken[s] + 1 .. tsent[s] : CountDown(s, p - ttaken[s])
        BY <2>1
      <3>2. PICK n \in Nat : n = p - ttaken[s]
        BY <1>2, <3>1
      <3>3. download' = [download EXCEPT ![s] = @ + n] /\ totalDown' = totalDown + n
        BY <3>1, <3>2 DEF CountDown
      <3>4. SumFunction(download') = SumFunction(download) + n
        <4>1. PICK f \in [Sessions -> Nat], e \in [Sessions -> Nat] : f = download /\ e = download'
          BY <1>2, <3>3
        <4>2. e[s] = f[s] + n /\ \A t \in Sessions \ {s} : e[t] = f[t]
          BY <3>3, <4>1
        <4>3. SumFunction(e) = SumFunction(f) + n
          BY <1>1, <4>2, SumGrows
        <4> QED
          BY <4>1, <4>3
      <3> QED
        BY <1>5, <3>3, <3>4 DEF TotalsInv, T2CReadDone
    <2>2. CASE UNCHANGED <<download, totalDown>>
      BY <1>5, <2>2 DEF T2CReadDone, TotalsInv
    <2> QED
      BY <1>5, <2>1, <2>2 DEF T2CReadDone
  <1>6. ASSUME NEW s \in Sessions,
               \/ Accept(s) \/ ReadHandshake(s) \/ ReadRequest(s) \/ ReadError(s)
               \/ GreetDone(s) \/ DialDone(s) \/ ReplyDone(s) \/ InitialDone(s)
        PROVE  UNCHANGED countVars
    BY <1>6 DEF Accept, ReadHandshake, ReadRequest, ReadError, GreetDone, DialDone,
                ReplyDone, InitialDone
  <1>7. ASSUME NEW s \in Sessions,
               \/ C2TWriteDone(s) \/ T2CWriteDone(s) \/ ApiClose(s)
               \/ ClientSend(s) \/ ClientEnd(s) \/ TargetSend(s) \/ TargetEnd(s)
        PROVE  UNCHANGED countVars
    BY <1>7 DEF C2TWriteDone, T2CWriteDone, ApiClose, ClientSend, ClientEnd,
                TargetSend, TargetEnd
  <1>8. CASE UNCHANGED vars
    BY <1>3, <1>8 DEF vars
  <1> QED
    BY <1>3, <1>4, <1>5, <1>6, <1>7, <1>8, Zenon DEF Next

\* Each session's counters agree with what its peers were sent, and the totals
\* are the sums of the counters, for any number of sessions in any order.
THEOREM CountsAreRelayed == Spec => []CountsRelayed
  <1>1. Init => CountsInv /\ TotalsInv
    BY CountsInit, TotalsInit, SessionAssumption
  <1>2. TypeOK /\ LifeInv /\ CountsInv /\ TotalsInv /\ [Next]_vars
            => CountsInv' /\ TotalsInv'
    BY CountsStep, TotalsStep, SessionAssumption
  <1>3. IInv => TypeOK /\ LifeInv
    BY DEF IInv
  <1>4. CountsInv /\ TotalsInv => CountsRelayed
    <2> SUFFICES ASSUME CountsInv, TotalsInv
                 PROVE  CountsRelayed
      OBVIOUS
    <2>1. ASSUME NEW s \in Sessions
          PROVE  /\ Counted(download[s], Len(toClient[s]), ttaken[s] - dbase[s],
                            op[s]["t2cRead"], op[s]["t2cWrite"])
                 /\ kind[s] # "plain" =>
                     Counted(upload[s], Len(toTarget[s]), taken[s] - ubase[s],
                             op[s]["c2tRead"], op[s]["c2tWrite"])
      <3>1. DownFlow(s) /\ (kind[s] # "plain" => UpFlow(s))
        BY Zenon DEF CountsInv, CountInv
      <3> QED
        BY <3>1, Zenon DEF UpFlow, DownFlow, FlowInv
    <2> QED
      BY <2>1, Zenon DEF CountsRelayed, TotalsInv
  <1>5. QED
    BY <1>1, <1>2, <1>3, <1>4, Lifetime, PTL DEF Spec

=============================================================================
