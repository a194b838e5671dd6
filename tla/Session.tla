------------------------------ MODULE Session ------------------------------
(***************************************************************************)
(* The inbound side of the proxy: TcpListener, Session, ConnectionManager  *)
(* and TrafficManager, with the clients and targets as environment.        *)
(*                                                                         *)
(* One thread runs io_context.run(); every action is one completion        *)
(* handler, run to its end.  A Session has no owner: it lives as long as a *)
(* pending operation holds a handler with `self`.  op[s] says which        *)
(* operations are outstanding, After() runs the destructor when the        *)
(* handler that returns leaves none.                                       *)
(*                                                                         *)
(* Data: the bytes a client sends are the positions 1, 2, ... of its       *)
(* stream, a unit standing for a run of bytes the code never cuts apart    *)
(* with another effect: first the preamble (SOCKS: version | nmethods |    *)
(* methods, request head | request rest; HTTP: method | host | the other   *)
(* header lines), then payload.                                            *)
(* A read takes the positions after `taken` up to some `p`.                *)
(*                                                                         *)
(* Not here: what Tunnel::match and the dialers do (the dial completes in  *)
(* some way, or refuses in the call itself), the wording of the replies,   *)
(* socket_.close() throwing, accept errors (they leave nothing behind).    *)
(***************************************************************************)
EXTENDS Integers, Sequences, FiniteSets, Functions

CONSTANTS
    Sessions,   \* the connections that may be accepted, as many as one likes; each
                \* is used once
    ClientKinds,\* which of "socks", "connect" and "plain" clients connect
    Payload,    \* bound: payload units a client may send
    Answer,     \* bound: units a target may send
    Eager,      \* clients may send on before they have seen a reply
    Segmented   \* a read may see a part of one handshake message

ASSUME SessionAssumption ==
    /\ IsFiniteSet(Sessions)
    /\ ClientKinds \subseteq {"socks", "connect", "plain"}
    /\ Payload \in Nat /\ Answer \in Nat
    /\ Eager \in BOOLEAN /\ Segmented \in BOOLEAN

VARIABLES
    running,     \* io_context.run() has not been left by an exception
    kind, sent, cli, greeted, replied,          \* the client
    tsent, tgt,                                 \* the target
    life, state, op, socket, outbound, routed,  \* the Session
    taken, ubase, ttaken, dbase,                \* its buffers
    connections,                                \* ConnectionManager
    upload, download, totalUp, totalDown,       \* traffic counters
    toTarget, toClient,      \* history: units written to each peer
    apiClosed                \* history: closed through the REST API

clientVars == <<kind, sent, cli, greeted, replied>>
targetVars == <<tsent, tgt>>
lifeVars   == <<life, op, socket, outbound, connections>>
bufferVars == <<taken, ubase, ttaken, dbase>>
countVars  == <<upload, download, totalUp, totalDown>>
wroteVars  == <<toTarget, toClient>>
vars == <<running, clientVars, targetVars, lifeVars, state, routed,
          bufferVars, countVars, wroteVars, apiClosed>>

SetupOps  == {"read", "greet", "dial", "reply", "initial"}
UploadOps == {"c2tRead", "c2tWrite"}
DownOps   == {"t2cRead", "t2cWrite"}
Ops       == SetupOps \cup UploadOps \cup DownOps
\* "doomed": started on a socket that was already closed.
OpStatus  == {"idle", "live", "doomed"}
NoOps     == [k \in Ops |-> "idle"]

GreetLen == 3
ReqLen   == 2
HostLen  == 2
HttpLen  == 3
\* Length of the preamble of a client's stream, and of the whole of it.
Hdr(kd)   == IF kd = "socks" THEN GreetLen + ReqLen ELSE HttpLen
Total(kd) == Hdr(kd) + Payload
\* Ends of the messages a client writes in one go.
MsgEnds(kd) == (IF kd = "socks" THEN {GreetLen} ELSE {})
                 \cup Hdr(kd) .. Total(kd)
\* What reaches the target starts after this position.
Base(kd) == IF kd = "plain" THEN 0 ELSE Hdr(kd)

Init ==
    /\ running = TRUE
    /\ kind      = [s \in Sessions |-> "none"]
    /\ sent      = [s \in Sessions |-> 0]
    /\ cli       = [s \in Sessions |-> "open"]
    /\ greeted   = [s \in Sessions |-> FALSE]
    /\ replied   = [s \in Sessions |-> FALSE]
    /\ tsent     = [s \in Sessions |-> 0]
    /\ tgt       = [s \in Sessions |-> "open"]
    /\ life      = [s \in Sessions |-> "unborn"]
    /\ state     = [s \in Sessions |-> "Handshake"]
    /\ op        = [s \in Sessions |-> NoOps]
    /\ socket    = [s \in Sessions |-> "open"]
    /\ outbound  = [s \in Sessions |-> "null"]
    /\ routed    = [s \in Sessions |-> "none"]
    /\ taken     = [s \in Sessions |-> 0]
    /\ ubase     = [s \in Sessions |-> 0]
    /\ ttaken    = [s \in Sessions |-> 0]
    /\ dbase     = [s \in Sessions |-> 0]
    /\ connections = {}
    /\ upload    = [s \in Sessions |-> 0]
    /\ download  = [s \in Sessions |-> 0]
    /\ totalUp   = 0
    /\ totalDown = 0
    /\ toTarget  = [s \in Sessions |-> <<>>]
    /\ toClient  = [s \in Sessions |-> <<>>]
    /\ apiClosed = [s \in Sessions |-> FALSE]

-----------------------------------------------------------------------------
(* What handlers share. *)

\* Some operation of K is outstanding in o; at most one is.
SomeOf(o, K) == \E k \in K : o[k] # "idle"
AtMostOne(o, K) ==
    \A j, k \in K : o[j] # "idle" /\ o[k] # "idle" => j = k

Busy(o) == SomeOf(o, Ops)

Started(end) == IF end = "open" THEN "live" ELSE "doomed"

Closed(end) == IF end = "null" THEN "null" ELSE "closed"

\* Mutant: the destructor does not call ConnectionManager::remove.
After_NoRemove(s, o, sock, out) ==
    /\ op' = [op EXCEPT ![s] = o]
    /\ socket' = [socket EXCEPT ![s] = sock]
    /\ outbound' = [outbound EXCEPT ![s] = out]
    /\ life' = [life EXCEPT ![s] = IF Busy(o) THEN @ ELSE "gone"]
    /\ UNCHANGED connections
\* A handler of s returns, leaving the operations o and its two ends.  With
\* no operation left the last shared_ptr is gone and ~Session runs.
After(s, o, sock, out) ==
    /\ op' = [op EXCEPT ![s] = o]
    /\ IF Busy(o)
       THEN /\ socket' = [socket EXCEPT ![s] = sock]
            /\ outbound' = [outbound EXCEPT ![s] = out]
            /\ UNCHANGED <<life, connections>>
       ELSE /\ socket' = [socket EXCEPT ![s] = "closed"]
            /\ outbound' = [outbound EXCEPT ![s] = Closed(out)]
            /\ life' = [life EXCEPT ![s] = "gone"]
            /\ connections' = connections \ {s}

\* The handler of operation k only logs: nothing follows it.
Drop(s, k) ==
    After(s, [op[s] EXCEPT ![k] = "idle"], socket[s], outbound[s])

\* Mutant: the next operation is started and this one again.
Chain_Again(s, k, j, end) ==
    After(s, [op[s] EXCEPT ![j] = Started(end)], socket[s], outbound[s])
\* The handler of operation k starts operation j on an end.
Chain(s, k, j, end) ==
    After(s, [op[s] EXCEPT ![k] = "idle", ![j] = Started(end)],
          socket[s], outbound[s])

\* Mutant: only the client's end is closed.
CloseBoth_SocketOnly(s, k) ==
    After(s, [op[s] EXCEPT ![k] = "idle"], "closed", outbound[s])
\* Mutant: only the outbound end is closed.
CloseBoth_OutboundOnly(s, k) ==
    After(s, [op[s] EXCEPT ![k] = "idle"], socket[s], Closed(outbound[s]))
\* The handler of k closes both ends.
CloseBoth(s, k) ==
    After(s, [op[s] EXCEPT ![k] = "idle"], "closed", Closed(outbound[s]))

\* A completion may carry an error: the operation was started on or cut by a
\* closed socket, or the peer is gone.
MayFail(s, k, end, peer) ==
    /\ op[s][k] # "idle"
    /\ op[s][k] = "doomed" \/ end # "open" \/ peer = "gone"

\* A read meets the end of the stream.
AtEof(s, k, peer, unread) == op[s][k] = "live" /\ peer = "half" /\ ~unread

\* addUpload and upload_.fetch_add.
CountUp(s, n) ==
    /\ upload' = [upload EXCEPT ![s] = @ + n]
    /\ totalUp' = totalUp + n

\* Mutant: the bytes reach the session's counter only.
CountDown_SessionOnly(s, n) ==
    download' = [download EXCEPT ![s] = @ + n] /\ UNCHANGED totalDown
\* addDownload and download_.fetch_add.
CountDown(s, n) ==
    /\ download' = [download EXCEPT ![s] = @ + n]
    /\ totalDown' = totalDown + n

\* Mutant: a plain request is answered like CONNECT and not forwarded.
FirstWrite_Reply(kd) == "reply"
\* What handle_connect and handle_connect_http write once dialled.
FirstWrite(kd) == IF kd = "plain" THEN "initial" ELSE "reply"

\* Where a read from the client may end.
Cuts(s) == { p \in taken[s] + 1 .. sent[s] :
                Segmented \/ p \in MsgEnds(kind[s]) }

\* The n units after lo.
Units(lo, n) == [i \in 1 .. n |-> lo + i]

-----------------------------------------------------------------------------
(* TcpListener::do_accept, the constructor and Session::start. *)

Accept(s) ==
    /\ running /\ life[s] = "unborn"
    /\ life' = [life EXCEPT ![s] = "alive"]
    /\ \E kd \in ClientKinds : kind' = [kind EXCEPT ![s] = kd]
    /\ connections' = connections \cup {s}
    /\ op' = [op EXCEPT ![s]["read"] = "live"]
    /\ UNCHANGED <<running, sent, cli, greeted, replied, targetVars, socket,
                   outbound, state, routed, bufferVars, countVars, wroteVars,
                   apiClosed>>

\* handle_connect, handle_connect_http up to the dial: the adapter dials, or
\* refuses within the call (REJECT, an empty group) and nothing is left.
Connect(s, dest) ==
    /\ routed' = [routed EXCEPT ![s] = dest]
    /\ \/ After(s, [op[s] EXCEPT !["read"] = "idle", !["dial"] = "live"],
                socket[s], outbound[s])
       \/ IF kind[s] = "socks" THEN Drop(s, "read") ELSE CloseBoth(s, "read")

\* handle_socks5_handshake on the bytes up to p, then the reply is written.
HandleSocks5Handshake(s, p) ==
    /\ kind[s] = "socks"
    /\ IF p < 2 THEN Drop(s, "read") ELSE Chain(s, "read", "greet", socket[s])
    /\ UNCHANGED <<running, routed>>

\* handle_http_request on the bytes up to p.
HandleHttpRequest(s, p) ==
    /\ kind[s] # "socks"
    /\ \/ p >= HostLen /\ Connect(s, "asked") /\ UNCHANGED running
       \/ \* no host found
          Drop(s, "read") /\ UNCHANGED <<running, routed>>
       \/ \* "\r\nHost: " at the end of the chunk gives part of a name
          /\ kind[s] = "plain" /\ p < HostLen
          /\ Connect(s, "other") /\ UNCHANGED running
       \/ \* std::stoi on the port throws out of the handler and of run()
          running' = FALSE /\ UNCHANGED <<lifeVars, routed>>

\* handle_socks5_request on the bytes after taken up to p.  A chunk that does
\* not start at the request is parsed all the same, as whatever it says.
HandleSocks5Request(s, p) ==
    \/ \* too short, or a command or address type not supported
       Drop(s, "read") /\ UNCHANGED <<running, routed>>
    \/ /\ taken[s] = GreetLen /\ p >= GreetLen + ReqLen
       /\ Connect(s, "asked") /\ UNCHANGED running
    \/ taken[s] # GreetLen /\ Connect(s, "other") /\ UNCHANGED running
    \/ \* a name of 249 bytes or more: its length is read as a signed char,
       \* and std::string's constructor throws
       running' = FALSE /\ UNCHANGED <<lifeVars, routed>>

\* do_read in Handshake: the first bytes of the client, told by buffer_[0].
ReadHandshake(s) ==
    /\ running /\ op[s]["read"] = "live" /\ state[s] = "Handshake"
    /\ \E p \in Cuts(s) :
        /\ taken' = [taken EXCEPT ![s] = p]
        /\ HandleSocks5Handshake(s, p) \/ HandleHttpRequest(s, p)
    /\ UNCHANGED <<clientVars, targetVars, state, ubase, ttaken, dbase,
                   countVars, wroteVars, apiClosed>>

ReadRequest(s) ==
    /\ running /\ op[s]["read"] = "live" /\ state[s] = "Request"
    /\ \E p \in Cuts(s) :
        /\ taken' = [taken EXCEPT ![s] = p]
        /\ HandleSocks5Request(s, p)
    /\ UNCHANGED <<clientVars, targetVars, state, ubase, ttaken,
                   dbase, countVars, wroteVars, apiClosed>>

ReadError(s) ==
    /\ running
    /\ \/ MayFail(s, "read", socket[s], cli[s])
       \/ AtEof(s, "read", cli[s], taken[s] < sent[s])
    /\ Drop(s, "read")
    /\ UNCHANGED <<running, clientVars, targetVars, state, routed, bufferVars,
                   countVars, wroteVars, apiClosed>>

\* Completion of the method selection reply.
GreetDone(s) ==
    /\ running
    /\ \/ /\ op[s]["greet"] = "live"
          /\ greeted' = [greeted EXCEPT ![s] = TRUE]
          /\ state' = [state EXCEPT ![s] = "Request"]
          /\ Chain(s, "greet", "read", socket[s])
       \/ /\ MayFail(s, "greet", socket[s], cli[s])
          /\ Drop(s, "greet") /\ UNCHANGED <<greeted, state>>
    /\ UNCHANGED <<running, kind, sent, cli, replied, targetVars, routed,
                   bufferVars, countVars, wroteVars, apiClosed>>

\* Completion of adapter_->dial.  An error is logged, and HTTP closes.
DialDone(s) ==
    /\ running /\ op[s]["dial"] = "live"
    /\ \/ LET k   == FirstWrite(kind[s])
              end == IF k = "initial" THEN "open" ELSE socket[s]
          IN After(s, [op[s] EXCEPT !["dial"] = "idle", ![k] = Started(end)],
                   socket[s], "open")
       \/ kind[s] = "socks" /\ Drop(s, "dial")
       \/ kind[s] # "socks" /\ CloseBoth(s, "dial")
    /\ UNCHANGED <<running, clientVars, targetVars, state, routed, bufferVars,
                   countVars, wroteVars, apiClosed>>

\* state_ = Streaming and start_relay, from the handler of k.
StartRelay(s, k) ==
    /\ state' = [state EXCEPT ![s] = "Streaming"]
    /\ After(s, [op[s] EXCEPT ![k] = "idle",
                              !["c2tRead"] = Started(socket[s]),
                              !["t2cRead"] = Started(outbound[s])],
             socket[s], outbound[s])

\* Completion of the reply to SOCKS CONNECT or to HTTP CONNECT.
ReplyDone(s) ==
    /\ running
    /\ \/ /\ op[s]["reply"] = "live"
          /\ replied' = [replied EXCEPT ![s] = TRUE]
          /\ StartRelay(s, "reply")
       \/ /\ MayFail(s, "reply", socket[s], cli[s])
          /\ Drop(s, "reply") /\ UNCHANGED <<replied, state>>
    /\ UNCHANGED <<running, kind, sent, cli, greeted, targetVars, routed,
                   bufferVars, countVars, wroteVars, apiClosed>>

\* Completion of the write that forwards a plain HTTP request as it was read.
InitialDone(s) ==
    /\ running
    /\ \/ /\ op[s]["initial"] = "live"
          /\ toTarget' = [toTarget EXCEPT ![s] = @ \o Units(0, taken[s])]
          /\ StartRelay(s, "initial")
       \/ /\ MayFail(s, "initial", outbound[s], tgt[s])
          /\ \E n \in 0 .. taken[s] :
                toTarget' = [toTarget EXCEPT ![s] = @ \o Units(0, n)]
          /\ Drop(s, "initial") /\ UNCHANGED state
    /\ UNCHANGED <<running, clientVars, targetVars, routed, bufferVars,
                   countVars, toClient, apiClosed>>

-----------------------------------------------------------------------------
(* The two relay loops. *)

C2TReadDone(s) ==
    /\ running
    /\ \/ /\ op[s]["c2tRead"] = "live"
          /\ \E p \in Cuts(s) :
              /\ taken' = [taken EXCEPT ![s] = p]
              /\ ubase' = [ubase EXCEPT ![s] = taken[s]]
              /\ CountUp(s, p - taken[s])
          /\ Chain(s, "c2tRead", "c2tWrite", outbound[s])
       \/ /\ \/ MayFail(s, "c2tRead", socket[s], cli[s])
             \/ AtEof(s, "c2tRead", cli[s], taken[s] < sent[s])
          /\ CloseBoth(s, "c2tRead")
          /\ UNCHANGED <<taken, ubase, upload, totalUp>>
    /\ UNCHANGED <<running, clientVars, targetVars, state, routed, ttaken,
                   dbase, download, totalDown, wroteVars, apiClosed>>

\* client_buffer_ holds the units after ubase up to taken.
C2TWriteDone(s) ==
    /\ running
    /\ \E n \in 0 .. taken[s] - ubase[s] :
        /\ toTarget' = [toTarget EXCEPT ![s] = @ \o Units(ubase[s], n)]
        /\ \/ /\ op[s]["c2tWrite"] = "live" /\ n = taken[s] - ubase[s]
              /\ Chain(s, "c2tWrite", "c2tRead", socket[s])
           \/ /\ MayFail(s, "c2tWrite", outbound[s], tgt[s])
              /\ op[s]["c2tWrite"] = "doomed" => n = 0
              /\ CloseBoth(s, "c2tWrite")
    /\ UNCHANGED <<running, clientVars, targetVars, state, routed, bufferVars,
                   countVars, toClient, apiClosed>>

T2CReadDone(s) ==
    /\ running
    /\ \/ /\ op[s]["t2cRead"] = "live"
          /\ \E p \in ttaken[s] + 1 .. tsent[s] :
              /\ ttaken' = [ttaken EXCEPT ![s] = p]
              /\ dbase' = [dbase EXCEPT ![s] = ttaken[s]]
              /\ CountDown(s, p - ttaken[s])
          /\ Chain(s, "t2cRead", "t2cWrite", socket[s])
       \/ /\ \/ MayFail(s, "t2cRead", outbound[s], tgt[s])
             \/ AtEof(s, "t2cRead", tgt[s], ttaken[s] < tsent[s])
          /\ CloseBoth(s, "t2cRead")
          /\ UNCHANGED <<ttaken, dbase, download, totalDown>>
    /\ UNCHANGED <<running, clientVars, targetVars, state, routed, taken,
                   ubase, upload, totalUp, wroteVars, apiClosed>>

T2CWriteDone(s) ==
    /\ running
    /\ \E n \in 0 .. ttaken[s] - dbase[s] :
        /\ toClient' = [toClient EXCEPT ![s] = @ \o Units(dbase[s], n)]
        /\ \/ /\ op[s]["t2cWrite"] = "live" /\ n = ttaken[s] - dbase[s]
              /\ Chain(s, "t2cWrite", "t2cRead", outbound[s])
           \/ /\ MayFail(s, "t2cWrite", socket[s], cli[s])
              /\ op[s]["t2cWrite"] = "doomed" => n = 0
              /\ CloseBoth(s, "t2cWrite")
    /\ UNCHANGED <<running, clientVars, targetVars, state, routed, bufferVars,
                   countVars, toTarget, apiClosed>>

\* DELETE /connections/<id>: ConnectionManager::close and Session::close.
ApiClose(s) ==
    /\ running /\ s \in connections
    /\ socket' = [socket EXCEPT ![s] = "closed"]
    /\ outbound' = [outbound EXCEPT ![s] = Closed(@)]
    /\ apiClosed' = [apiClosed EXCEPT ![s] = TRUE]
    /\ UNCHANGED <<running, clientVars, targetVars, life, op, connections,
                   state, routed, bufferVars, countVars, wroteVars>>

-----------------------------------------------------------------------------
(* Environment: the client and the target of a session. *)

\* Whether the client goes on before or after the reply it is owed.
MaySend(s) ==
    \/ Eager
    \/ sent[s] = 0
    \/ kind[s] = "plain"
    \/ replied[s]
    \/ kind[s] = "socks" /\ sent[s] = GreetLen /\ greeted[s]

ClientSend(s) ==
    /\ running /\ life[s] = "alive" /\ cli[s] = "open"
    /\ socket[s] = "open" /\ MaySend(s)
    /\ \E e \in MsgEnds(kind[s]) :
        /\ e > sent[s] /\ \A f \in MsgEnds(kind[s]) : f > sent[s] => e <= f
        /\ sent' = [sent EXCEPT ![s] = e]
    /\ UNCHANGED <<running, kind, cli, greeted, replied, targetVars, lifeVars,
                   state, routed, bufferVars, countVars, wroteVars, apiClosed>>

\* The client shuts down its sending half, or closes or resets.
ClientEnd(s) ==
    /\ running /\ life[s] = "alive"
    /\ \/ cli[s] = "open" /\ cli' = [cli EXCEPT ![s] = "half"]
       \/ cli[s] # "gone" /\ cli' = [cli EXCEPT ![s] = "gone"]
    /\ UNCHANGED <<running, kind, sent, greeted, replied, targetVars, lifeVars,
                   state, routed, bufferVars, countVars, wroteVars, apiClosed>>

TargetSend(s) ==
    /\ running /\ outbound[s] = "open" /\ tgt[s] = "open"
    /\ tsent[s] < Answer
    /\ tsent' = [tsent EXCEPT ![s] = @ + 1]
    /\ UNCHANGED <<running, clientVars, tgt, lifeVars, state, routed,
                   bufferVars, countVars, wroteVars, apiClosed>>

TargetEnd(s) ==
    /\ running /\ outbound[s] = "open"
    /\ \/ tgt[s] = "open" /\ tgt' = [tgt EXCEPT ![s] = "half"]
       \/ tgt[s] # "gone" /\ tgt' = [tgt EXCEPT ![s] = "gone"]
    /\ UNCHANGED <<running, clientVars, tsent, lifeVars, state, routed,
                   bufferVars, countVars, wroteVars, apiClosed>>

-----------------------------------------------------------------------------

Next == \E s \in Sessions :
    \/ Accept(s)
    \/ ReadHandshake(s) \/ ReadRequest(s) \/ ReadError(s)
    \/ GreetDone(s) \/ DialDone(s) \/ ReplyDone(s) \/ InitialDone(s)
    \/ C2TReadDone(s) \/ C2TWriteDone(s) \/ T2CReadDone(s) \/ T2CWriteDone(s)
    \/ ApiClose(s)
    \/ ClientSend(s) \/ ClientEnd(s) \/ TargetSend(s) \/ TargetEnd(s)

Spec == Init /\ [][Next]_vars

\* The loop runs every handler that is ready.  A dial ends: direct.h resolves
\* and connects, and the system bounds both.  A peer that is there drains what
\* is written to it; peers need never send.
Fairness == \A s \in Sessions :
    /\ WF_vars(ReadHandshake(s) \/ ReadRequest(s) \/ ReadError(s))
    /\ WF_vars(GreetDone(s)) /\ WF_vars(DialDone(s))
    /\ WF_vars(ReplyDone(s)) /\ WF_vars(InitialDone(s))
    /\ WF_vars(C2TReadDone(s)) /\ WF_vars(C2TWriteDone(s))
    /\ WF_vars(T2CReadDone(s)) /\ WF_vars(T2CWriteDone(s))

FairSpec == Spec /\ Fairness

-----------------------------------------------------------------------------
(* Properties. *)

ClientTypeOK ==
    /\ kind \in [Sessions -> {"none", "socks", "connect", "plain"}]
    /\ sent \in [Sessions -> Nat]
    /\ cli \in [Sessions -> {"open", "half", "gone"}]
    /\ greeted \in [Sessions -> BOOLEAN]
    /\ replied \in [Sessions -> BOOLEAN]

TargetTypeOK ==
    /\ tsent \in [Sessions -> Nat]
    /\ tgt \in [Sessions -> {"open", "half", "gone"}]

LifeTypeOK ==
    /\ life \in [Sessions -> {"unborn", "alive", "gone"}]
    /\ op \in [Sessions -> [Ops -> OpStatus]]
    /\ socket \in [Sessions -> {"open", "closed"}]
    /\ outbound \in [Sessions -> {"null", "open", "closed"}]
    /\ connections \in SUBSET Sessions

StageTypeOK ==
    /\ running \in BOOLEAN
    /\ state \in [Sessions -> {"Handshake", "Request", "Streaming"}]
    /\ routed \in [Sessions -> {"none", "asked", "other"}]
    /\ apiClosed \in [Sessions -> BOOLEAN]

BufferTypeOK ==
    /\ taken \in [Sessions -> Nat] /\ ubase \in [Sessions -> Nat]
    /\ ttaken \in [Sessions -> Nat] /\ dbase \in [Sessions -> Nat]

CountTypeOK ==
    /\ upload \in [Sessions -> Nat] /\ download \in [Sessions -> Nat]
    /\ totalUp \in Nat /\ totalDown \in Nat

WroteTypeOK ==
    /\ toTarget \in [Sessions -> Seq(Nat)]
    /\ toClient \in [Sessions -> Seq(Nat)]

\* Types of the variables of Session and of what it shares.
TypeOK ==
    /\ ClientTypeOK /\ TargetTypeOK /\ LifeTypeOK /\ StageTypeOK
    /\ BufferTypeOK /\ CountTypeOK /\ WroteTypeOK

\* The manager's map, which holds weak pointers only, lists exactly the
\* sessions some pending handler keeps alive; the others hold no open end.
RegistryExact ==
    \A s \in Sessions :
        /\ s \in connections <=> Busy(op[s])
        /\ life[s] = "alive" <=> Busy(op[s])
        /\ life[s] = "gone" => socket[s] = "closed" /\ outbound[s] # "open"

\* buffer_, client_buffer_ and target_buffer_ each serve one outstanding
\* operation at a time, and no two reads or two writes overlap on one socket:
\* the handshake is one chain of handlers and each relay loop another.
OneOpPerBuffer ==
    \A s \in Sessions :
        /\ AtMostOne(op[s], SetupOps \cup UploadOps)
        /\ AtMostOne(op[s], SetupOps \cup DownOps)

\* No half relay: while a streaming session's client end is open so is its
\* outbound end, and both loops are running.
RelayPaired ==
    \A s \in Sessions :
        life[s] = "alive" /\ state[s] = "Streaming" /\ socket[s] = "open" =>
            /\ outbound[s] = "open"
            /\ SomeOf(op[s], UploadOps) /\ SomeOf(op[s], DownOps)

\* outbound_conn_ is set whenever a handler that uses it is pending.
OutboundReady ==
    \A s \in Sessions :
        SomeOf(op[s], {"reply", "initial"} \cup UploadOps \cup DownOps)
            => outbound[s] # "null"

\* A loop's counter n beside what its peer has been written: it is ahead by what
\* the write under way has in hand, and by nothing when the loop reads again; of
\* a write cut short a part may have arrived.
Counted(n, wrote, hand, reading, writing) ==
    /\ wrote <= n /\ n <= wrote + hand
    /\ reading # "idle" => n = wrote
    /\ writing # "idle" => n = wrote + hand

\* What the API reports is what was relayed: each session's counters agree with
\* what its two peers were sent, although they count what is read and the write
\* comes later, or fails; and the totals, which every session adds to and which
\* outlive it, are the sums of them all.  The first request of a plain HTTP client
\* is not counted: InitialDone forwards it before the relay begins.
CountsRelayed ==
    /\ totalUp = SumFunction(upload) /\ totalDown = SumFunction(download)
    /\ \A s \in Sessions :
        /\ Counted(download[s], Len(toClient[s]), ttaken[s] - dbase[s],
                   op[s]["t2cRead"], op[s]["t2cWrite"])
        /\ kind[s] # "plain" =>
            Counted(upload[s], Len(toTarget[s]), taken[s] - ubase[s],
                    op[s]["c2tRead"], op[s]["c2tWrite"])

\* The two directions of a session as byte streams: from the client's payload
\* (for a plain client: all it sends) to the target, and from the target back.
Max0(n) == IF n > 0 THEN n ELSE 0
Up(s) == INSTANCE ByteStream WITH
            put <- Max0(sent[s] - Base(kind[s])),
            got <- [i \in DOMAIN toTarget[s] |-> toTarget[s][i] - Base(kind[s])]
Down(s) == INSTANCE ByteStream WITH put <- tsent[s], got <- toClient[s]

\* For clients that keep to the protocol and messages that arrive whole, what
\* each session relays is a byte stream in either direction: \A s :
\* Up(s)!StreamSpec /\ Down(s)!StreamSpec, the quantifier moved inside.
RelaysStreams ==
    /\ \A s \in Sessions : Up(s)!StreamInit /\ Down(s)!StreamInit
    /\ [][\A s \in Sessions : /\ [Up(s)!StreamNext]_(Up(s)!streamVars)
                              /\ [Down(s)!StreamNext]_(Down(s)!streamVars)]_vars

\* A connection closed through the API ends, and so does one that has lost its
\* client, or whose relay has lost its target: Session::close, or the end of
\* either loop, gets every handler of it to run out, even with silent peers
\* and a dial under way.
CloseReclaims ==
    \A s \in Sessions :
        /\ apiClosed[s] ~> (life[s] = "gone" \/ ~running)
        /\ (life[s] = "alive" /\ cli[s] = "gone")
              ~> (life[s] = "gone" \/ ~running)
        /\ (life[s] = "alive" /\ state[s] = "Streaming" /\ tgt[s] = "gone")
              ~> (life[s] = "gone" \/ ~running)

=============================================================================
