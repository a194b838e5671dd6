------------------------------- MODULE Dialer -------------------------------
(***************************************************************************)
(* One call of ProxyAdapter::dial on a leaf of the proxy tree: DIRECT,     *)
(* REJECT, Socks5Dialer, ShadowsocksDialer, SSRDialer, VmessDialer.        *)
(*                                                                         *)
(* A dialer owns a socket and one pending operation; each handler starts   *)
(* the next operation or calls handler_ and lets the dialer go.  The       *)
(* server answers byte by byte, as slowly as it likes, and may go away.    *)
(*                                                                         *)
(* Not here: how ShadowsocksDialer and SSRDialer encrypt what they write   *)
(* (EncryptedConnection and SSRConnection have it), and targets given by   *)
(* address: Session fills in metadata.host only.                           *)
(***************************************************************************)
EXTENDS Integers, Sequences

CONSTANTS
    Kinds,        \* the kinds of adapter that are dialled
    NameLengths,  \* lengths of the target's name
    DomainLengths,\* lengths of the name in the server's reply
    PayloadLen    \* bound: bytes the target sends after the handshake

ASSUME DialerAssumption ==
    /\ Kinds \subseteq {"direct", "reject", "socks5", "shadowsocks", "ssr", "vmess"}
    /\ NameLengths \subseteq Nat /\ DomainLengths \subseteq 0 .. 255
    /\ PayloadLen \in Nat

VARIABLES
    kind, name, cipher, reply,  \* the adapter, the target, what is answered
    step,         \* the pending operation, "start" and "none"
    remaining,    \* bytes consume_remaining reads
    socket,
    calls,        \* history: the calls of handler_
    sent, taken,  \* bytes from the server: sent, and read by the dialer
    peer,         \* the server is "up" or "gone"
    heard, told   \* what was written to it: messages, and the target

givenVars  == <<kind, name, cipher, reply>>
dialerVars == <<step, remaining, socket, calls, taken>>
serverVars == <<sent, peer, heard, told>>
vars == <<givenVars, dialerVars, serverVars>>

\* The kinds that send the target encrypted, as their first write.
Ciphered == {"shadowsocks", "ssr"}

Bytes(n, b) == [i \in 1 .. n |-> b]

\* What a SOCKS5 server sends: the method, the reply, the bound address.
Address(atyp, len) ==
    CASE atyp = 1 -> Bytes(4 + 2, 7)
      [] atyp = 4 -> Bytes(16 + 2, 7)
      [] atyp = 3 -> <<len>> \o Bytes(len + 2, 7)
      [] OTHER    -> <<>>
Handshake == IF kind = "socks5"
             THEN <<5, reply.method, 5, reply.rep, 0, reply.atyp>>
                    \o Address(reply.atyp, reply.len)
             ELSE <<>>
Stream == Handshake \o Bytes(PayloadLen, 9)

Replies == [method : {0, 255}, rep : {0, 5}, atyp : {0, 1, 3, 4},
            len : DomainLengths]

Init ==
    /\ kind \in Kinds /\ name \in NameLengths
    /\ cipher \in {"known", "unsupported"} /\ reply \in Replies
    /\ step = "start" /\ remaining = 0
    /\ socket = "unopened" /\ calls = <<>>
    /\ sent = 0 /\ taken = 0 /\ peer = "up"
    /\ heard = 0 /\ told = [name |-> 0, extra |-> 0]

-----------------------------------------------------------------------------
(* The dialer. *)

\* handler_ is called; nothing is pending then, and the dialer goes, with its
\* socket unless a connection has taken it.
Finish(outcome) ==
    /\ calls' = Append(calls, outcome)
    /\ step' = "none"
    /\ socket' = IF outcome = "connected" THEN "moved" ELSE "closed"

\* The pending operation was s; it is followed by t.
Go(s, t) == step = s /\ step' = t /\ UNCHANGED <<socket, calls>>

Start ==
    /\ step = "start"
    /\ IF kind = "reject" THEN Finish("failed") ELSE Go("start", "resolve")
    /\ UNCHANGED <<givenVars, remaining, taken, serverVars>>

Resolved ==
    /\ step = "resolve"
    /\ Go("resolve", "connect") \/ Finish("failed")
    /\ UNCHANGED <<givenVars, remaining, taken, serverVars>>

\* Connected: the handshake of each kind begins.
Handshakes ==
    \/ /\ kind \in {"direct", "vmess"} /\ Finish("connected")
    \/ /\ kind \in Ciphered /\ cipher = "unsupported" /\ Finish("failed")
    \/ /\ kind = "socks5" /\ step' = "hello"
       /\ socket' = "open" /\ UNCHANGED calls
    \/ /\ kind \in Ciphered /\ cipher = "known" /\ step' = "target"
       /\ socket' = "open" /\ UNCHANGED calls

ConnectDone ==
    /\ step = "connect"
    /\ (peer = "up" /\ Handshakes) \/ Finish("failed")
    /\ UNCHANGED <<givenVars, remaining, taken, serverVars>>

\* A write ends well, or fails because the server is gone.
WriteFails(s) ==
    /\ step = s /\ peer = "gone" /\ Finish("failed")
    /\ UNCHANGED <<givenVars, remaining, taken, serverVars>>

HelloWritten ==
    /\ Go("hello", "method") /\ heard' = 1
    /\ UNCHANGED <<givenVars, remaining, taken, sent, peer, told>>

\* Mutant: the length is not cut to a byte.
LengthByte_Wide(n) == n
\* static_cast<uint8_t>(host.size())
LengthByte(n) == n % 256

\* The name the server makes out, and what is left behind the port.
Told == [name |-> LengthByte(name), extra |-> name - LengthByte(name)]

RequestWritten ==
    /\ Go("request", "head") /\ heard' = 2 /\ told' = Told
    /\ UNCHANGED <<givenVars, remaining, taken, sent, peer>>

\* The first write of ShadowsocksDialer's encrypted connection, or SSRDialer's.
TargetWritten ==
    /\ step = "target" /\ Finish("connected") /\ heard' = 2 /\ told' = Told
    /\ UNCHANGED <<givenVars, remaining, taken, sent, peer>>

\* async_read of n bytes completes, and the i-th of them.
Got(n)  == sent - taken >= n /\ taken' = taken + n
Byte(i) == Stream[taken + i]

\* Mutant: a method that is not supported does not end the dialer.
MethodRead_NoReturn ==
    /\ step = "method" /\ Got(2)
    /\ step' = "request" /\ UNCHANGED socket
    /\ IF Byte(1) # 5 \/ Byte(2) # 0 THEN calls' = Append(calls, "failed")
                                     ELSE UNCHANGED calls
    /\ UNCHANGED <<givenVars, remaining, serverVars>>
MethodRead ==
    /\ step = "method" /\ Got(2)
    /\ IF Byte(1) # 5 \/ Byte(2) # 0 THEN Finish("failed")
                                     ELSE Go("method", "request")
    /\ UNCHANGED <<givenVars, remaining, serverVars>>

HeadRead ==
    /\ step = "head" /\ Got(4)
    /\ \/ /\ Byte(2) # 0 \/ Byte(4) \notin {1, 3, 4}
          /\ Finish("failed") /\ UNCHANGED remaining
       \/ /\ Byte(2) = 0 /\ Byte(4) = 3
          /\ Go("head", "length") /\ UNCHANGED remaining
       \/ /\ Byte(2) = 0 /\ Byte(4) \in {1, 4}
          /\ Go("head", "rest")
          /\ remaining' = (IF Byte(4) = 1 THEN 4 ELSE 16) + 2
    /\ UNCHANGED <<givenVars, serverVars>>

\* Mutant: the port after the name is forgotten.
DomainLengthRead_NoPort ==
    /\ step = "length" /\ Got(1)
    /\ Go("length", "rest") /\ remaining' = Byte(1)
    /\ UNCHANGED <<givenVars, serverVars>>
DomainLengthRead ==
    /\ step = "length" /\ Got(1)
    /\ Go("length", "rest") /\ remaining' = Byte(1) + 2
    /\ UNCHANGED <<givenVars, serverVars>>

RestRead ==
    /\ step = "rest" /\ Got(remaining) /\ Finish("connected")
    /\ UNCHANGED <<givenVars, remaining, serverVars>>

\* What a pending read asks for.
Wanted ==
    CASE step = "method" -> 2 [] step = "head" -> 4
      [] step = "length" -> 1 [] step = "rest" -> remaining
      [] OTHER -> 0

\* Mutant: an error while the length of a name is read is not reported.
ReadFails_Quiet ==
    /\ step \in {"method", "head", "rest"}
    /\ peer = "gone" /\ sent - taken < Wanted /\ Finish("failed")
    /\ UNCHANGED <<givenVars, remaining, taken, serverVars>>
ReadFails ==
    /\ step \in {"method", "head", "length", "rest"}
    /\ peer = "gone" /\ sent - taken < Wanted /\ Finish("failed")
    /\ UNCHANGED <<givenVars, remaining, taken, serverVars>>

-----------------------------------------------------------------------------
(* The server, and through it the target. *)

\* How far it may have answered what it has heard.
Answerable ==
    CASE kind = "socks5" /\ heard = 0 -> 0
      [] kind = "socks5" /\ (heard = 1 \/ reply.method # 0) -> 2
      [] kind \in Ciphered /\ heard = 0 -> 0
      [] OTHER -> Len(Stream)

ServerSends ==
    /\ peer = "up" /\ socket \in {"open", "moved"}
    /\ sent < Answerable /\ sent' = sent + 1
    /\ UNCHANGED <<givenVars, dialerVars, peer, heard, told>>

ServerGoes ==
    /\ peer = "up" /\ peer' = "gone"
    /\ UNCHANGED <<givenVars, dialerVars, sent, heard, told>>

-----------------------------------------------------------------------------

Dialling ==
    \/ Start \/ Resolved \/ ConnectDone
    \/ HelloWritten \/ MethodRead \/ RequestWritten \/ HeadRead
    \/ DomainLengthRead \/ RestRead \/ TargetWritten
    \/ WriteFails("hello") \/ WriteFails("request") \/ WriteFails("target")
    \/ ReadFails

Next == Dialling \/ ServerSends \/ ServerGoes

Spec == Init /\ [][Next]_vars

\* The loop runs the handlers, the system bounds resolving and connecting, and
\* what is written fits in the socket's buffer; and, for no dialer has a timer,
\* the server answers in the end, or goes away.
FairSpec == Spec /\ WF_vars(Dialling) /\ WF_vars(ServerSends \/ ServerGoes)

-----------------------------------------------------------------------------
(* Properties. *)

\* Types of the variables of a dialer and of its server.
TypeOK ==
    /\ step \in {"start", "resolve", "connect", "hello", "method", "request",
                 "head", "length", "rest", "target", "none"}
    /\ remaining \in 0 .. 257
    /\ socket \in {"unopened", "open", "moved", "closed"}
    /\ calls \in Seq({"connected", "failed"})
    /\ sent \in 0 .. Len(Stream) /\ taken \in 0 .. sent
    /\ peer \in {"up", "gone"} /\ heard \in 0 .. 2
    /\ told \in [name : 0 .. 255, extra : Nat]

\* A dialer keeps the promise of dial: one call of the handler, whatever the
\* server answers and wherever it breaks off.
Outcome == IF calls = <<>> THEN "pending"
           ELSE IF Len(calls) = 1 THEN calls[1] ELSE "called again"
AsDial == INSTANCE Dial WITH outcome <- Outcome
IsDial == AsDial!DialInit /\ [][AsDial!DialNext]_Outcome

\* A connection is handed over just behind the handshake: nothing of it is left
\* to be taken for the target's answer, nothing of the answer is lost, and a
\* server that forwards has been told the target that was asked for, up to the
\* longest name the protocols can carry.  A dialer that is gone has left its
\* socket to the connection or closed it; one that is not has called nobody.
HandedOverClean ==
    /\ calls = <<"connected">> =>
        /\ taken = Len(Handshake)
        /\ kind \in {"socks5"} \cup Ciphered =>
            /\ heard = 2
            /\ name <= 255 => told = [name |-> name, extra |-> 0]
    /\ IF step # "none" THEN calls = <<>>
       ELSE socket = IF calls = <<"connected">> THEN "moved" ELSE "closed"

\* Every dial ends, whatever is answered and wherever the server breaks off.
DialEnds == <>(calls # <<>>)

=============================================================================
