---------------------------- MODULE DialerProofs ----------------------------
(***************************************************************************)
(* Dialer for every name, every reply and every way a server breaks off:   *)
(* the handler is called once, and a connection is handed over just behind *)
(* the handshake.                                                          *)
(***************************************************************************)
EXTENDS Dialer, SequenceTheorems, TLAPS

\* What never changes.
GivenInv ==
    /\ kind \in Kinds /\ name \in NameLengths /\ reply \in Replies

\* A dialer that is gone has called its handler once, any other has not.
CallInv ==
    /\ step # "none" => calls = <<>>
    /\ step = "none" => calls \in {<<"connected">>, <<"failed">>}

\* How far into the handshake each step is, and what the reads before it have
\* found there.
PlaceInv ==
    /\ step \in {"start", "resolve", "connect", "hello", "method", "target"}
          => taken = 0
    /\ step \in {"hello", "method", "request", "head", "length", "rest"}
          => kind = "socks5"
    /\ step = "target" => kind \in Ciphered
    /\ step \in {"start", "resolve", "connect", "hello", "target"} => heard = 0
    /\ step \in {"request", "head"} => taken = 2 /\ reply.method = 0
    /\ step \in {"head", "length", "rest"} => heard = 2 /\ told = Told
    /\ step = "length" => taken = 6 /\ reply.atyp = 3
    /\ step = "rest" => taken + remaining = Len(Handshake)

\* What a connection that was handed over has behind it.
HandedInv ==
    calls = <<"connected">> =>
        /\ taken = Len(Handshake)
        /\ kind \in {"socks5"} \cup Ciphered => heard = 2 /\ told = Told

SocketInv ==
    step = "none" => socket = IF calls = <<"connected">> THEN "moved" ELSE "closed"

IInv == TypeOK /\ GivenInv /\ CallInv /\ PlaceInv /\ HandedInv /\ SocketInv

-----------------------------------------------------------------------------
(* The bytes of a server. *)

\* A run of equal bytes.
LEMMA BytesAre ==
    ASSUME NEW n \in Nat, NEW b \in Nat
    PROVE  Bytes(n, b) \in Seq(Nat) /\ Len(Bytes(n, b)) = n
  BY DEF Bytes

\* A bound name tells its length first.
LEMMA NameIs ==
    ASSUME NEW len \in 0 .. 255
    PROVE  /\ Address(3, len) \in Seq(Nat)
           /\ Len(Address(3, len)) = len + 3
           /\ Address(3, len)[1] = len
  <1> DEFINE rest == Bytes(len + 2, 7)
  <1>1. Address(3, len) = <<len>> \o rest
    BY DEF Address
  <1>2. rest \in Seq(Nat) /\ Len(rest) = len + 2
    <2>1. len + 2 \in Nat /\ 7 \in Nat
      OBVIOUS
    <2> QED
      BY <2>1, BytesAre
  <1>3. <<len>> \in Seq(Nat) /\ Len(<<len>>) = 1 /\ <<len>>[1] = len
    OBVIOUS
  <1> HIDE DEF rest
  <1>4. /\ <<len>> \o rest \in Seq(Nat)
        /\ Len(<<len>> \o rest) = len + 3
        /\ (<<len>> \o rest)[1] = len
    BY <1>2, <1>3, ConcatProperties
  <1> QED
    BY <1>1, <1>4, Zenon

\* The bound address: how long it is, for each type of it.
LEMMA AddressIs ==
    ASSUME NEW atyp \in {0, 1, 3, 4}, NEW len \in 0 .. 255
    PROVE  /\ Address(atyp, len) \in Seq(Nat)
           /\ Len(Address(atyp, len)) \in Nat
           /\ atyp = 1 => Len(Address(atyp, len)) = 6
           /\ atyp = 4 => Len(Address(atyp, len)) = 18
  <1>1. CASE atyp = 1
    <2>1. Address(1, len) = Bytes(6, 7)
      BY DEF Address
    <2>2. Bytes(6, 7) \in Seq(Nat) /\ Len(Bytes(6, 7)) = 6
      BY BytesAre
    <2> QED
      BY <1>1, <2>1, <2>2
  <1>2. CASE atyp = 4
    <2>1. Address(4, len) = Bytes(18, 7)
      BY DEF Address
    <2>2. Bytes(18, 7) \in Seq(Nat) /\ Len(Bytes(18, 7)) = 18
      BY BytesAre
    <2> QED
      BY <1>2, <2>1, <2>2
  <1>3. CASE atyp = 3
    <2>1. Address(3, len) \in Seq(Nat)
      BY NameIs
    <2>2. Len(Address(3, len)) \in Nat
      BY <2>1
    <2> QED
      BY <1>3, <2>1, <2>2
  <1>4. CASE atyp = 0
    <2>1. Address(0, len) = <<>>
      BY DEF Address
    <2>2. <<>> \in Seq(Nat) /\ Len(<<>>) \in Nat
      OBVIOUS
    <2>3. Address(atyp, len) \in Seq(Nat) /\ Len(Address(atyp, len)) \in Nat
      BY <1>4, <2>1, <2>2, Zenon
    <2> QED
      BY <1>4, <2>3
  <1> QED
    BY <1>1, <1>2, <1>3, <1>4

\* What stands where in the handshake of a SOCKS5 server.
LEMMA HandshakeIs ==
    ASSUME reply \in Replies, kind = "socks5"
    PROVE  /\ Handshake \in Seq(Nat) /\ Len(Handshake) \in Nat
           /\ Len(Handshake) = 6 + Len(Address(reply.atyp, reply.len))
           /\ Handshake[1] = 5 /\ Handshake[2] = reply.method
           /\ Handshake[4] = reply.rep /\ Handshake[6] = reply.atyp
           /\ reply.atyp = 3 => Handshake[7] = reply.len
  <1> DEFINE head  == <<5, reply.method, 5, reply.rep, 0, reply.atyp>>
             bound == Address(reply.atyp, reply.len)
  <1>1. /\ reply.method \in {0, 255} /\ reply.rep \in {0, 5}
        /\ reply.atyp \in {0, 1, 3, 4} /\ reply.len \in 0 .. 255
    BY DialerAssumption DEF Replies
  <1>2. Handshake = head \o bound
    BY DEF Handshake
  <1>3. /\ head \in Seq(Nat) /\ Len(head) = 6
        /\ head[1] = 5 /\ head[2] = reply.method
        /\ head[4] = reply.rep /\ head[6] = reply.atyp
    BY <1>1
  <1>4. bound \in Seq(Nat)
    BY <1>1, AddressIs
  <1>5. ASSUME reply.atyp = 3
        PROVE  bound[1] = reply.len /\ Len(bound) = reply.len + 3
    <2>1. /\ Len(Address(3, reply.len)) = reply.len + 3
          /\ Address(3, reply.len)[1] = reply.len
      BY <1>1, NameIs
    <2> QED
      BY <1>5, <2>1, Zenon
  <1>6. Len(bound) = Len(Address(reply.atyp, reply.len))
    OBVIOUS
  <1> HIDE DEF head, bound
  <1>7. Len(bound) \in Nat
    BY <1>4
  <1>8. /\ head \o bound \in Seq(Nat)
        /\ Len(head \o bound) = Len(head) + Len(bound)
        /\ \A i \in 1 .. Len(head) + Len(bound) : (head \o bound)[i] =
                IF i <= Len(head) THEN head[i] ELSE bound[i - Len(head)]
    BY <1>3, <1>4, ConcatProperties
  <1>9. \A i \in 1 .. 6 : (head \o bound)[i] = head[i]
    <2> TAKE i \in 1 .. 6
    <2>1. i \in 1 .. Len(head) + Len(bound) /\ i <= Len(head)
      BY <1>3, <1>7
    <2> QED
      BY <1>8, <2>1
  <1>10. ASSUME reply.atyp = 3
         PROVE  (head \o bound)[7] = reply.len
    <2>1. /\ 7 \in 1 .. Len(head) + Len(bound)
          /\ ~(7 <= Len(head)) /\ 7 - Len(head) = 1
      <3>1. reply.len + 3 >= 1
        BY <1>1
      <3>2. Len(head) = 6
        BY <1>3
      <3>3. Len(bound) >= 1
        BY <1>5, <1>10, <3>1, Zenon
      <3> QED
        BY <1>7, <3>2, <3>3
    <2>2. (head \o bound)[7] = bound[7 - Len(head)]
      BY <1>8, <2>1
    <2> QED
      BY <1>5, <1>10, <2>1, <2>2, Zenon
  <1>11. 1 \in 1 .. 6 /\ 2 \in 1 .. 6 /\ 4 \in 1 .. 6 /\ 6 \in 1 .. 6
    OBVIOUS
  <1>12. /\ (head \o bound)[1] = 5 /\ (head \o bound)[2] = reply.method
         /\ (head \o bound)[4] = reply.rep /\ (head \o bound)[6] = reply.atyp
    BY <1>3, <1>9, <1>11, Zenon
  <1>13. /\ Handshake \in Seq(Nat)
         /\ Len(Handshake) = Len(head) + Len(bound)
         /\ reply.atyp = 3 => Handshake[7] = reply.len
    BY <1>2, <1>8, <1>10, Zenon
  <1>14. /\ Handshake[1] = 5 /\ Handshake[2] = reply.method
         /\ Handshake[4] = reply.rep /\ Handshake[6] = reply.atyp
    BY <1>2, <1>12, Zenon
  <1>15. Len(Handshake) = 6 + Len(Address(reply.atyp, reply.len))
    <2>1. Len(head) = 6
      BY <1>3
    <2> QED
      BY <1>6, <1>13, <2>1, Zenon
  <1>16. Len(Handshake) \in Nat
    BY <1>13
  <1> QED
    BY <1>13, <1>14, <1>15, <1>16, Zenon

\* The stream is the handshake and what the target sends; every byte of the
\* handshake stands in it where it does there.
LEMMA StreamIs ==
    ASSUME reply \in Replies
    PROVE  /\ Handshake \in Seq(Nat) /\ Len(Handshake) \in Nat
           /\ Len(Stream) = Len(Handshake) + PayloadLen
           /\ \A i \in 1 .. Len(Handshake) : Stream[i] = Handshake[i]
           /\ kind # "socks5" => Len(Handshake) = 0
  <1> DEFINE payload == Bytes(PayloadLen, 9)
  <1>1. payload \in Seq(Nat) /\ Len(payload) = PayloadLen
    <2>1. PayloadLen \in Nat /\ 9 \in Nat
      BY DialerAssumption
    <2> QED
      BY <2>1, BytesAre
  <1>2. Handshake \in Seq(Nat) /\ (kind # "socks5" => Len(Handshake) = 0)
    <2>1. CASE kind = "socks5"
      BY <2>1, HandshakeIs
    <2>2. CASE kind # "socks5"
      <3>1. Handshake = <<>>
        BY <2>2 DEF Handshake
      <3>2. <<>> \in Seq(Nat) /\ Len(<<>>) = 0
        OBVIOUS
      <3> QED
        BY <3>1, <3>2, Zenon
    <2> QED
      BY <2>1, <2>2
  <1>3. Stream = Handshake \o payload
    BY DEF Stream
  <1> HIDE DEF payload
  <1>4. Len(Handshake) \in Nat
    BY <1>2
  <1>5. /\ Len(Handshake \o payload) = Len(Handshake) + PayloadLen
        /\ \A i \in 1 .. Len(Handshake) + PayloadLen :
                (Handshake \o payload)[i] =
                    IF i <= Len(Handshake) THEN Handshake[i]
                                           ELSE payload[i - Len(Handshake)]
    BY <1>1, <1>2, ConcatProperties
  <1>6. \A i \in 1 .. Len(Handshake) : (Handshake \o payload)[i] = Handshake[i]
    BY <1>4, <1>5, DialerAssumption
  <1> QED
    BY <1>2, <1>3, <1>4, <1>5, <1>6, Zenon

\* What the reads of Socks5Dialer find, by the place they are at.
LEMMA FoundIs ==
    ASSUME reply \in Replies, kind = "socks5"
    PROVE  /\ Stream[1] = 5 /\ Stream[2] = reply.method
           /\ Stream[4] = reply.rep /\ Stream[6] = reply.atyp
           /\ reply.atyp \in {0, 1, 3, 4} /\ reply.len \in 0 .. 255
           /\ Len(Handshake) >= 6
           /\ reply.atyp = 1 => Len(Handshake) = 12
           /\ reply.atyp = 4 => Len(Handshake) = 24
           /\ reply.atyp = 3 => /\ Len(Handshake) = reply.len + 9
                                /\ Stream[7] = reply.len
  <1> DEFINE atyp  == reply.atyp
             len   == reply.len
             bound == Len(Address(atyp, len))
             whole == Len(Handshake)
  <1>1. atyp \in {0, 1, 3, 4} /\ len \in 0 .. 255
    BY DialerAssumption DEF Replies
  <1>2. /\ bound \in Nat
        /\ atyp = 1 => bound = 6
        /\ atyp = 4 => bound = 18
    BY <1>1, AddressIs
  <1>3. ASSUME atyp = 3
        PROVE  bound = len + 3
    <2>1. Len(Address(3, len)) = len + 3
      BY <1>1, NameIs
    <2> QED
      BY <1>3, <2>1, Zenon
  <1>4. whole = 6 + bound
    BY HandshakeIs
  <1>5. \A i \in 1 .. whole : Stream[i] = Handshake[i]
    BY StreamIs
  <1> HIDE DEF atyp, len, bound, whole
  <1>6. /\ 1 \in 1 .. whole /\ 2 \in 1 .. whole
        /\ 4 \in 1 .. whole /\ 6 \in 1 .. whole
        /\ atyp = 3 => 7 \in 1 .. whole
    BY <1>1, <1>2, <1>3, <1>4
  <1>7. /\ whole >= 6
        /\ atyp = 1 => whole = 12
        /\ atyp = 4 => whole = 24
        /\ atyp = 3 => whole = len + 9
    BY <1>1, <1>2, <1>3, <1>4
  <1> USE DEF atyp, len, whole
  <1>8. /\ Handshake[1] = 5 /\ Handshake[2] = reply.method
        /\ Handshake[4] = reply.rep /\ Handshake[6] = reply.atyp
        /\ reply.atyp = 3 => Handshake[7] = reply.len
    BY HandshakeIs
  <1>9. /\ Stream[1] = 5 /\ Stream[2] = reply.method
        /\ Stream[4] = reply.rep /\ Stream[6] = reply.atyp
        /\ reply.atyp = 3 => Stream[7] = reply.len
    BY <1>5, <1>6, <1>8, Zenon
  <1> QED
    BY <1>1, <1>7, <1>9

-----------------------------------------------------------------------------
(* How a dialer ends. *)

\* What stays, as long as nobody changes what was given.
LEMMA SameBytes ==
    ASSUME UNCHANGED givenVars
    PROVE  Handshake' = Handshake /\ Stream' = Stream /\ Told' = Told
  <1>1. kind' = kind /\ name' = name /\ reply' = reply
    BY DEF givenVars
  <1>2. Handshake' = Handshake
    BY <1>1 DEF Handshake, Address, Bytes
  <1>3. Told' = Told
    BY <1>1 DEF Told, LengthByte
  <1>4. Stream' = Stream
    BY <1>2 DEF Stream, Bytes
  <1> QED
    BY <1>2, <1>3, <1>4

\* The handler is called, once.
LEMMA Called ==
    ASSUME NEW outcome \in {"connected", "failed"},
           IInv, step # "none", Finish(outcome)
    PROVE  /\ step' = "none" /\ calls' = <<outcome>>
           /\ calls' \in Seq({"connected", "failed"})
           /\ socket' \in {"moved", "closed"}
           /\ CallInv' /\ SocketInv'
  <1>1. calls = <<>>
    BY DEF IInv, CallInv
  <1>2. /\ calls' = <<outcome>> /\ step' = "none"
        /\ socket' = IF outcome = "connected" THEN "moved" ELSE "closed"
    BY <1>1 DEF Finish
  <1>3. calls' \in Seq({"connected", "failed"})
    BY <1>2
  <1>4. CallInv'
    BY <1>2 DEF CallInv
  <1>5. calls' = <<"connected">> <=> outcome = "connected"
    BY <1>2
  <1>6. SocketInv'
    BY <1>2, <1>5 DEF SocketInv
  <1> QED
    BY <1>2, <1>3, <1>4, <1>6

\* What the dialer was given is not touched.
LEMMA Given ==
    ASSUME IInv, UNCHANGED givenVars
    PROVE  GivenInv'
  BY DEF IInv, GivenInv, givenVars

\* A dialer that fails, wherever it is, leaves the invariant true.
LEMMA Failing ==
    ASSUME IInv, step # "none", Finish("failed"),
           UNCHANGED <<givenVars, remaining, serverVars>>,
           taken' \in 0 .. sent
    PROVE  IInv'
  <1>1. /\ step' = "none" /\ calls' = <<"failed">>
        /\ calls' \in Seq({"connected", "failed"})
        /\ socket' \in {"moved", "closed"} /\ CallInv' /\ SocketInv'
    BY Called
  <1>2. UNCHANGED givenVars /\ Handshake' = Handshake /\ Stream' = Stream
    BY SameBytes
  <1>3. GivenInv'
    BY <1>2, Given
  <1>4. TypeOK'
    BY <1>1, <1>2 DEF IInv, TypeOK, serverVars
  <1>5. PlaceInv'
    BY <1>1 DEF PlaceInv
  <1>6. HandedInv'
    <2>1. calls' # <<"connected">>
      BY <1>1
    <2> QED
      BY <2>1 DEF HandedInv
  <1> QED
    BY <1>1, <1>3, <1>4, <1>5, <1>6 DEF IInv

\* So does one that hands its socket over just behind the handshake.
LEMMA Handing ==
    ASSUME IInv, step # "none", Finish("connected"),
           UNCHANGED <<givenVars, remaining, sent, peer>>,
           taken' = Len(Handshake), taken' \in 0 .. sent,
           heard' \in 0 .. 2, told' \in [name : 0 .. 255, extra : Nat],
           kind \in {"socks5"} \cup Ciphered => heard' = 2 /\ told' = Told
    PROVE  IInv'
  <1>1. /\ step' = "none" /\ calls' \in Seq({"connected", "failed"})
        /\ socket' \in {"moved", "closed"} /\ CallInv' /\ SocketInv'
    BY Called
  <1>2. /\ UNCHANGED givenVars
        /\ Handshake' = Handshake /\ Stream' = Stream /\ Told' = Told
    BY SameBytes
  <1>3. GivenInv'
    BY <1>2, Given
  <1>4. TypeOK'
    BY <1>1, <1>2 DEF IInv, TypeOK
  <1>5. PlaceInv'
    BY <1>1 DEF PlaceInv
  <1>6. HandedInv'
    <2>1. kind' = kind
      BY DEF givenVars
    <2> QED
      BY <1>2, <2>1 DEF HandedInv, Ciphered
  <1> QED
    BY <1>1, <1>3, <1>4, <1>5, <1>6 DEF IInv

-----------------------------------------------------------------------------
(* The steps of a dialer and of its server. *)

Pending == {"start", "resolve", "connect", "hello", "method", "request",
            "head", "length", "rest", "target"}

\* A dialer that goes on leaves the invariant true if it is in its place.
LEMMA Going ==
    ASSUME IInv, step # "none", step' \in Pending,
           UNCHANGED <<calls, givenVars, sent, peer>>,
           taken' \in 0 .. sent, remaining' \in 0 .. 257,
           socket' \in {"unopened", "open", "moved", "closed"},
           heard' \in 0 .. 2, told' \in [name : 0 .. 255, extra : Nat],
           PlaceInv'
    PROVE  IInv'
  <1>1. calls' = <<>> /\ step' # "none"
    BY DEF IInv, CallInv, Pending
  <1>2. UNCHANGED givenVars /\ Stream' = Stream
    BY SameBytes
  <1>3. GivenInv'
    BY <1>2, Given
  <1>4. TypeOK'
    BY <1>1, <1>2 DEF IInv, TypeOK, Pending
  <1>5. CallInv' /\ SocketInv'
    BY <1>1 DEF CallInv, SocketInv
  <1>6. HandedInv'
    <2>1. calls' # <<"connected">>
      BY <1>1
    <2> QED
      BY <2>1 DEF HandedInv
  <1> QED
    BY <1>3, <1>4, <1>5, <1>6 DEF IInv

\* The first steps read nothing.
LEMMA StartKeeps ==
    ASSUME IInv, Start PROVE IInv'
  <1>1. step # "none" /\ taken' \in 0 .. sent
        /\ UNCHANGED <<givenVars, remaining, taken, serverVars>>
    BY DEF Start, IInv, TypeOK
  <1>2. CASE Finish("failed")
    BY <1>1, <1>2, Failing
  <1>3. CASE Go("start", "resolve")
    <2>1. PlaceInv'
      BY <1>1, <1>3 DEF Go, IInv, PlaceInv, serverVars
    <2> QED
      BY <1>1, <1>3, <2>1, Going DEF Go, IInv, TypeOK, serverVars, Pending
  <1> QED
    BY <1>2, <1>3 DEF Start

LEMMA ResolvedKeeps ==
    ASSUME IInv, Resolved PROVE IInv'
  <1>1. step # "none" /\ taken' \in 0 .. sent
        /\ UNCHANGED <<givenVars, remaining, taken, serverVars>>
    BY DEF Resolved, IInv, TypeOK
  <1>2. CASE Finish("failed")
    BY <1>1, <1>2, Failing
  <1>3. CASE Go("resolve", "connect")
    <2>1. PlaceInv'
      BY <1>1, <1>3 DEF Go, IInv, PlaceInv, serverVars
    <2> QED
      BY <1>1, <1>3, <2>1, Going DEF Go, IInv, TypeOK, serverVars, Pending
  <1> QED
    BY <1>2, <1>3 DEF Resolved

\* DIRECT and VMess hand over a socket nothing was read from.
LEMMA ConnectDoneKeeps ==
    ASSUME IInv, ConnectDone PROVE IInv'
  <1>1. /\ step = "connect" /\ step # "none" /\ taken' \in 0 .. sent
        /\ UNCHANGED <<givenVars, remaining, taken, serverVars>>
    BY DEF ConnectDone, IInv, TypeOK
  <1>2. CASE Finish("failed")
    BY <1>1, <1>2, Failing
  <1>3. CASE kind \in {"direct", "vmess"} /\ Finish("connected")
    <2>1. taken = 0 /\ reply \in Replies
      BY <1>1 DEF IInv, PlaceInv, GivenInv
    <2>2. kind \notin {"socks5"} \cup Ciphered
      BY <1>3 DEF Ciphered
    <2>3. Len(Handshake) = 0
      BY <2>1, <2>2, StreamIs
    <2> QED
      BY <1>1, <1>3, <2>1, <2>2, <2>3, Handing DEF IInv, TypeOK, serverVars
  <1>4. CASE /\ kind = "socks5" /\ step' = "hello"
             /\ socket' = "open" /\ UNCHANGED calls
    <2>1. PlaceInv'
      BY <1>1, <1>4 DEF IInv, PlaceInv, serverVars, givenVars
    <2> QED
      BY <1>1, <1>4, <2>1, Going DEF IInv, TypeOK, serverVars, Pending
  <1>5. CASE /\ kind \in Ciphered /\ step' = "target"
             /\ socket' = "open" /\ UNCHANGED calls
    <2>1. PlaceInv'
      BY <1>1, <1>5 DEF IInv, PlaceInv, serverVars, givenVars, Ciphered
    <2> QED
      BY <1>1, <1>5, <2>1, Going DEF IInv, TypeOK, serverVars, Pending
  <1> QED
    BY <1>2, <1>3, <1>4, <1>5 DEF ConnectDone, Handshakes

\* Writes to a server that is gone.
LEMMA WriteFailsKeeps ==
    ASSUME NEW s \in Pending, IInv, WriteFails(s) PROVE IInv'
  <1>1. step # "none" /\ taken' \in 0 .. sent
    BY DEF WriteFails, IInv, TypeOK, Pending
  <1> QED
    BY <1>1, Failing DEF WriteFails

LEMMA HelloWrittenKeeps ==
    ASSUME IInv, HelloWritten PROVE IInv'
  <1>1. PlaceInv'
    BY DEF HelloWritten, Go, IInv, PlaceInv, givenVars
  <1> QED
    BY <1>1, Going DEF HelloWritten, Go, IInv, TypeOK, Pending

\* The target, as the server makes it out.
LEMMA ToldIs ==
    ASSUME name \in NameLengths
    PROVE  /\ Told \in [name : 0 .. 255, extra : Nat]
           /\ name <= 255 => Told = [name |-> name, extra |-> 0]
  <1>1. name \in Nat
    BY DialerAssumption
  <1> DEFINE cut  == name % 256
             over == name - cut
  <1>2. cut \in 0 .. 255 /\ over \in Nat
    BY <1>1
  <1>3. name <= 255 => cut = name /\ over = 0
    BY <1>1
  <1>4. Told = [name |-> cut, extra |-> over]
    BY DEF Told, LengthByte
  <1> HIDE DEF cut, over
  <1>5. [name |-> cut, extra |-> over] \in [name : 0 .. 255, extra : Nat]
    BY <1>2
  <1>6. name <= 255 => Told = [name |-> name, extra |-> 0]
    BY <1>3, <1>4, Zenon
  <1> QED
    BY <1>4, <1>5, <1>6, Zenon

LEMMA RequestWrittenKeeps ==
    ASSUME IInv, RequestWritten PROVE IInv'
  <1>1. Told \in [name : 0 .. 255, extra : Nat] /\ Told' = Told
    BY ToldIs, SameBytes DEF RequestWritten, IInv, GivenInv
  <1>2. PlaceInv'
    BY <1>1 DEF RequestWritten, Go, IInv, PlaceInv, givenVars
  <1> QED
    BY <1>1, <1>2, Going DEF RequestWritten, Go, IInv, TypeOK, Pending

\* A connection that encrypts is handed over before anything is read.
LEMMA TargetWrittenKeeps ==
    ASSUME IInv, TargetWritten PROVE IInv'
  <1>1. Told \in [name : 0 .. 255, extra : Nat]
    BY ToldIs DEF IInv, GivenInv
  <1>2. kind \in Ciphered /\ taken = 0 /\ reply \in Replies
    BY DEF TargetWritten, IInv, PlaceInv, GivenInv
  <1>3. Len(Handshake) = 0
    BY <1>2, StreamIs DEF Ciphered
  <1> QED
    BY <1>1, <1>2, <1>3, Handing DEF TargetWritten, IInv, TypeOK

\* The method is the first read of Socks5Dialer.
LEMMA MethodReadKeeps ==
    ASSUME IInv, MethodRead PROVE IInv'
  <1>1. /\ kind = "socks5" /\ taken = 0 /\ reply \in Replies
        /\ sent \in Nat /\ sent >= 2 /\ taken' = 2
    BY DEF MethodRead, Got, IInv, TypeOK, PlaceInv, GivenInv
  <1>2. taken' \in 0 .. sent
    BY <1>1
  <1>3. CASE Finish("failed")
    BY <1>2, <1>3, Failing DEF MethodRead
  <1>4. CASE Byte(2) = 0 /\ Go("method", "request")
    <2>1. reply.method = 0
      BY <1>1, <1>4, FoundIs DEF Byte
    <2>2. PlaceInv'
      BY <1>1, <1>4, <2>1 DEF Go, MethodRead, IInv, PlaceInv, givenVars,
                              serverVars
    <2> QED
      BY <1>2, <1>4, <2>2, Going DEF Go, MethodRead, IInv, TypeOK, serverVars,
                                     Pending
  <1> QED
    BY <1>3, <1>4 DEF MethodRead

\* The head of the reply tells how much is left of it, but for a name.
LEMMA HeadReadKeeps ==
    ASSUME IInv, HeadRead PROVE IInv'
  <1>1. /\ kind = "socks5" /\ taken = 2 /\ reply \in Replies
        /\ reply.method = 0 /\ heard = 2 /\ told = Told
        /\ sent \in Nat /\ sent - taken >= 4 /\ taken' = taken + 4
    BY DEF HeadRead, Got, IInv, TypeOK, PlaceInv, GivenInv
  <1>2. taken' = 6 /\ taken' \in 0 .. sent
    BY <1>1
  <1>3. Byte(4) = reply.atyp
    BY <1>1, FoundIs DEF Byte
  <1>4. /\ UNCHANGED <<givenVars, serverVars>> /\ step = "head"
        /\ Told' = Told /\ Handshake' = Handshake
    BY SameBytes DEF HeadRead
  <1>5. CASE Finish("failed") /\ UNCHANGED remaining
    BY <1>2, <1>4, <1>5, Failing
  <1>6. CASE Byte(4) = 3 /\ Go("head", "length") /\ UNCHANGED remaining
    <2>1. PlaceInv'
      BY <1>1, <1>2, <1>3, <1>4, <1>6
         DEF Go, IInv, PlaceInv, givenVars, serverVars
    <2> QED
      BY <1>2, <1>4, <1>6, <2>1, Going
         DEF Go, IInv, TypeOK, serverVars, Pending
  <1>7. CASE /\ Byte(4) \in {1, 4} /\ Go("head", "rest")
             /\ remaining' = (IF Byte(4) = 1 THEN 4 ELSE 16) + 2
    <2>1. remaining' \in 0 .. 257 /\ taken' + remaining' = Len(Handshake)
      BY <1>1, <1>2, <1>3, <1>7, FoundIs
    <2>2. PlaceInv'
      BY <1>1, <1>2, <1>4, <1>7, <2>1
         DEF Go, IInv, PlaceInv, givenVars, serverVars
    <2> QED
      BY <1>2, <1>4, <1>7, <2>1, <2>2, Going
         DEF Go, IInv, TypeOK, serverVars, Pending
  <1> QED
    BY <1>5, <1>6, <1>7 DEF HeadRead

\* The length of a bound name tells the rest.
LEMMA DomainLengthReadKeeps ==
    ASSUME IInv, DomainLengthRead PROVE IInv'
  <1>1. /\ kind = "socks5" /\ taken = 6 /\ reply \in Replies
        /\ reply.atyp = 3 /\ heard = 2 /\ told = Told
        /\ sent \in Nat /\ sent - taken >= 1 /\ taken' = taken + 1
    BY DEF DomainLengthRead, Got, IInv, TypeOK, PlaceInv, GivenInv
  <1>2. taken' = 7 /\ taken' \in 0 .. sent
    BY <1>1
  <1>3. Byte(1) = reply.len /\ reply.len \in 0 .. 255
    BY <1>1, FoundIs DEF Byte
  <1>4. /\ UNCHANGED <<givenVars, serverVars>> /\ step = "length"
        /\ Go("length", "rest") /\ remaining' = reply.len + 2
        /\ Told' = Told /\ Handshake' = Handshake
    BY <1>3, SameBytes DEF DomainLengthRead
  <1>5. remaining' \in 0 .. 257 /\ taken' + remaining' = Len(Handshake)
    <2>1. reply.len + 2 \in 0 .. 257 /\ 7 + (reply.len + 2) = reply.len + 9
      BY <1>3
    <2>2. Len(Handshake) = reply.len + 9
      BY <1>1, FoundIs
    <2> QED
      BY <1>2, <1>4, <2>1, <2>2, Zenon
  <1>6. PlaceInv'
    BY <1>1, <1>2, <1>4, <1>5 DEF Go, IInv, PlaceInv, givenVars, serverVars
  <1> QED
    BY <1>2, <1>4, <1>5, <1>6, Going DEF Go, IInv, TypeOK, serverVars, Pending

\* The rest read, the dialer is just behind the handshake.
LEMMA RestReadKeeps ==
    ASSUME IInv, RestRead PROVE IInv'
  <1>1. /\ step = "rest" /\ taken \in Nat /\ remaining \in Nat /\ sent \in Nat
        /\ sent - taken >= remaining /\ taken' = taken + remaining
        /\ taken + remaining = Len(Handshake) /\ heard = 2 /\ told = Told
    BY DEF RestRead, Got, IInv, TypeOK, PlaceInv
  <1>2. taken' = Len(Handshake) /\ taken' \in 0 .. sent
    BY <1>1
  <1> QED
    BY <1>1, <1>2, Handing DEF RestRead, IInv, TypeOK, serverVars

LEMMA ReadFailsKeeps ==
    ASSUME IInv, ReadFails PROVE IInv'
  <1>1. step # "none" /\ taken' \in 0 .. sent
    BY DEF ReadFails, IInv, TypeOK
  <1> QED
    BY <1>1, Failing DEF ReadFails

\* The server moves nothing of the dialer, and sends no more than there is.
LEMMA ServerKeeps ==
    ASSUME IInv, ServerSends \/ ServerGoes PROVE IInv'
  <1>1. UNCHANGED <<givenVars, dialerVars, heard, told>>
    BY DEF ServerSends, ServerGoes
  <1>2. /\ Handshake' = Handshake /\ Stream' = Stream /\ Told' = Told
        /\ UNCHANGED givenVars
    BY <1>1, SameBytes
  <1>3. reply \in Replies /\ Len(Stream) \in Nat
    BY StreamIs, DialerAssumption DEF IInv, GivenInv
  <1>4. ASSUME ServerSends
        PROVE  Answerable <= Len(Stream)
    <2>1. CASE kind = "socks5"
      <3>1. Len(Handshake) >= 6 /\ Len(Handshake) \in Nat
        BY <1>3, <2>1, FoundIs, StreamIs
      <3>2. Len(Stream) >= 2
        BY <1>3, <3>1, StreamIs, DialerAssumption
      <3> QED
        BY <1>3, <2>1, <3>2 DEF Answerable, Ciphered
    <2>2. CASE kind # "socks5"
      BY <1>3, <2>2 DEF Answerable
    <2> QED
      BY <2>1, <2>2
  <1>5. sent' \in 0 .. Len(Stream) /\ taken \in 0 .. sent' /\ peer' \in {"up", "gone"}
    <2>1. CASE ServerSends
      <3>1. Answerable \in Nat
        BY <1>3 DEF Answerable
      <3> QED
        BY <1>3, <1>4, <2>1, <3>1 DEF ServerSends, IInv, TypeOK
    <2>2. CASE ServerGoes
      BY <2>2 DEF ServerGoes, IInv, TypeOK
    <2> QED
      BY <2>1, <2>2
  <1>6. TypeOK'
    BY <1>1, <1>2, <1>5 DEF IInv, TypeOK, dialerVars
  <1>7. GivenInv' /\ CallInv' /\ SocketInv'
    BY <1>1 DEF IInv, GivenInv, CallInv, SocketInv, givenVars, dialerVars
  <1>8. PlaceInv' /\ HandedInv'
    BY <1>1, <1>2 DEF IInv, PlaceInv, HandedInv, Ciphered, givenVars, dialerVars
  <1> QED
    BY <1>6, <1>7, <1>8 DEF IInv

-----------------------------------------------------------------------------

LEMMA InitHolds ==
    ASSUME Init PROVE IInv
  <1>1. /\ calls = <<>> /\ calls \in Seq({"connected", "failed"})
        /\ calls # <<"connected">>
    BY DEF Init
  <1>2. reply \in Replies /\ Len(Stream) \in Nat
    BY StreamIs, DialerAssumption DEF Init
  <1>3. TypeOK
    BY <1>1, <1>2 DEF Init, TypeOK
  <1>4. GivenInv /\ CallInv /\ PlaceInv /\ SocketInv
    BY <1>1 DEF Init, GivenInv, CallInv, PlaceInv, SocketInv
  <1>5. HandedInv
    BY <1>1 DEF HandedInv
  <1> QED
    BY <1>3, <1>4, <1>5 DEF IInv

LEMMA NextKeeps ==
    ASSUME IInv, [Next]_vars PROVE IInv'
  <1>1. CASE Start
    BY <1>1, StartKeeps
  <1>2. CASE Resolved
    BY <1>2, ResolvedKeeps
  <1>3. CASE ConnectDone
    BY <1>3, ConnectDoneKeeps
  <1>4. CASE HelloWritten
    BY <1>4, HelloWrittenKeeps
  <1>5. CASE MethodRead
    BY <1>5, MethodReadKeeps
  <1>6. CASE RequestWritten
    BY <1>6, RequestWrittenKeeps
  <1>7. CASE HeadRead
    BY <1>7, HeadReadKeeps
  <1>8. CASE DomainLengthRead
    BY <1>8, DomainLengthReadKeeps
  <1>9. CASE RestRead
    BY <1>9, RestReadKeeps
  <1>10. CASE TargetWritten
    BY <1>10, TargetWrittenKeeps
  <1>11. CASE WriteFails("hello") \/ WriteFails("request") \/ WriteFails("target")
    <2>1. "hello" \in Pending /\ "request" \in Pending /\ "target" \in Pending
      BY DEF Pending
    <2> QED
      BY <1>11, <2>1, WriteFailsKeeps
  <1>12. CASE ReadFails
    BY <1>12, ReadFailsKeeps
  <1>13. CASE ServerSends \/ ServerGoes
    BY <1>13, ServerKeeps
  <1>14. CASE UNCHANGED vars
    <2>1. UNCHANGED <<givenVars, dialerVars, serverVars>>
      BY <1>14 DEF vars
    <2>2. Handshake' = Handshake /\ Stream' = Stream /\ Told' = Told
      BY <2>1, SameBytes
    <2>3. TypeOK'
      BY <2>1, <2>2 DEF IInv, TypeOK, dialerVars, serverVars
    <2>4. GivenInv' /\ CallInv' /\ SocketInv'
      BY <2>1 DEF IInv, GivenInv, CallInv, SocketInv, givenVars, dialerVars
    <2>5. PlaceInv' /\ HandedInv'
      BY <2>1, <2>2 DEF IInv, PlaceInv, HandedInv, Ciphered, givenVars,
                        dialerVars, serverVars
    <2> QED
      BY <2>3, <2>4, <2>5 DEF IInv
  <1> QED
    BY <1>1, <1>2, <1>3, <1>4, <1>5, <1>6, <1>7, <1>8, <1>9, <1>10, <1>11,
       <1>12, <1>13, <1>14 DEF Next, Dialling

LEMMA InvHolds == Spec => []IInv
  BY InitHolds, NextKeeps, PTL DEF Spec

\* A dialer and its server stay in the states the types name, for every name,
\* every reply and every payload.
THEOREM TypeCorrect == Spec => []TypeOK
  <1>1. IInv => TypeOK
    BY DEF IInv
  <1> QED
    BY <1>1, InvHolds, PTL

\* Whatever the server answers and wherever it breaks off, a connection is
\* handed over just behind the handshake, told of the target that was asked
\* for, and no socket is left open by a dialer that is gone.
THEOREM HandsOverClean == Spec => []HandedOverClean
  <1>1. IInv => HandedOverClean
    <2> SUFFICES ASSUME IInv PROVE HandedOverClean
      OBVIOUS
    <2>1. name <= 255 => Told = [name |-> name, extra |-> 0]
      BY ToldIs DEF IInv, GivenInv
    <2>2. calls = <<"connected">> =>
            /\ taken = Len(Handshake)
            /\ kind \in {"socks5"} \cup Ciphered =>
                /\ heard = 2
                /\ name <= 255 => told = [name |-> name, extra |-> 0]
      BY <2>1, Zenon DEF IInv, HandedInv
    <2>3. IF step # "none" THEN calls = <<>>
          ELSE socket = IF calls = <<"connected">> THEN "moved" ELSE "closed"
      BY DEF IInv, CallInv, SocketInv
    <2> QED
      BY <2>2, <2>3, Zenon DEF HandedOverClean
  <1> QED
    BY <1>1, InvHolds, PTL

\* A step of a dialer calls the handler of a dial that is pending, or none.
LEMMA CallsOnce ==
    ASSUME IInv, IInv', [Next]_vars
    PROVE  [AsDial!DialNext]_Outcome
  <1>1. calls' = calls \/ step # "none"
    BY DEF Next, Dialling, Start, Resolved, ConnectDone, HelloWritten,
           MethodRead, RequestWritten, HeadRead, DomainLengthRead, RestRead,
           TargetWritten, WriteFails, ReadFails, ServerSends, ServerGoes, Go,
           vars, dialerVars, serverVars
  <1>2. CASE calls' = calls
    BY <1>2 DEF Outcome
  <1>3. CASE step # "none"
    <2>1. calls = <<>>
      BY <1>3 DEF IInv, CallInv
    <2>2. calls' \in {<<>>, <<"connected">>, <<"failed">>}
      BY DEF IInv, CallInv
    <2>3. Outcome = "pending"
      BY <2>1 DEF Outcome
    <2>4. Outcome' \in {"pending", "connected", "failed"}
      BY <2>2 DEF Outcome
    <2> QED
      BY <2>3, <2>4 DEF AsDial!DialNext, AsDial!Succeed, AsDial!Refuse
  <1> QED
    BY <1>1, <1>2, <1>3

\* A dialer implements Dial: its handler is called at most once, whatever the
\* server answers, and never after that.
THEOREM KeepsDial == Spec => IsDial
  <1>1. Init => AsDial!DialInit
    BY DEF Init, Outcome, AsDial!DialInit
  <1> QED
    BY <1>1, InvHolds, CallsOnce, PTL DEF Spec, IsDial

=============================================================================
