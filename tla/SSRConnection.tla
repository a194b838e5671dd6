--------------------------- MODULE SSRConnection ---------------------------
(***************************************************************************)
(* SSRConnection: ShadowsocksR over a socket, with the protocol origin or  *)
(* auth_aes128_sha1 and the obfuscation plain or http_simple.  The two     *)
(* directions share no state (the protocol object keeps a packet counter   *)
(* for each), so a behaviour follows one of them: "up", what the handshake *)
(* and async_write send, or "down", what async_read_some makes of the      *)
(* bytes of the server.                                                    *)
(*                                                                         *)
(* Downwards the stream is a sequence of units, each the i-th of its       *)
(* packet, behind those of the IV; sizes are scaled down.  Encryption is a *)
(* stream cipher: a unit altered on the way is garbage, an altered IV      *)
(* makes all of it garbage.  Checks are ideal: a packet passes if it is    *)
(* the one with the counter the reader is at, unaltered.  Upwards the      *)
(* sizes are the real ones, and a stretch of the stream is one record.     *)
(*                                                                         *)
(* Not here: errors of the socket's writes (Dialer has the handshake's,    *)
(* Session the others), 2^32 packets, how keys are derived.                *)
(***************************************************************************)
EXTENDS SSRPacket, Sequences, FiniteSets, SequencesExt

CONSTANTS
    IvSize,      \* units of the IV
    LengthSize,  \* units of a packet's length and its check
    ReadSize,    \* units read_buffer_ holds; a packet is shorter
    CallerSize,  \* units the caller's buffer holds
    SendSizes,   \* bound: data the server puts into a packet
    MaxPackets,  \* bound: packets of the server
    WriteSizes,  \* bound: bytes of one async_write, of Session's buffer at most
    MaxWrites,   \* bound: calls of async_write
    TargetSize   \* bytes of the address the handshake sends

ASSUME SSRConnectionAssumption ==
    /\ IvSize \in Nat \ {0} /\ LengthSize \in Nat \ {0}
    /\ ReadSize \in Nat \ {0} /\ CallerSize \in Nat \ {0}
    /\ SendSizes \subseteq Nat \ {0} /\ WriteSizes \subseteq Nat \ {0}
    /\ MaxPackets \in Nat /\ MaxWrites \in Nat /\ TargetSize \in Nat \ {0}
    \* read_buffer_ and Session's buffers have 8192 bytes.
    /\ LengthSize < ReadSize /\ ReadSize <= CallerSize

VARIABLES
    direction, protocol, obfs,
    \* up: first_packet_ of the obfuscation and of the protocol, the counter,
    \* how far the key stream is used, bytes and calls so far, what was sent
    obfs_first, first_packet, pack_id, keystream, given, writes, sent,
    \* the server and the stream down: packets sent, units of data in them, the
    \* stream, how much of it was read, still connected, the altered unit
    packets, put, wire, taken, open, altered,
    \* down: the connection, and its caller
    decryptor, recv_buffer, recv_id, reading, error,
    got,         \* history: what the caller has read
    filled       \* history: where in got a read ended that filled its buffer

upVars     == <<obfs_first, first_packet, pack_id, keystream, given, writes,
                sent>>
serverVars == <<packets, put, wire, altered>>
readerVars == <<decryptor, recv_buffer, recv_id, reading, error, got, filled>>
downVars   == <<serverVars, taken, open, readerVars>>
chosen     == <<direction, protocol, obfs>>
vars       == <<chosen, upVars, downVars>>

Init ==
    /\ direction \in {"up", "down"}
    /\ protocol \in {"origin", "auth"}
    \* client_decode gives back what it is given, whichever the obfuscation.
    /\ obfs \in IF direction = "up" THEN {"plain", "http_simple"} ELSE {"plain"}
    /\ obfs_first = TRUE /\ first_packet = TRUE /\ pack_id = 1 /\ keystream = 0
    /\ given = 0 /\ writes = 0 /\ sent = <<>>
    /\ packets = 0 /\ put = 0 /\ wire = <<>> /\ taken = 0 /\ open = TRUE
    /\ altered = 0
    /\ decryptor = "none" /\ recv_buffer = <<>> /\ recv_id = 1
    /\ reading = FALSE /\ error = "none" /\ got = <<>> /\ filled = {}

Least(m, n) == IF m < n THEN m ELSE n

-----------------------------------------------------------------------------
(* Up. *)

\* Bound: of the random lengths, those where the layout changes.
Sampled(lens) == {n \in lens : n \in {0, 127, 128} \/ n + 1 \notin lens}

\* A part of what one call sends: bytes from .. to of the caller, as they are,
\* in the authenticating packet, or in a numbered one; with a random part.
Part(kind, id, rand, from, to) ==
    [kind |-> kind, id |-> id, rand |-> rand, from |-> from, to |-> to]
Carried(part) == part.to - part.from + 1
PartLen(part) ==
    CASE part.kind = "data"   -> Carried(part)
      [] part.kind = "auth"   -> AuthLen(part.rand, Carried(part))
      [] part.kind = "packet" -> PackedLen(part.rand, Carried(part))

\* client_pre_encrypt of origin.
Plain(size) == { << Part("data", 0, 0, given + 1, given + size) >> }

\* pack_auth_data.
Auth(size) == { << Part("auth", 0, r, given + 1, given + size) >>
                : r \in Sampled(AuthRandLens(size)) }

\* A write as packets of at most `most` bytes, each with a random part.
Packets(size, most) ==
    LET chunks  == (size + most - 1) \div most
        Data(k) == Least(most, size - (k - 1) * most)
        Rand(k) == Sampled(RandLens(Data(k), size))
    IN  { [k \in 1 .. chunks |->
                Part("packet", pack_id + k - 1, r[k], given + (k - 1) * most + 1,
                     given + (k - 1) * most + Data(k))]
          : r \in { r \in [1 .. chunks -> UNION {Rand(k) : k \in 1 .. chunks}] :
                        \A k \in 1 .. chunks : r[k] \in Rand(k) } }

\* Mutant: the chunk is as long as the unpacking side's limit on a packet.
DataPackets_Long(size) == Packets(size, MaxPacket - 1)
\* client_pre_encrypt of auth_aes128_sha1 after the first packet.
DataPackets(size) == Packets(size, ChunkSize)

PartsLen(parts) == FoldLeft(LAMBDA n, part : n + PartLen(part), 0, parts)

\* Pack, encrypt behind what was encrypted before, disguise, and write.
Send(size, iv) ==
    /\ \E parts \in IF protocol = "origin" THEN Plain(size)
                    ELSE IF first_packet   THEN Auth(size)
                    ELSE DataPackets(size) :
        /\ sent' = Append(sent, [header |-> obfs = "http_simple" /\ obfs_first,
                                 iv |-> iv, at |-> keystream, parts |-> parts])
        /\ keystream' = keystream + PartsLen(parts)
        /\ pack_id' = pack_id
              + IF protocol = "auth" /\ ~first_packet THEN Len(parts) ELSE 0
    /\ first_packet' = (first_packet /\ protocol = "origin")
    /\ obfs_first' = (obfs_first /\ obfs = "plain")
    /\ given' = given + size

\* SSRDialer::handshake sends the target, behind the IV.
Handshake ==
    /\ direction = "up" /\ sent = <<>>
    /\ Send(TargetSize, TRUE)
    /\ UNCHANGED <<chosen, writes, downVars>>

AsyncWrite(size) ==
    /\ sent # <<>> /\ writes < MaxWrites
    /\ Send(size, FALSE)
    /\ writes' = writes + 1
    /\ UNCHANGED <<chosen, downVars>>

-----------------------------------------------------------------------------
(* The server and the stream down. *)

\* A packet: its length with check, a random part, the data, the check.
PacketSize(data) == LengthSize + 1 + Len(data) + 1
Packet(id, data) ==
    [i \in 1 .. PacketSize(data) |-> [id |-> id, data |-> data, at |-> i]]
IV      == [i \in 1 .. IvSize |-> [id |-> 0, data |-> <<>>, at |-> i]]
Garbage == [id |-> 0, data |-> <<0>>, at |-> 0]

\* The server sends data: behind its IV, in packets shorter than ReadSize
\* (the theorem PacketsFit shows that the layout keeps them so), or as it is.
ServerSends(size) ==
    /\ direction = "down" /\ open /\ packets < MaxPackets
    /\ LET data == [i \in 1 .. size |-> put + i]
       IN  wire' = wire \o (IF packets = 0 THEN IV ELSE <<>>)
                \o (IF protocol = "auth" THEN Packet(packets + 1, data)
                    ELSE [i \in 1 .. size |->
                            [id |-> 0, data |-> <<put + i>>, at |-> 0]])
    /\ packets' = packets + 1 /\ put' = put + size
    /\ UNCHANGED <<chosen, upVars, taken, open, altered, readerVars>>

\* The connection ends, behind all that was sent or at once.
Cut ==
    /\ direction = "down" /\ open /\ open' = FALSE
    /\ \E n \in {taken, Len(wire)} : wire' = SubSeq(wire, 1, n)
    /\ UNCHANGED <<chosen, upVars, packets, put, taken, altered, readerVars>>

Alter ==
    /\ altered = 0
    /\ \E i \in taken + 1 .. Len(wire) :
        altered' = i /\ wire' = [wire EXCEPT ![i] = Garbage]
    /\ UNCHANGED <<chosen, upVars, packets, put, taken, open, readerVars>>

-----------------------------------------------------------------------------
(* Down. *)

AsyncReadSome ==
    /\ direction = "down" /\ ~reading /\ error = "none"
    /\ reading' = TRUE
    /\ UNCHANGED <<chosen, upVars, serverVars, taken, open, decryptor,
                   recv_buffer, recv_id, error, got, filled>>

\* A packet whose check fails is taken off the buffer.
Skipped(st, size) == [st EXCEPT !.buf = SubSeq(@, size + 1, Len(@))]

\* Mutant: the check over the whole of the packet is left out.
Authentic_LengthOnly(buf, id) ==
    buf[1] = Packet(id, buf[1].data)[1]
\* The check of a packet that starts the buffer.
Authentic(buf, id) ==
    SubSeq(buf, 1, PacketSize(buf[1].data)) = Packet(id, buf[1].data)

\* Mutant: one packet is unpacked, and the rest waits for the next read.
Received_One(st, size, data) ==
    [st EXCEPT !.buf = SubSeq(@, size + 1, Len(@)), !.id = @ + 1,
               !.plain = @ \o data, !.done = TRUE]
\* A good packet is taken off the buffer and counted, and yields its data.
Received(st, size, data) ==
    [st EXCEPT !.buf = SubSeq(@, size + 1, Len(@)), !.id = @ + 1,
               !.plain = @ \o data]

\* Mutant: what is too little for a packet is dropped.
Waiting_Drops(st) == [st EXCEPT !.buf = <<>>, !.done = TRUE]
\* What is too little for a packet is left for the next read.
Waiting(st) == [st EXCEPT !.done = TRUE]

\* One turn of the loop of client_post_decrypt.
UnpackOne(st) ==
    LET buf  == st.buf
        size == PacketSize(buf[1].data)
    IN  IF st.done THEN st
        ELSE IF Len(buf) < LengthSize THEN Waiting(st)
        ELSE IF \/ size >= ReadSize
                \/ \E i \in 1 .. LengthSize :
                        buf[i] # Packet(st.id, buf[1].data)[i]
             THEN [st EXCEPT !.buf = <<>>, !.done = TRUE]
        ELSE IF Len(buf) < size THEN Waiting(st)
        ELSE IF ~Authentic(buf, st.id) THEN Skipped(st, size)
        ELSE Received(st, size, buf[1].data)

\* client_post_decrypt; each turn ends the loop or takes a packet off.
Unpack(units) ==
    LET buf == recv_buffer \o units
    IN  IF protocol = "origin"
        THEN [buf |-> <<>>, id |-> recv_id, done |-> TRUE,
              plain |-> FlattenSeq([i \in 1 .. Len(units) |-> units[i].data])]
        ELSE FoldLeft(LAMBDA st, i : UnpackOne(st),
                      [buf |-> buf, id |-> recv_id, done |-> FALSE,
                       plain |-> <<>>],
                      [i \in 1 .. Len(buf) \div PacketSize(<<>>) + 1 |-> i])

\* decryptor_ made from the IV a first read begins with, or as it was.
Decryptor(units) ==
    IF decryptor # "none" THEN decryptor
    ELSE IF SubSeq(units, 1, IvSize) = IV THEN "right" ELSE "wrong"

\* Mutant: what the caller's buffer cannot take ends the stretch it has.
HandOver_Late(plain) ==
    /\ got' = got \o SubSeq(plain, Len(plain) - Least(Len(plain), CallerSize) + 1,
                            Len(plain))
    /\ filled' = filled
\* As much of what was unpacked as the caller's buffer takes; the rest is lost.
HandOver(plain) ==
    LET len == Least(Len(plain), CallerSize)
    IN  /\ got' = got \o SubSeq(plain, 1, len)
        /\ filled' = filled \cup IF len = CallerSize THEN {Len(got) + len} ELSE {}

\* The first read has to bring the whole of the IV.
TooShort(n) == decryptor = "none" /\ n < IvSize

\* The handler of a read of n units: nothing unpacked, and it reads again.
ReadHandler(n) ==
    /\ reading /\ ~TooShort(n)
    /\ n <= Len(wire) - taken
    /\ taken' = taken + n
    /\ LET units == SubSeq(wire, taken + 1, taken + n)
           dec   == Decryptor(units)
           plain == SubSeq(units, IF decryptor = "none" THEN IvSize + 1 ELSE 1, n)
       IN  \E st \in {Unpack([i \in 1 .. Len(plain) |->
                            IF dec = "right" THEN plain[i] ELSE Garbage])} :
           /\ decryptor' = dec
           /\ recv_buffer' = st.buf /\ recv_id' = st.id
           /\ HandOver(st.plain)
           /\ reading' = (st.plain = <<>>)
    /\ UNCHANGED <<chosen, upVars, serverVars, open, error>>

\* A first read without the whole of the IV: std::errc::message_size.
ShortRead(n) ==
    /\ reading /\ TooShort(n) /\ n <= Len(wire) - taken
    /\ taken' = taken + n
    /\ error' = "message_size" /\ reading' = FALSE
    /\ UNCHANGED <<chosen, upVars, serverVars, open, decryptor, recv_buffer,
                   recv_id, got, filled>>

\* The socket's read fails: the end of the stream, or a reset.
ReadFails ==
    /\ reading /\ ~open /\ taken = Len(wire)
    /\ error' = "eof" /\ reading' = FALSE
    /\ UNCHANGED <<chosen, upVars, serverVars, taken, open, decryptor,
                   recv_buffer, recv_id, got, filled>>

-----------------------------------------------------------------------------

Down == AsyncReadSome \/ (\E n \in 1 .. ReadSize : ReadHandler(n) \/ ShortRead(n))
        \/ ReadFails

Next ==
    \/ Handshake \/ \E size \in WriteSizes : AsyncWrite(size)
    \/ \E size \in SendSizes : ServerSends(size)
    \/ Cut \/ Alter
    \/ Down

Spec == Init /\ [][Next]_vars

\* The socket brings what was sent, the loop runs the handlers, and the caller
\* (a relay loop of Session) reads again after each read.
Fairness == WF_vars(Down)

FairSpec == Spec /\ Fairness

-----------------------------------------------------------------------------
(* Properties. *)

Unit == [id : Nat, data : Seq(Nat), at : Nat]

\* Types of the variables; what client_post_decrypt leaves in recv_buffer_ is
\* shorter than a packet may be.
TypeOK ==
    /\ direction \in {"up", "down"} /\ protocol \in {"origin", "auth"}
    /\ obfs \in {"plain", "http_simple"}
    /\ obfs_first \in BOOLEAN /\ first_packet \in BOOLEAN
    /\ pack_id \in Nat \ {0} /\ keystream \in Nat /\ given \in Nat
    /\ writes \in 0 .. MaxWrites
    /\ \A m \in DOMAIN sent :
        /\ {sent[m].header, sent[m].iv} \subseteq BOOLEAN /\ sent[m].at \in Nat
        /\ sent[m].parts \in Seq([kind : {"data", "auth", "packet"}, id : Nat,
                                  rand : 0 .. 1460, from : Nat, to : Nat])
    /\ packets \in 0 .. MaxPackets /\ put \in Nat /\ wire \in Seq(Unit)
    /\ taken \in 0 .. Len(wire) /\ open \in BOOLEAN /\ altered \in Nat
    /\ decryptor \in {"none", "right", "wrong"}
    /\ recv_buffer \in Seq(Unit) /\ Len(recv_buffer) <= ReadSize - 2
    /\ recv_id \in Nat \ {0} /\ reading \in BOOLEAN
    /\ error \in {"none", "eof", "message_size"}
    /\ got \in Seq(Nat) /\ filled \subseteq DOMAIN got

\* What the server has to find for the stream up to make sense to it: the HTTP
\* header and the IV before everything else and once; one key stream through
\* the handshake and all writes after it; the bytes of the callers in order and
\* complete; and with auth_aes128_sha1 the authenticating packet with the target
\* first, then packets counted from 1, short enough, with the data where the
\* layout says it is.
ServerUnderstands ==
    LET parts == FlattenSeq([m \in DOMAIN sent |-> sent[m].parts])
    IN  /\ \A m \in DOMAIN sent :
            /\ sent[m].header = (m = 1 /\ obfs = "http_simple")
            /\ sent[m].iv = (m = 1)
            /\ sent[m].at = PartsLen(FlattenSeq(
                                [l \in 1 .. m - 1 |-> sent[l].parts]))
        /\ \A k \in DOMAIN parts :
            /\ parts[k].from = IF k = 1 THEN 1 ELSE parts[k - 1].to + 1
            /\ k = Len(parts) => parts[k].to = given
            /\ k = 1 => parts[k].to = TargetSize
            /\ protocol = "auth" => parts[k].kind = IF k = 1 THEN "auth" ELSE "packet"
            /\ parts[k].kind = "packet" =>
                /\ parts[k].id = k - 1
                /\ PartLen(parts[k]) < MaxPacket
                /\ DataLen(PartLen(parts[k]), RandHead(parts[k].rand))
                        = Carried(parts[k])

\* What the caller gets is in order and each unit once.  With origin nothing is
\* missing; with auth_aes128_sha1 a unit may be, but only behind a read that
\* filled the caller's buffer.
GapsOnlyWhereFull ==
    \A i \in DOMAIN got :
        LET before == IF i = 1 THEN 0 ELSE got[i - 1]
        IN  IF protocol = "origin" THEN got[i] = i \/ (altered # 0 /\ got[i] = 0)
            ELSE /\ got[i] > before
                 /\ got[i] = before + 1 \/ i - 1 \in filled

\* With auth_aes128_sha1 nothing reaches the caller but the data of packets that
\* end before the first altered unit: once a check has failed the reader's
\* counter stays behind and nothing passes any more.
NothingForged ==
    protocol = "auth" /\ altered # 0 =>
        \A i \in DOMAIN got : \E j \in DOMAIN wire :
            /\ j < altered /\ wire[j].at = PacketSize(wire[j].data)
            /\ \E k \in DOMAIN wire[j].data : wire[j].data[k] = got[i]

\* In the end the caller has all that the server sent on a connection that stays
\* sound, up to where its buffer cut the last read off, unless the first read
\* had not the whole of the IV; and every end of the connection is told to the
\* caller, whatever was altered before it.
DataArrives ==
    <>[] IF ~open THEN error # "none"
         ELSE \/ put = 0 \/ altered # 0
              \/ error = "message_size" /\ taken < IvSize
              \/ got # <<>> /\ (Last(got) = put \/ Len(got) \in filled)

=============================================================================
