------------------------ MODULE EncryptedConnection ------------------------
(***************************************************************************)
(* EncryptedConnection: the Shadowsocks AEAD framing over another          *)
(* connection.  One direction: an object that writes at one end, an object *)
(* that reads at the other, and the TCP stream between them.  (The two     *)
(* halves of one object share no state but the key.)                       *)
(*                                                                         *)
(* The stream is a sequence of units, each a part of a block: the salt, an *)
(* encrypted length, or an encrypted payload with its tag.  Encryption is  *)
(* ideal: a block opens with the subkey of its salt and the nonce it was   *)
(* sealed with, read from its first unit to its last, and no other way.    *)
(* async_read completes once all the units it asks for are there.          *)
(*                                                                         *)
(* Not here: the constructor with a known salt, which no caller uses, and  *)
(* the queue of writes, which is declared and never used.                  *)
(***************************************************************************)
EXTENDS Integers, Sequences, FiniteSets, SequencesExt

CONSTANTS
    SaltSize, TagSize,  \* units of a salt and of a tag
    MaxChunk,    \* 0x3FFF in the code
    BufferSize,  \* units the caller's read buffer holds
    MaxWrite,    \* bound: units of one write
    MaxData,     \* bound: units written in all
    Tampering    \* one unit may be altered on the way

ASSUME EncryptedConnectionAssumption ==
    /\ SaltSize \in Nat \ {0} /\ TagSize \in Nat \ {0}
    /\ MaxChunk \in Nat \ {0} /\ BufferSize \in Nat \ {0}
    /\ MaxWrite \in Nat \ {0} /\ MaxData \in Nat
    /\ Tampering \in BOOLEAN

VARIABLES
    send_nonce,           \* the writing object
    put,                  \* units of plaintext its caller has written
    wire, arrived, open,  \* the stream, how far it has come, still connected
    tampered,
    read_state, subkey, nonce, current_payload_len, taken, decrypted_buffer,
                          \* the reading object
    reading,              \* its caller's read: none, posted or pending
    user_buffer,          \* what a posted handler will hand over
    error,                \* what the caller was last told
    got                   \* history: what the caller has read

writerVars == <<send_nonce, put>>
streamVars == <<wire, arrived, open, tampered>>
readerVars == <<read_state, subkey, nonce, current_payload_len, taken,
                decrypted_buffer>>
userVars   == <<reading, user_buffer, error, got>>
vars == <<writerVars, streamVars, readerVars, userVars>>

Init ==
    /\ send_nonce = 0 /\ put = 0
    /\ wire = <<>> /\ arrived = 0 /\ open = TRUE /\ tampered = FALSE
    /\ read_state = "Salt" /\ subkey = "none" /\ nonce = 0
    /\ current_payload_len = 0 /\ taken = 0 /\ decrypted_buffer = <<>>
    /\ reading = "none" /\ user_buffer = <<>> /\ error = "none" /\ got = <<>>

Least(m, n) == IF m < n THEN m ELSE n

\* The units of a block: a salt holds no data, a length holds one number.
BlockSize(kind, data) ==
    CASE kind = "salt"    -> SaltSize
      [] kind = "length"  -> 2 + TagSize
      [] kind = "payload" -> Len(data) + TagSize
Block(kind, n, data) ==
    [i \in 1 .. BlockSize(kind, data) |->
        [kind |-> kind, nonce |-> n, data |-> data, at |-> i]]
Garbage == [kind |-> "none", nonce |-> 0, data |-> <<>>, at |-> 0]

-----------------------------------------------------------------------------
(* Writing. *)

\* Mutant: the chunks may be as long as the mask is wide.
ChunkLen_TooLong(left) == Least(left, MaxChunk + 1)
ChunkLen(left) == Least(left, MaxChunk)

\* Mutant: one nonce serves a chunk's length and its payload.
Chunk_OneNonce(n, data) ==
    Block("length", n, <<Len(data)>>) \o Block("payload", n, data)
\* A chunk that starts with nonce n: its length, then its payload.
Chunk(n, data) ==
    Block("length", n, <<Len(data)>>) \o Block("payload", n + 1, data)

\* The data of the k-th chunk of a write of `size` units after lo.
ChunkData(lo, size, k) ==
    LET skip == (k - 1) * ChunkLen(size)
    IN  [i \in 1 .. ChunkLen(size - skip) |-> lo + skip + i]

\* Mutant: every write starts with the salt.
Greeting_Always == Block("salt", 0, <<>>)
\* The salt goes before the first write.
Greeting == IF send_nonce = 0 THEN Block("salt", 0, <<>>) ELSE <<>>

Write(size) ==
    /\ open /\ put + size <= MaxData
    /\ LET chunks == (size + ChunkLen(size) - 1) \div ChunkLen(size)
       IN /\ wire' = wire \o Greeting \o FlattenSeq([k \in 1 .. chunks |->
                Chunk(send_nonce + 2 * (k - 1), ChunkData(put, size, k))])
          /\ send_nonce' = send_nonce + 2 * chunks
    /\ put' = put + size
    /\ UNCHANGED <<arrived, open, tampered, readerVars, userVars>>

-----------------------------------------------------------------------------
(* The stream between the two ends. *)

Arrive ==
    /\ open /\ \E n \in arrived + 1 .. Len(wire) : arrived' = n
    /\ UNCHANGED <<writerVars, wire, open, tampered, readerVars, userVars>>

\* The connection ends; what has not arrived is lost.
Cut ==
    /\ open /\ open' = FALSE
    /\ UNCHANGED <<writerVars, wire, arrived, tampered, readerVars, userVars>>

Tamper ==
    /\ Tampering /\ ~tampered /\ tampered' = TRUE
    /\ \E i \in arrived + 1 .. Len(wire) :
        wire' = [wire EXCEPT ![i] = Garbage]
    /\ UNCHANGED <<writerVars, arrived, open, readerVars, userVars>>

-----------------------------------------------------------------------------
(* Reading. *)

\* A read is served from what is left of the last chunk, or starts do_read_*.
AsyncReadSome ==
    /\ reading = "none" /\ error = "none"
    /\ IF decrypted_buffer # <<>>
       THEN LET len == Least(BufferSize, Len(decrypted_buffer))
            IN /\ user_buffer' = SubSeq(decrypted_buffer, 1, len)
               /\ decrypted_buffer' =
                    SubSeq(decrypted_buffer, len + 1, Len(decrypted_buffer))
               /\ reading' = "posted"
       ELSE /\ reading' = "pending"
            /\ UNCHANGED <<user_buffer, decrypted_buffer>>
    /\ UNCHANGED <<writerVars, streamVars, read_state, subkey, nonce,
                   current_payload_len, taken, error, got>>

Posted ==
    /\ reading = "posted" /\ reading' = "none"
    /\ got' = got \o user_buffer /\ user_buffer' = <<>>
    /\ UNCHANGED <<writerVars, streamVars, readerVars, error>>

\* What async_read asks for in each state.
Wanted ==
    CASE read_state = "Salt"    -> SaltSize
      [] read_state = "Length"  -> 2 + TagSize
      [] read_state = "Payload" -> current_payload_len + TagSize

\* Mutant: the handler runs on whatever has come (async_read_some).
Ready_Early == reading = "pending" /\ arrived > taken
\* async_read completes, and what its handler then finds in read_buffer_.
Ready == reading = "pending" /\ arrived - taken >= Wanted
Read  == SubSeq(wire, taken + 1, taken + Wanted)

\* AeadCipher::decrypt with encode_nonce(nonce_).
Decrypts(kind, units) ==
    subkey = "right" /\ units = Block(kind, nonce, units[1].data)

\* The caller is told that its read failed.
Fail(what) ==
    /\ error' = what /\ reading' = "none"
    /\ UNCHANGED <<user_buffer, got>>

SaltRead ==
    /\ read_state = "Salt" /\ Ready
    /\ subkey' = IF Read = Block("salt", 0, <<>>) THEN "right" ELSE "wrong"
    /\ taken' = taken + Wanted
    /\ read_state' = "Length"
    /\ UNCHANGED <<writerVars, streamVars, nonce, current_payload_len,
                   decrypted_buffer, userVars>>

LengthRead ==
    /\ read_state = "Length" /\ Ready
    /\ IF Decrypts("length", Read)
       THEN /\ current_payload_len' = Read[1].data[1] % (MaxChunk + 1)
            /\ read_state' = "Payload"
            /\ UNCHANGED userVars
       ELSE /\ Fail("bad_message")
            /\ UNCHANGED <<current_payload_len, read_state>>
    /\ taken' = taken + Wanted
    /\ nonce' = nonce + 1
    /\ UNCHANGED <<writerVars, streamVars, subkey, decrypted_buffer>>

\* Mutant: the caller is told the length of the chunk, not of its buffer.
HandOver_Whole(plain) ==
    /\ got' = got \o plain
    /\ decrypted_buffer' = SubSeq(plain, BufferSize + 1, Len(plain))
\* decrypted_buffer_ is empty when a read is pending.
HandOver(plain) ==
    LET len == Least(BufferSize, Len(plain))
    IN /\ got' = got \o SubSeq(plain, 1, len)
       /\ decrypted_buffer' = SubSeq(plain, len + 1, Len(plain))

PayloadRead ==
    /\ read_state = "Payload" /\ Ready
    /\ IF Decrypts("payload", Read)
       THEN /\ HandOver(decrypted_buffer \o Read[1].data)
            /\ read_state' = "Length"
            /\ reading' = "none"
            /\ UNCHANGED <<user_buffer, error>>
       ELSE /\ Fail("bad_message")
            /\ UNCHANGED <<read_state, decrypted_buffer>>
    /\ taken' = taken + Wanted
    /\ nonce' = nonce + 1
    /\ UNCHANGED <<writerVars, streamVars, subkey, current_payload_len>>

\* async_read meets the end of the stream.
ReadFails ==
    /\ reading = "pending" /\ ~open /\ arrived - taken < Wanted
    /\ Fail("eof")
    /\ UNCHANGED <<writerVars, streamVars, readerVars>>

-----------------------------------------------------------------------------

Next ==
    \/ \E size \in 1 .. MaxWrite : Write(size)
    \/ Arrive \/ Cut \/ Tamper
    \/ AsyncReadSome \/ Posted
    \/ SaltRead \/ LengthRead \/ PayloadRead \/ ReadFails

Spec == Init /\ [][Next]_vars

\* TCP brings what was written, the loop runs the handlers, and the caller
\* (a relay loop of Session) reads again after each read.
Fairness ==
    /\ WF_vars(Arrive) /\ WF_vars(AsyncReadSome) /\ WF_vars(Posted)
    /\ WF_vars(SaltRead \/ LengthRead \/ PayloadRead) /\ WF_vars(ReadFails)

FairSpec == Spec /\ Fairness

-----------------------------------------------------------------------------
(* Properties. *)

UnitOK == [kind : {"none", "salt", "length", "payload"}, nonce : Nat,
           data : Seq(Nat), at : Nat]

\* Types of the variables of both objects, of the stream and of the caller.
TypeOK ==
    /\ send_nonce \in Nat /\ put \in Nat
    /\ wire \in Seq(UnitOK) /\ arrived \in 0 .. Len(wire)
    /\ open \in BOOLEAN /\ tampered \in BOOLEAN
    /\ read_state \in {"Salt", "Length", "Payload"}
    /\ subkey \in {"none", "right", "wrong"}
    /\ nonce \in Nat /\ current_payload_len \in 0 .. MaxChunk
    /\ taken \in 0 .. arrived
    /\ decrypted_buffer \in Seq(Nat) /\ user_buffer \in Seq(Nat)
    /\ reading \in {"none", "posted", "pending"}
    /\ error \in {"none", "eof", "bad_message"}
    /\ got \in Seq(Nat)

\* What the reading caller gets is what the writing caller wrote, in order and
\* without loss in between, even from a stream that was cut or tampered with.
AsStream == INSTANCE ByteStream
IsStream == AsStream!StreamInit /\ [][AsStream!StreamNext]_(AsStream!streamVars)

\* No nonce seals two blocks.
NonceOnce ==
    \A i, j \in DOMAIN wire :
        {wire[i].kind, wire[j].kind} \subseteq {"length", "payload"}
        /\ wire[i].nonce = wire[j].nonce => wire[i].kind = wire[j].kind
                                            /\ wire[i].data = wire[j].data

\* An error means what it says.  A stream nobody has touched always decrypts:
\* both ends count their nonces alike and agree on where each block begins; and
\* when the caller is told that the stream has ended it has been given all of
\* every chunk that arrived whole, what was left between reads included.
ErrorsAreTrue ==
    /\ error = "bad_message" => tampered
    /\ error = "eof" /\ ~tampered =>
          Len(got) = Cardinality({i \in 1 .. arrived :
              LET u == wire[i]
              IN  /\ u.kind = "payload" /\ u.at <= Len(u.data)
                  /\ i - u.at + BlockSize(u.kind, u.data) <= arrived})

\* What is written gets to the other side as long as the connection is sound.
Delivered ==
    \A k \in 1 .. MaxData :
        put >= k ~> (Len(got) >= k \/ ~open \/ tampered)

=============================================================================
