----------------------------- MODULE SSRPacket -----------------------------
(***************************************************************************)
(* The layout of the packets of ShadowsocksR's auth_aes128_sha1: how long  *)
(* a packet becomes, how it says where its data begins, and what the       *)
(* unpacking side computes from that.  Only lengths; what the bytes are is *)
(* for SSRConnection.                                                      *)
(***************************************************************************)
EXTENDS Integers

ChunkSize == 8100   \* data of one packet, at most
MaxPacket == 8192   \* a packet that claims this length or more is refused

\* The lengths get_rand_len may give, and trapezoid_random with it: its bias
\* of -0.3 is not above 1e-6, so that it is uniform.
RandLens(data_len, full_len) ==
    LET rev_len == 1460 - data_len - 9
    IN  IF full_len >= 32 * 1024 \/ rev_len = 0 THEN {0}
        ELSE IF rev_len <= -1460 THEN 0 .. 31
        ELSE IF rev_len < 0      THEN 0 .. rev_len + 1460
        ELSE IF data_len > 900   THEN 0 .. rev_len - 1
        ELSE 0 .. rev_len

\* Length, its check, the random part with one or three bytes before it, the
\* data, the check.
PackedLen(rand_len, data_len) ==
    2 + 2 + 3 + rand_len + data_len + 4 - (IF rand_len < 128 THEN 2 ELSE 0)

\* The bytes before the random part, as written: one, or 0xFF and two more.
RandHead(rand_len) ==
    IF rand_len < 128 THEN <<(rand_len + 1) % 256>>
    ELSE <<255, (rand_len + 3) % 2^16>>

\* Where the unpacking side finds the data, from what it reads there.
DataStart(rand_head) ==
    IF rand_head[1] = 255 THEN 4 + 3 + (rand_head[2] - 3)
    ELSE 4 + 1 + (rand_head[1] - 1)

\* How much data it takes, given the length the packet claims.
DataLen(packed_len, rand_head) == packed_len - 4 - DataStart(rand_head)

\* The first packet: head, its check, user, encrypted header, its check, random
\* part, data, check.
AuthRandLens(data_len) == IF data_len > 400 THEN 0 .. 511 ELSE 0 .. 1023
AuthLen(rand_len, data_len) == 7 + 4 + 16 + 4 + rand_len + data_len + 4

=============================================================================
