----------------------------- MODULE DNSMessage -----------------------------
(***************************************************************************)
(* dns::Message: how a query is put into bytes and what is read out of the *)
(* bytes of an answer.  Buffers are sequences of bytes, offsets count from *)
(* 0 as in the code; a name is the sequence of its labels, a label the     *)
(* sequence of its bytes.                                                  *)
(*                                                                         *)
(* No definition here looks at a byte outside the buffer unless the code   *)
(* does; TLC stops with an error where one is evaluated that does.         *)
(***************************************************************************)
EXTENDS Integers, Sequences, SequencesExt

\* Mutant: the lower byte is not cut to a byte.
U16_Wide(n) == << (n \div 256) % 256, n >>
\* Two bytes, the higher one first.
U16(n) == << (n \div 256) % 256, n % 256 >>

-----------------------------------------------------------------------------
(* Encoding. *)

LengthAndLabel(label) == << Len(label) % 256 >> \o label

\* encodeName of a string split at its dots: what is behind the last dot is
\* left out when it is empty, an empty label elsewhere is not.
EncodeName(labels) ==
    LET written == IF labels # <<>> /\ Last(labels) = <<>> THEN Front(labels)
                                                           ELSE labels
    IN  FlattenSeq([k \in DOMAIN written |-> LengthAndLabel(written[k])]) \o <<0>>

Header(id, flags, qdcount, ancount) ==
    U16(id) \o U16(flags) \o U16(qdcount) \o U16(ancount) \o U16(0) \o U16(0)

\* Message::encode of a message with one question, of class IN.
EncodeQuery(id, labels, qtype) ==
    Header(id, 256, 1, 0) \o EncodeName(labels) \o U16(qtype) \o U16(1)

-----------------------------------------------------------------------------
(* Decoding. *)

ByteAt(buffer, offset) == buffer[offset + 1]
ReadU16(buffer, offset) ==
    256 * ByteAt(buffer, offset) + ByteAt(buffer, offset + 1)
Slice(buffer, offset, len) == SubSeq(buffer, offset + 1, offset + len)

\* The labels and pointers followed before a name is taken for a loop, and the
\* end of the name.
MaxSteps == 11

\* Where the loop of decodeName ends, whole or not.
Stop(offset, whole) ==
    [name |-> <<>>, offset |-> offset, jump_offset |-> 0, whole |-> whole]

\* A turn of the loop at an offset, when `rest' has what the turns behind it
\* come to: the labels, the offset the loop ends at, and the one behind the
\* first pointer.
NameStep(buffer, rest, offset) ==
    IF offset >= Len(buffer) THEN Stop(offset, FALSE)
    ELSE LET len == ByteAt(buffer, offset)
         IN  IF len >= 192
             THEN IF offset + 1 >= Len(buffer) THEN Stop(offset, FALSE)
                  ELSE [rest[(len % 64) * 256 + ByteAt(buffer, offset + 1)]
                           EXCEPT !.jump_offset = offset + 2]
             ELSE IF len = 0 THEN Stop(offset + 1, TRUE)
             ELSE IF offset + 1 + len > Len(buffer) THEN Stop(offset + 1, FALSE)
             ELSE [rest[offset + 1 + len]
                      EXCEPT !.name = << Slice(buffer, offset + 1, len) >> \o @]

\* The loop from an offset on.
NameFrom(buffer, at) ==
    LET name[steps \in 0 .. MaxSteps] ==
          IF steps = 0 THEN [offset \in Nat |-> Stop(offset, FALSE)]
          ELSE [offset \in Nat |-> NameStep(buffer, name[steps - 1], offset)]
    IN  name[MaxSteps][at]

\* Mutant: decoding goes on behind what the pointer led to.
DecodeName_Follows(buffer, at) ==
    LET n == NameFrom(buffer, at)
    IN  [name |-> IF n.whole THEN n.name ELSE <<>>, offset |-> n.offset]
\* decodeName: the name at an offset and the offset behind it.  A name that
\* does not end well is the empty one, and the offset stays where it was found
\* out, be it behind a pointer; nothing tells the caller.
DecodeName(buffer, at) ==
    LET n == NameFrom(buffer, at)
    IN  IF ~n.whole THEN [name |-> <<>>, offset |-> n.offset]
        ELSE [name   |-> n.name,
              offset |-> IF n.jump_offset = 0 THEN n.offset ELSE n.jump_offset]

Refused == [ok |-> FALSE, questions |-> <<>>, answers |-> <<>>]

Unanswered(ok) == [ok |-> ok, answers |-> <<>>]

\* A turn of the loop over the answers, the records behind it being `rest'.
RecordStep(buffer, rest, start) ==
    LET offset == DecodeName(buffer, start).offset
    IN  IF offset + 10 > Len(buffer) THEN Unanswered(FALSE)
        ELSE LET rdlength == ReadU16(buffer, offset + 8)
                 behind   == offset + 10 + rdlength
             IN  IF behind > Len(buffer) THEN Unanswered(FALSE)
                 ELSE [rest[behind]
                          EXCEPT !.answers = << [type  |-> ReadU16(buffer, offset),
                                 rdata |-> Slice(buffer, offset + 10, rdlength)] >>
                               \o @]

\* The loop over the answers: so many records, from an offset on.
DecodeAnswers(buffer, ancount, at) ==
    LET records[left \in 0 .. ancount] ==
          IF left = 0 THEN [start \in Nat |-> Unanswered(TRUE)]
          ELSE [start \in Nat |-> RecordStep(buffer, records[left - 1], start)]
    IN  records[ancount][at]

\* A turn of the loop over the questions, those behind it being `rest'.
QuestionStep(buffer, rest, start) ==
    LET n == DecodeName(buffer, start)
    IN  IF n.offset + 4 > Len(buffer)
        THEN [ok |-> FALSE, offset |-> n.offset, questions |-> <<>>]
        ELSE [rest[n.offset + 4] EXCEPT !.questions = << n.name >> \o @]

\* The loop over the questions: their names, and the offset behind them.
DecodeQuestions(buffer, qdcount, at) ==
    LET names[left \in 0 .. qdcount] ==
          IF left = 0
          THEN [start \in Nat |-> [ok |-> TRUE, offset |-> start, questions |-> <<>>]]
          ELSE [start \in Nat |-> QuestionStep(buffer, names[left - 1], start)]
    IN  names[qdcount][at]

\* Message::decode.
Decode(buffer) ==
    IF Len(buffer) < 12 THEN Refused
    ELSE LET q == DecodeQuestions(buffer, ReadU16(buffer, 4), 12)
         IN  IF ~q.ok THEN Refused
             ELSE LET a == DecodeAnswers(buffer, ReadU16(buffer, 6), q.offset)
                  IN  IF ~a.ok THEN Refused
                      ELSE [ok |-> TRUE, questions |-> q.questions,
                            answers |-> a.answers]

=============================================================================
