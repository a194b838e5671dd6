------------------------------ MODULE Resolver ------------------------------
(***************************************************************************)
(* dns::Resolver: one call of resolve, from the hosts of the configuration,*)
(* from a name server asked over UDP, or from the system.                  *)
(*                                                                         *)
(* A query is sent once, on a socket of its own; no timer bounds the wait  *)
(* for the answer, and the answer's identifier and flags are not looked at.*)
(* The name server and the network are external: the server answers with   *)
(* any records and in any form of names, and a datagram may be lost, or    *)
(* altered in a byte.  Nothing in the program calls resolve yet.           *)
(*                                                                         *)
(* Not here: the endpoint the answer's sender is written to, which is gone *)
(* by then; a nameserver's address family the system refuses to open.      *)
(***************************************************************************)
EXTENDS DNSMessage, FiniteSets

CONSTANTS
    Hostnames,   \* names to resolve, as sequences of labels
    RecordLists, \* bound: the lists of records the server answers with
    RecvSize,    \* bytes a received datagram may have, 512 in the code
    Bytes        \* bound: what an altered byte becomes

ASSUME ResolverAssumption ==
    /\ \A labels \in Hostnames : labels \in Seq(Seq(0 .. 255))
    /\ \A list \in RecordLists :
        list \in Seq([type : {1, 5, 28}, rdata : Seq(0 .. 255)])
    /\ RecvSize \in 0 .. 512 /\ Bytes \subseteq 0 .. 255

VARIABLES
    hostname,     \* the name asked for
    hosts,        \* what hosts_ has for it: nothing, an address, or neither
    nameserver,   \* the first of nameservers_, if any, and whether it parses
    step,         \* the pending operation, "start" and "none"
    calls,        \* history: the calls of the handler
    network,      \* the query: "idle", "asked", "answered" or "lost"
    query, datagram,  \* what was sent, what comes back
    answer        \* history: the records of the server, and how it named them

given == <<hostname, hosts, nameserver>>
resolverVars == <<given, step, calls, network, query, datagram, answer>>

NoAnswer == [records |-> <<>>, form |-> "none", altered |-> FALSE]

ResolverInit ==
    /\ hostname \in Hostnames
    /\ hosts \in {"none", "address", "unreadable"}
    /\ nameserver \in {"none", "address", "unreadable"}
    /\ step = "start" /\ calls = <<>>
    /\ network = "idle" /\ query = <<>> /\ datagram = <<>> /\ answer = NoAnswer

-----------------------------------------------------------------------------
(* The resolver. *)

HostsAddress == <<127, 0, 0, 1>>

\* The handler is called; nothing is pending then.
Finish(ok, addresses) ==
    /\ calls' = Append(calls, [ok |-> ok, addresses |-> addresses])
    /\ step' = "none"

\* Mutant: a name server that does not parse is reported, and asked.
Resolve_NoReturn ==
    /\ step = "start"
    /\ IF hosts = "address" THEN step' = "posted" /\ UNCHANGED <<calls, query>>
       ELSE IF nameserver = "none" THEN step' = "system" /\ UNCHANGED <<calls, query>>
       ELSE /\ query' = EncodeQuery(7, hostname, 1) /\ step' = "send"
            /\ calls' = IF nameserver = "unreadable"
                        THEN Append(calls, [ok |-> FALSE, addresses |-> <<>>])
                        ELSE calls
    /\ UNCHANGED <<given, network, datagram, answer>>
\* resolve and, on the same stack, the start of resolve_udp.
Resolve ==
    /\ step = "start"
    /\ \/ /\ hosts = "address" /\ step' = "posted" /\ UNCHANGED <<calls, query>>
       \/ /\ hosts # "address" /\ nameserver = "none"
          /\ step' = "system" /\ UNCHANGED <<calls, query>>
       \/ /\ hosts # "address" /\ nameserver = "unreadable"
          /\ Finish(FALSE, <<>>) /\ UNCHANGED query
       \/ /\ hosts # "address" /\ nameserver = "address"
          /\ query' = EncodeQuery(7, hostname, 1)
          /\ step' = "send" /\ UNCHANGED calls
    /\ UNCHANGED <<given, network, datagram, answer>>

Posted ==
    /\ step = "posted" /\ Finish(TRUE, <<HostsAddress>>)
    /\ UNCHANGED <<given, network, query, datagram, answer>>

SystemResolved ==
    /\ step = "system"
    /\ \/ Finish(FALSE, <<>>)
       \/ \E address \in {<<10, 0, 0, 1>>} : Finish(TRUE, <<address>>)
    /\ UNCHANGED <<given, network, query, datagram, answer>>

Sent ==
    /\ step = "send"
    /\ \/ Finish(FALSE, <<>>) /\ UNCHANGED network
       \/ step' = "receive" /\ network' = "asked" /\ UNCHANGED calls
    /\ UNCHANGED <<given, query, datagram, answer>>

ReceiveFails ==
    /\ step = "receive" /\ network # "answered"
    /\ Finish(FALSE, <<>>)
    /\ UNCHANGED <<given, network, query, datagram, answer>>
\* The addresses of the A records.
ARecords(records) ==
    FlattenSeq([k \in DOMAIN records |->
                   IF records[k].type = 1 /\ Len(records[k].rdata) = 4
                   THEN << records[k].rdata >> ELSE <<>>])

\* Mutant: what does not decode leaves the handler uncalled.
Deliver_Quiet(message) == message.ok /\ Finish(TRUE, ARecords(message.answers))
\* The handler gets the addresses, or bad_message.
Deliver(message) ==
    IF message.ok THEN Finish(TRUE, ARecords(message.answers)) ELSE Finish(FALSE, <<>>)

\* What the socket hands over of a datagram: as much as the buffer takes.
RecvBuffer == IF Len(datagram) > RecvSize THEN SubSeq(datagram, 1, RecvSize)
                                          ELSE datagram

Received ==
    /\ step = "receive" /\ network = "answered"
    /\ \E message \in {Decode(RecvBuffer)} : Deliver(message)
    /\ UNCHANGED <<given, network, query, datagram, answer>>

-----------------------------------------------------------------------------
(* The name server and the network. *)

\* How records may be named: in full, by a pointer to the question, by one to
\* the name of the record before, by a label and a pointer.
Forms == {"full", "pointer", "chained", "below"}

\* A pointer has 14 bits for the offset.
Pointer(offset) == << 192 + ((offset \div 256) % 64), offset % 256 >>

RecordName(form, before) ==
    CASE form = "full"    -> EncodeName(hostname)
      [] form = "pointer" -> Pointer(12)
      [] form = "chained" -> Pointer(before)
      [] form = "below"   -> <<1, 120>> \o Pointer(12)

\* The server's answer as it grows: its bytes and where the last name in it is.
\* First the question repeated, then a record.
ResponseHead(count) ==
    [bytes |-> Header(7, 33152, 1, count) \o EncodeName(hostname) \o U16(1) \o U16(1),
     name  |-> 12]
AddRecord(acc, r, form) ==
    [bytes |-> acc.bytes \o RecordName(form, acc.name) \o U16(r.type) \o U16(1)
                \o U16(0) \o U16(60) \o U16(Len(r.rdata)) \o r.rdata,
     name  |-> Len(acc.bytes)]
Response(records, form) ==
    FoldLeft(LAMBDA acc, r : AddRecord(acc, r, form),
             ResponseHead(Len(records)), records).bytes

ServerAnswers ==
    /\ step = "receive" /\ network = "asked" /\ network' = "answered"
    /\ \E records \in RecordLists, form \in Forms :
        /\ answer' = [records |-> records, form |-> form, altered |-> FALSE]
        /\ datagram' = Response(records, form)
    /\ UNCHANGED <<given, step, calls, query>>

\* Bound: a byte behind the header, so that the counts stay small.
Alter ==
    /\ network = "answered" /\ step = "receive" /\ ~answer.altered
    /\ answer' = [answer EXCEPT !.altered = TRUE]
    /\ \E i \in 13 .. Len(datagram), b \in Bytes :
            datagram' = [datagram EXCEPT ![i] = b]
    /\ UNCHANGED <<given, step, calls, network, query>>

Lost ==
    /\ step = "receive" /\ network = "asked" /\ network' = "lost"
    /\ UNCHANGED <<given, step, calls, query, datagram, answer>>

-----------------------------------------------------------------------------

Resolving == Resolve \/ Posted \/ SystemResolved \/ Sent \/ Received

ResolverNext == Resolving \/ ReceiveFails \/ ServerAnswers \/ Alter \/ Lost

ResolverSpec == ResolverInit /\ [][ResolverNext]_resolverVars

\* The loop runs the handlers, and the system's resolver ends.  Nothing makes
\* the server answer, or the wait for it end.
ResolverFairSpec == ResolverSpec /\ WF_resolverVars(Resolving)

-----------------------------------------------------------------------------
(* Properties. *)

ByteSeq == Seq(0 .. 255)

\* Types of the variables: what is sent and what comes back is bytes.
ResolverTypeOK ==
    /\ step \in {"start", "posted", "system", "send", "receive", "none"}
    /\ calls \in Seq([ok : BOOLEAN, addresses : Seq(ByteSeq)])
    /\ network \in {"idle", "asked", "answered", "lost"}
    /\ query \in ByteSeq /\ datagram \in ByteSeq
    /\ answer \in [records : Seq([type : Nat, rdata : ByteSeq]),
                   form : Forms \cup {"none"}, altered : BOOLEAN]

\* A host name that the decoder can follow: labels of 1 to 63 bytes, each a
\* letter, a digit, a hyphen or what stands among them in ASCII, at most ten
\* with the pointers.
NameBytes == 45 .. 122
Followable(labels, besides) ==
    /\ Len(labels) + besides <= 10
    /\ \A k \in DOMAIN labels :
        labels[k] \in Seq(NameBytes) /\ Len(labels[k]) \in 1 .. 63

\* What the names of an answer have besides the labels of the question.
Besides == CASE answer.form = "full"    -> 0
             [] answer.form = "pointer" -> 1
             [] answer.form = "chained" -> Len(answer.records)
             [] answer.form = "below"   -> 2

\* Records as a server may send them: their numbers fit their fields, and an
\* IPv4 address has four bytes.
WellFormed(records) ==
    /\ Len(records) < 65536
    /\ \A k \in DOMAIN records :
        /\ Len(records[k].rdata) < 65536
        /\ records[k].type = 1 => Len(records[k].rdata) = 4

IPv4Addresses(records) ==
    FlattenSeq([k \in DOMAIN records |->
                   IF records[k].type = 1 THEN << records[k].rdata >> ELSE <<>>])

\* The name server is asked for the name, in bytes that decode to it.  What
\* comes back is handed over as it is: the addresses of the A records, all of
\* them and in order, however the records are named; or an error when the
\* datagram does not fit the buffer (were it for the question alone, it would),
\* never a part of the addresses.
AnsweredTrue ==
    /\ query # <<>> /\ Followable(hostname, 0) =>
        Decode(query) = [ok |-> TRUE, questions |-> << hostname >>,
                         answers |-> <<>>]
    /\ \A k \in DOMAIN calls :
        /\ calls[k].ok => hosts # "address" \/ calls[k].addresses = <<HostsAddress>>
        /\ /\ network = "answered" /\ ~answer.altered
           /\ Followable(hostname, Besides) /\ Len(query) <= RecvSize
           /\ WellFormed(answer.records)
           => IF Len(datagram) > RecvSize THEN ~calls[k].ok
              ELSE calls[k] = [ok |-> TRUE,
                               addresses |-> IPv4Addresses(answer.records)]

\* The handler is called once, whatever comes back.
Outcome == IF calls = <<>> THEN "pending"
           ELSE IF Len(calls) > 1 THEN "called again"
           ELSE IF calls[1].ok THEN "connected" ELSE "failed"
AsDial == INSTANCE Dial WITH outcome <- Outcome
IsDial == AsDial!DialInit /\ [][AsDial!DialNext]_Outcome

\* In the end the handler has been called, or the one query is still waiting
\* for an answer that did not come.
Answered == <>[](calls # <<>> \/ (step = "receive" /\ network # "answered"))

=============================================================================
