------------------------------- MODULE Rules -------------------------------
(***************************************************************************)
(* The routing rules: which become of the configuration's lines, and what  *)
(* each kind matches in a connection's metadata.                           *)
(*                                                                         *)
(* A name, and what a line holds against it, is a sequence of pieces, in   *)
(* lower case (the code folds both sides): a piece stands for a run of     *)
(* characters that nothing cuts, were it a single one, and every dot is a  *)
(* piece of its own.  An address is the sequence of its bytes, shorter for *)
(* IPv4 than for IPv6; bytes have ByteBits bits.                           *)
(***************************************************************************)
EXTENDS Integers, Sequences, Functions, SequencesExt

CONSTANTS
    country,     \* the GeoIP database: country codes by address
    procNetTcp,  \* /proc/net/tcp and tcp6: by local port the numbers of the
                 \* fields that follow the local address
    socketOwner  \* executables by the inodes of their sockets

NoAddr   == <<>>
ByteBits == 2
V4Len    == 2
V6Len    == 3
V4Bits   == V4Len * ByteBits
Addresses == [1 .. V4Len -> 0 .. 2^ByteBits - 1]
               \cup [1 .. V6Len -> 0 .. 2^ByteBits - 1]

RuleTypes == {"DOMAIN", "DOMAIN-SUFFIX", "DOMAIN-KEYWORD", "MATCH", "IP-CIDR",
              "IP-CIDR6", "SRC-IP-CIDR", "SRC-PORT", "DST-PORT",
              "PROCESS-NAME", "PROCESS-PATH", "GEOIP"}

\* Config::load keeps the lines parseRule understands, in their order: of a
\* known type, with all their parts and a port that is a number.
ParsedRules(lines) ==
    {i \in DOMAIN lines : lines[i].type \in RuleTypes /\ lines[i].complete}

\* What Session fills in: the name or the text of the address asked for, the
\* port, and where the client connects from.
Metadata(dest, src) ==
    [host |-> dest.host, dstIP |-> NoAddr, dstPort |-> dest.port,
     srcIP |-> src.ip, srcPort |-> src.port]

-----------------------------------------------------------------------------
(* Networks. *)

ToUlong(a) == FoldLeft(LAMBDA n, byte : n * 2^ByteBits + byte, 0, a)

\* The IPCIDR constructor: v.addr is NoAddr when it does not parse, v.slash
\* tells whether a prefix is given and is a "number" or "junk".
Network(v) ==
    [addr |-> IF v.addr = NoAddr THEN [i \in 1 .. V4Len |-> 0] ELSE v.addr,
     prefix |-> CASE v.slash = "number" -> v.n
                  [] v.slash = "junk" -> 0
                  [] OTHER -> IF v.addr = NoAddr THEN -1 ELSE Len(v.addr) * ByteBits]

\* Mutant: the mask is one bit too short.
MatchV4_ShortMask(net, a) ==
    net.prefix = 0 \/ LET low == 2^(V4Bits - net.prefix + 1)
                      IN  ToUlong(a) \div low = ToUlong(net.addr) \div low
\* The bits below the mask do not count; a mask shifted by more than the width
\* of an address leaves none that do.
MatchV4(net, a) ==
    \/ net.prefix = 0
    \/ LET low == IF net.prefix < V4Bits THEN 2^(V4Bits - net.prefix) ELSE 1
       IN  ToUlong(a) \div low = ToUlong(net.addr) \div low

\* Whole bytes, then the high bits of the next one.
MatchV6(net, a) ==
    \/ net.prefix <= 0
    \/ LET whole == net.prefix \div ByteBits
           rest  == net.prefix % ByteBits
           low   == 2^(ByteBits - rest)
       IN  /\ \A i \in 1 .. whole : a[i] = net.addr[i]
           /\ rest > 0 => a[whole + 1] \div low = net.addr[whole + 1] \div low

InNetwork(v, a) ==
    LET net == Network(v)
    IN  /\ a # NoAddr /\ Len(a) = Len(net.addr)
        /\ IF Len(a) = V4Len THEN MatchV4(net, a) ELSE MatchV6(net, a)

-----------------------------------------------------------------------------
(* The process of a source port. *)

\* The inode is read eight fields on; 0 when the line ends before.
SkippedFields == 8
InodeOf(fields) ==
    IF Len(fields) > SkippedFields THEN fields[SkippedFields + 1] ELSE 0

GetProcessPath(port) ==
    LET inode == IF port \in DOMAIN procNetTcp THEN InodeOf(procNetTcp[port]) ELSE 0
    IN  IF inode # 0 /\ inode \in DOMAIN socketOwner THEN socketOwner[inode] ELSE <<>>

-----------------------------------------------------------------------------

(* match() of each kind of rule. *)

DomainHits(r, m) == m.host # <<>> /\ m.host = r.value

\* The name itself, or one that ends with a dot and it.
DomainSuffixHits(r, m) ==
    LET before == Len(m.host) - Len(r.value)
    IN  /\ m.host # <<>>
        /\ \/ m.host = r.value
           \/ before > 0 /\ IsSuffix(r.value, m.host) /\ m.host[before] = "."

\* host.find(keyword_): at some position the keyword begins.
DomainKeywordHits(r, m) ==
    /\ m.host # <<>>
    /\ \E i \in 0 .. Len(m.host) - Len(r.value) :
            SubSeq(m.host, i + 1, i + Len(r.value)) = r.value

IPCIDRHits(r, m)    == InNetwork(r.value, m.dstIP)
SrcIPCIDRHits(r, m) == InNetwork(r.value, m.srcIP)

PortHits(r, m) == r.value = IF r.type = "SRC-PORT" THEN m.srcPort ELSE m.dstPort

\* "" for an address that is not in the database.
Lookup(ip) == IF ip \in DOMAIN country THEN country[ip] ELSE ""
GeoIPHits(r, m) == m.dstIP # NoAddr /\ Lookup(m.dstIP) = r.value

ProcessPathHits(r, m) ==
    LET path == GetProcessPath(m.srcPort)
    IN  m.srcPort # 0 /\ path # <<>> /\ path = r.value
ProcessHits(r, m) ==
    LET path == GetProcessPath(m.srcPort)
    IN  m.srcPort # 0 /\ path # <<>> /\ Last(path) = r.value

Hits(r, m) ==
    \/ r.type = "MATCH"
    \/ r.type = "DOMAIN" /\ DomainHits(r, m)
    \/ r.type = "DOMAIN-SUFFIX" /\ DomainSuffixHits(r, m)
    \/ r.type = "DOMAIN-KEYWORD" /\ DomainKeywordHits(r, m)
    \/ r.type \in {"IP-CIDR", "IP-CIDR6"} /\ IPCIDRHits(r, m)
    \/ r.type = "SRC-IP-CIDR" /\ SrcIPCIDRHits(r, m)
    \/ r.type \in {"SRC-PORT", "DST-PORT"} /\ PortHits(r, m)
    \/ r.type = "GEOIP" /\ GeoIPHits(r, m)
    \/ r.type = "PROCESS-NAME" /\ ProcessHits(r, m)
    \/ r.type = "PROCESS-PATH" /\ ProcessPathHits(r, m)

-----------------------------------------------------------------------------
(* What the lines mean, for the properties. *)

\* The addresses of a network, as a range of numbers.
InRange(v, a) ==
    /\ Len(a) = Len(v.addr)
    /\ LET bits == Len(a) * ByteBits
           size == IF v.slash = "number" THEN 2^(bits - v.n) ELSE 1
           base == (ToUlong(v.addr) \div size) * size
       IN  ToUlong(a) \in base .. base + size - 1

\* A network that parses, with a prefix that fits if it has one.
Readable(v) ==
    /\ v.addr \in Addresses /\ v.slash \in {"number", "none"}
    /\ v.n \in 0 .. Len(v.addr) * ByteBits

\* What a line says of the name, the port and the source of a request.  A
\* suffix names a domain: itself and what lies below it.
Means(r, dest, src) ==
    CASE r.type = "DOMAIN"         -> dest.host # <<>> /\ dest.host = r.value
      [] r.type = "DOMAIN-SUFFIX"  ->
            \E i \in 1 .. Len(dest.host) + 1 :
                /\ dest.host # <<>> /\ SubSeq(dest.host, i, Len(dest.host)) = r.value
                /\ i = 1 \/ dest.host[i - 1] = "."
      [] r.type = "DOMAIN-KEYWORD" -> dest.host # <<>> /\ r.value \in SubSeqs(dest.host)
      [] r.type = "MATCH"          -> TRUE
      [] r.type = "SRC-IP-CIDR"    -> src.ip # NoAddr /\ InRange(r.value, src.ip)
      [] r.type = "SRC-PORT"       -> src.port = r.value
      [] r.type = "DST-PORT"       -> dest.port = r.value
      [] OTHER                     -> FALSE

\* What a line says of the address of a request.
MeansAddress(r, dest) ==
    CASE r.type \in {"IP-CIDR", "IP-CIDR6"} ->
            dest.ip # NoAddr /\ InRange(r.value, dest.ip)
      [] r.type = "GEOIP" -> dest.ip \in DOMAIN country /\ country[dest.ip] = r.value
      [] OTHER -> FALSE

\* "rem_address st tx_queue rx_queue tr tm->when retrnsmt uid timeout inode", the
\* queues and the timer's two each joined by a colon: the inode of a socket is
\* the eighth field behind its local address.
InodeField == 8

\* What a line says of the process that holds the socket of a source.
MeansProcess(r, src) ==
    /\ src.port \in DOMAIN procNetTcp
    /\ LET inode == procNetTcp[src.port][InodeField]
       IN  /\ inode \in DOMAIN socketOwner
           /\ CASE r.type = "PROCESS-NAME" -> Last(socketOwner[inode]) = r.value
                [] r.type = "PROCESS-PATH" -> socketOwner[inode] = r.value
                [] OTHER -> FALSE

=============================================================================
