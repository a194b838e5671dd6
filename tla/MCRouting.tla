----------------------------- MODULE MCRouting -----------------------------
(* TLC instances of Routing. *)
EXTENDS Routing

Group_(name, type, strategy, list) ==
    [name |-> name, type |-> type, strategy |-> strategy, proxies |-> list]
Node(name, supported) == [name |-> name, supported |-> supported]
Rule(type, value, adapter) ==
    [type |-> type, value |-> value, adapter |-> adapter, complete |-> TRUE]
Host(pieces, port) == [host |-> pieces, ip |-> NoAddr, port |-> port]
Cidr(addr, slash, n) == [addr |-> addr, slash |-> slash, n |-> n]

a == Host(<<"www", ".", "example", ".", "com">>, 443)
b == Host(<<"example", ".", "com">>, 80)
c == Host(<<"not", "example", ".", "com">>, 443)
\* A request by address, its text in pieces.
d == [host |-> <<"2", ".", "1">>, ip |-> <<2, 1>>, port |-> 80]
AllDestinations == {a, b, c, d}

near == [ip |-> <<1, 2>>, port |-> 5000]
far  == [ip |-> <<3, 0, 1>>, port |-> 5001]
lost == [ip |-> NoAddr, port |-> 0]
AllSources == {near, far, lost}
AHash == [x \in {near.ip, far.ip} |-> IF x = near.ip THEN 7 ELSE 2]

Countries == [x \in {d.ip} |-> "CN"]
\* The example of platform_linux.cpp:37 for near's socket, and a line with a field
\* more, the count of references (1), for far's.
Sockets == [p \in {near.port, far.port} |->
               IF p = near.port THEN <<0, 10, 0, 0, 0, 0, 0, 12345>>
               ELSE <<0, 1, 0, 0, 0, 1000, 0, 12346, 1>>]
Owners  == [i \in {12345, 12346} |->
               IF i = 12345 THEN <<"usr", "bin", "curl">> ELSE <<"usr", "bin", "ssh">>]

\* Two groups below one, a node that is not supported, a name nobody has, an
\* empty group, two rules for one destination; the groups in an order in which
\* some come before their members.
Nested ==
    [proxies |-> <<Node("ss", TRUE), Node("old", FALSE), Node("vmess", TRUE)>>,
     groups  |-> <<Group_("Proxy", "select", "", <<"Auto", "Turns", "old", "REJECT">>),
                   Group_("Auto", "url-test", "", <<"ss", "vmess">>),
                   Group_("Turns", "load-balance", "round-robin",
                          <<"ss", "nobody", "vmess">>),
                   Group_("Relay", "relay", "", <<"ss">>),
                   Group_("Empty", "select", "", <<"old">>)>>,
     rules   |-> <<Rule("DOMAIN", a.host, "Proxy"),
                   [Rule("DST-PORT", 0, "Empty") EXCEPT !.complete = FALSE],
                   Rule("DOMAIN-SUFFIX", b.host, "Turns"),
                   Rule("DOMAIN-KEYWORD", <<"example", ".">>, "Empty"),
                   Rule("USER-AGENT", "curl", "Proxy"),
                   Rule("DST-PORT", 80, "Relay")>>,
     mode    |-> "rule"]

\* Groups that balance by the source, one below the other; a selector listed
\* twice with other members each time; no rule for "d".
Hashed ==
    [proxies |-> <<Node("ss", TRUE), Node("vmess", TRUE)>>,
     groups  |-> <<Group_("Hash", "load-balance", "consistent-hashing",
                          <<"ss", "Pick", "vmess">>),
                   Group_("Pick", "select", "", <<"vmess", "DIRECT">>),
                   Group_("Turns", "load-balance", "round-robin", <<"Hash", "ss">>),
                   Group_("Pick", "select", "", <<"DIRECT", "REJECT", "vmess">>)>>,
     rules   |-> <<Rule("SRC-PORT", far.port, "Hash"), Rule("DOMAIN", b.host, "Turns"),
                   Rule("PROCESS-NAME", "curl", "REJECT"),
                   Rule("PROCESS-PATH", <<"usr", "bin", "curl">>, "REJECT"),
                   Rule("DST-PORT", 443, "Hash")>>,
     mode    |-> "rule"]

\* Everything goes to GLOBAL, which this configuration defines.
Global ==
    [proxies |-> <<Node("ss", TRUE)>>,
     groups  |-> <<Group_("GLOBAL", "fallback", "", <<"ss", "Proxy">>),
                   Group_("Proxy", "select", "", <<"ss", "REJECT">>)>>,
     rules   |-> <<Rule("MATCH", "", "ss")>>, mode |-> "global"]
\* It does not here.
NoGlobal == [Hashed EXCEPT !.mode = "global"]
DirectOnly == [Nested EXCEPT !.mode = "direct"]

\* Two selectors that list each other.
Loop ==
    [proxies |-> <<>>,
     groups  |-> <<Group_("One", "select", "", <<"Two", "DIRECT">>),
                   Group_("Two", "select", "", <<"One", "REJECT">>)>>,
     rules   |-> <<Rule("DOMAIN-SUFFIX", <<"com">>, "One")>>, mode |-> "rule"]

\* One rule on the source: every network of either width.
Networks == {Cidr(x, "number", n) : x \in [1 .. V4Len -> {0, 1, 3}], n \in 0 .. 4}
              \cup {Cidr(x, "number", n) : x \in [1 .. V6Len -> {0, 3}], n \in 0 .. 6}
              \cup {Cidr(near.ip, "none", 0), Cidr(far.ip, "none", 0)}
Sourced(v) ==
    [proxies |-> <<>>, groups |-> <<>>,
     rules   |-> <<Rule("SRC-IP-CIDR", v, "REJECT")>>, mode |-> "rule"]

AllConfigs == {Nested, Hashed, Global, NoGlobal, DirectOnly, Loop}
                \cup {Sourced(v) : v \in Networks}

\* An address and a process that are not to be proxied, in either order.
Lined(first, second) ==
    [proxies |-> <<Node("ss", TRUE)>>, groups |-> <<>>,
     rules   |-> <<first, second, Rule("MATCH", "", "ss")>>, mode |-> "rule"]
AddressLine == Rule("IP-CIDR", Cidr(<<2, 0>>, "number", 2), "DIRECT")
ProcessLine == Rule("PROCESS-NAME", "curl", "DIRECT")
LineConfigs == {Lined(AddressLine, ProcessLine), Lined(ProcessLine, AddressLine)}
ByAddress   == {d}
ByCurl      == {near}

=============================================================================
