# A TLA+ verification project for clash-core-cpp

clash-core-cpp is a local proxy: it accepts SOCKS5 and HTTP connections, picks by
rules an adapter (a direct connection, a remote proxy, or a group of them), dials
through it and relays bytes in both directions. It runs on one thread, in
`io_context.run()`; everything hard about it is the order in which completion
handlers run, who keeps which object alive meanwhile, and what peers do between
two handlers.

The modules are translated from the C++ source. `PROJECT.json` lists the
components, the runs of TLC, a mutant of the model for each property, the source
lines every definition stands for, the findings, the hazards and the theorems.

    tlc -workers 2 -config MCSession.cfg MCSession     # one run
    tlapm SessionProofs.tla                            # the proofs of a module

## 1. The system

| component | state | operations | hard because of |
|---|---|---|---|
| `TcpListener` | acceptor | `do_accept` | runs beside everything else |
| `Session` | two sockets, three buffers, `state_`, counters | handshakes, dial, reply, two relay loops, `close` | has no owner: pending handlers keep it alive; fragments, early data, half-closed peers, the API closing at any point |
| `ConnectionManager`, `TrafficManager` | map of weak pointers; totals | add, remove, close; add | shared by all sessions and the API |
| `Tunnel` | adapters by name, rules, mode | `match` | names that stand for nothing |
| `SelectorAdapter` | members, `selected_` | `setProxies`, `select`, `dial` | the user switches between dials |
| `URLTestAdapter` | members, `fastest_`, `min_latency_`, timer | `start`, `runTest`, `onTestComplete`, `dial` | results late, out of order, of an earlier round |
| `FallbackAdapter` | members, `selected_`, `latencies_`, timer | the same | the same |
| `LoadBalanceAdapter` | members, `cursor_` | `dial` | shared cursor; an empty group |
| dialers (DIRECT, REJECT, SOCKS5, Shadowsocks, ShadowsocksR, VMess) | socket, pending step | resolve, connect, handshake | broken-off and silent servers; the handler exactly once |
| `EncryptedConnection` | nonces, read state, left-over plaintext | `async_write`, `async_read_some` | blocks cut anywhere by TCP; two ends that count nonces separately |
| `SSRConnection`, `ssr_protocol` | stream ciphers, packet counters, received bytes | `async_write`, `async_read_some`, packing and unpacking | an IV in pieces; packets cut anywhere, or altered; more plaintext than the caller's buffer takes; lengths set in three places |
| `HttpController`, `HttpSession` | sockets, a timer, a log subscription | one request each; streams of `/logs`, `/traffic` | life of the streams; overlapping writes |
| `log` | subscribers, mutex, file | `print`, `subscribe`, `unsubscribe` | callbacks under the mutex |
| DNS resolver and messages | none between queries | `resolve`, `encode`, `decode` | lost answers; compression pointers. Nothing in the program calls `resolve` |
| configuration, `main` | the objects above | start | groups that refer to each other |

How they interact. A `Session` asks `Tunnel::match` for an adapter and calls its
`dial`; a group passes the call on to a member, a leaf starts a dialer; the dialer
calls the handler back with a connection, which the relay loops read and write
until one end is gone. Groups dial their members too, for their tests. The API
reads the registry and the totals, closes sessions and switches selectors.

What makes each correct, in a sentence. Session: alive exactly as long as
something is pending, registered exactly as long as alive, the bytes of each
direction a stream, and a closed or abandoned session goes. Groups: the active
member is a member, and follows from the results. Tunnel: a dial ends at an
adapter below the one its rule names. Dialers: the handler once, with a
connection that stands just behind the handshake. EncryptedConnection: what is
read is what was written, no nonce twice. SSRConnection: the server can make sense
of what is written; what is read is in order and comes from packets that pass
their check. Resolver: the handler once, with the addresses of the answer or an
error.

## 2. The modules

| module | models | composes or refines |
|---|---|---|
| `Session` | `session.cpp`, `tcp_listener.cpp`, `connection_manager.cpp`, `traffic_manager.cpp` | each direction implements `ByteStream` |
| `URLTest`, `Fallback` | `url_test.cpp`, `fallback.cpp`, and `main()` up to the linking of groups | each implements `Group` |
| `Rules` | `rule/*`, `config.cpp`'s `parseRule`, `geoip.cpp`, `platform_linux.cpp` | operators only; `Routing` extends it |
| `Routing` | `tunnel.cpp`, `selector.h`, `load_balance.cpp`, `main()`'s loading, `PUT /proxies` | selectors implement `Group`; test groups stand in it as `Group` |
| `Dialer` | `socks5.cpp`, `shadowsocks.cpp`, `vmess.cpp`, the dialer of `shadowsocksr.cpp`, `direct.h`, `reject.h` | implements `Dial` |
| `EncryptedConnection` | `encrypted_connection.cpp` | implements `ByteStream` |
| `SSRPacket` | the layout of packets in `ssr_protocol.cpp` | operators only |
| `SSRConnection` | `shadowsocksr.cpp`, `ssr_protocol.cpp` | extends `SSRPacket` |
| `DNSMessage` | `message.cpp` | operators only |
| `Resolver` | `resolver.cpp` | extends `DNSMessage`, implements `Dial` |
| `Control` | `http_controller.cpp`: the life of an `HttpSession`, its streams; `log.cpp`'s subscribers | |
| `ByteStream`, `Group`, `Dial` | abstract: a direction of a relay, a group, a dial | |
| `SessionProofs`, `URLTestProofs`, `FallbackProofs`, `TunnelProofs` (Control, Routing and Resolver), `DialerProofs`, `EncryptedConnectionProofs`, `SSRConnectionProofs` | the theorems | |
| `SequenceLemmas` | lemmas on sequences that the proofs share | |

The abstract modules are the seams between the detailed ones. `Session` lets a
dial end in any way `Dial` allows, and `Dialer` is shown to implement `Dial`;
`Routing` lets test groups switch as `Group` allows, and `URLTest` and `Fallback`
are shown to implement it; `Session` lets an outbound connection carry bytes like
a TCP stream, and `EncryptedConnection` is shown to be one (`ByteStream`).
`SSRConnection` is not one: its reader loses what its caller's buffer cannot take,
and its properties say where such a gap may be.

`Session`. One action is one completion handler, run to its end, because one
thread runs them. `op[s]` says which operations of a session are outstanding;
`After` ends every handler: if nothing is pending, the last `shared_ptr` to the
session is gone and its destructor runs, which removes it from the registry. The
client's stream is a sequence of units (runs of bytes that the code never cuts
apart with another effect), read by positions: `taken`, `ubase` and `ttaken`,
`dbase` delimit what the buffers hold, so that a buffer overwritten during its
write would show as lost or repeated units. An operation begun on a closed socket
is "doomed". `std::stoi` on a bad port and the construction of a string of
negative length throw out of `run()`: `running` is false from then on. The first
request of a plain HTTP client passes no counter (session.cpp:471), and the first end
of stream closes both ends (session.cpp:543): the model does the same. A loop counts
what it has read before it writes it, and the write may fail: `CountsRelayed` says
how far a session's counters may be from what its peers have been sent (by what the
loop has in hand, and by nothing when it reads again), and that the totals, which
outlive the sessions, are the sums.

`URLTest`, `Fallback`. `phase` follows `main()`: `start()` is called before the
members are linked, the loop runs after. `pending` counts the test dials under
way per member, those of earlier rounds included; results come in any order.
`results` and `answer` are histories the properties compare with.

`Routing`. The tables that `main()` builds are computed in one step (`Load`); a
dial then takes one step per group although the code does it in one call, which
costs no interleaving because the other actions wait for it.

`Rules` has what each kind of rule hits (`Hits`, one operator per kind), on the
metadata that `Session` fills in: a name is a sequence of pieces, runs of characters
between which a suffix or a keyword may begin or end, with a piece for each dot; an
address is a sequence of small bytes. Beside it stands what a reader of the
configuration takes a line to mean (`Means`, `MeansAddress`, `MeansProcess`), and
`Routing!RuleDecides` compares the two through the tunnel: a suffix is the name or
stands behind one of its dots, a keyword is any part of the name, a network a range of
addresses. Rules that compare the target's address (IP-CIDR, GEOIP) never hit, because
nothing assigns `Metadata::dstIP`: `RuleDecides` does not reckon with them. Lines on
processes find none, or a wrong one, because the inode is read one field too far
(platform_linux.cpp:51): `RuleDecides` allows one of them to take the request before
the line it names. What lines of both kinds should do says `LinesDecide`, which
the code violates: they decide like the others, a line on a process about the one that
owns the inode in the table's eighth field behind the local address, as on the
line of the table quoted in the code (platform_linux.cpp:36-37). `RuleDecides` is claimed
of configurations whose SRC-IP-CIDR lines have networks that parse (`Legible`).
`SelectorIsGroup` is claimed of names that one group of the configuration has
(`Once`): of two groups of a name only the later has an adapter, it is linked twice,
and the second time it keeps its choice of the first where the new members have it
(selector.h:49).

`Control`. `op[v]` is the one step of a session under way (read, reply, head of a
stream, chunk of totals, timer); `posted[v]` and `writes[v]` are the log lines on
their way to it. `After` ends every handler as in `Session`: what is pending, or a
subscription, whose callback captured `self`, holds the session. A chunk has two
pieces, and a socket of `Slow` may take one at a time; what is left goes behind the
writes begun meanwhile, because each line has an `async_write` of its own.

`Dialer`. `step` is the pending operation; the server answers byte by byte
(`sent`) and the dialer has read `taken` of it, so a connection handed over too
early or too late in the stream is visible. `LengthByte` is
`static_cast<uint8_t>`.

`EncryptedConnection`. A writing object, a TCP stream of units that carry which
block they are part of, and a reading object. Encryption is ideal: a block opens
with the right subkey and nonce, read whole and unaltered, and not otherwise.

`SSRConnection`. The two directions share no state, so a behaviour follows one.
Upwards the sizes are the code's: each write becomes one record of its parts, with
the random lengths at which the layout changes, the place in the key stream, and
whether the header and the IV went with it. Downwards sizes are scaled: the stream
is a sequence of units, each the i-th of its packet; a read takes any number of
them, and `UnpackOne` is one turn of the loop of `client_post_decrypt`, in the
order of its checks. A packet passes its checks if it is the one the reader's
counter stands at, unaltered; a packet whose body fails is taken off without
counting it (ssr_protocol.cpp:283), after which nothing passes. The IV has to be
in the first read whole (shadowsocksr.cpp:90), and what the caller's buffer does
not take is lost (shadowsocksr.cpp:133): the model does the same. `filled` notes
behind which reads such a gap may be.

`DNSMessage` works on bytes: names are encoded and decoded as in the code, with its
limit of eleven turns, its pointers and the offset it leaves behind, whatever came
of the name. `Resolver` is one call of `resolve`: `step` is the pending operation,
the name server answers with any list of records in four forms of names, and a
datagram may be lost, cut at the buffer's 512 bytes (90 in the run), or altered in
a byte. `AnsweredTrue` is about names the decoder can follow (`Followable`: labels of
1 to 63 bytes, ten with the pointers), about questions that fit the buffer, and about
records whose numbers fit their fields (`WellFormed`); what happens to other names is
in section 3.

## 3. The runs

| run | module, cfg | what it shows | distinct states |
|---|---|---|---|
| `session` | MCSession, MCSession.cfg | polite clients of all three kinds: both directions are streams (`RelaysStreams`); closed and abandoned sessions are reclaimed | 46,411 |
| `session_wild` | MCSessionWild.cfg | clients that send early and in pieces, or two polite ones side by side: registry, buffers, relay pair; what is counted is what was relayed | 312,641 |
| `urltest` | MCURLTest, MCURLTest.cfg | the best result wins, whatever its round; a dead member is left | 31,320 |
| `urltest_start` | MCURLTestStart.cfg | violation, see findings | |
| `fallback` | MCFallback, MCFallback.cfg | the first usable member is chosen; it fails over and back | 7,749 |
| `encrypted` | MCEncryptedConnection, MCEncrypted.cfg | the reader gets a prefix of what was written from any stream, all of it from a sound one | 34,750 |
| `dialer` | MCDialer, MCDialer.cfg | every kind of adapter, every reply, every break-off | 63,192 |
| `routing` | MCRouting, MCRouting.cfg | six configurations with groups, and one for each network of either width: where dials end, who takes turns, what rules decide | 8,593 |
| `routing_lines` | MCRoutingLines.cfg | violation, see findings | |
| `control` | MCControl, MCControl.cfg | two viewers, one slow: who lives, which lines they get, who is forgotten | 26,741 |
| `ssr` | MCSSRConnection, MCSSR.cfg | both protocols and obfuscations: what the server finds; what reads that end anywhere make of sound and altered packets | 57,647 |
| `dns` | MCResolver, MCResolver.cfg | every way of a resolution: the query says what was asked, the answer is handed over as it is or not at all | 45,496 |

Bounds, and why they are enough.

- `Payload`, `Answer` (session): two units per direction: one in the buffer while
  the next arrives. The preamble is cut at every unit in `session_wild`.
- One session goes to its very end alone. Two side by side (`SideBySide`, a constraint of
  `session_wild`) are those of CONNECT clients that keep to their protocol, one unit each
  way, with peers that go away whole and not by halves: sessions share only the registry
  and the totals, and `RegistryExact` and `CountsRelayed` are proved for any number.
- `MaxPending` (groups): 3 or 4 dials of a member: results of two earlier rounds
  may be out with those of a round now running. Three members, one of them listed
  twice, one that refuses in the call.
- `MaxLatency` = 1: latencies are only compared, and 0 is special for Fallback.
- `MaxChunk` = 3, `MaxWrite` = 4, `BufferSize` = 2, `MaxData` = 4: writes longer
  than a chunk, chunks longer than the caller's buffer, more than one write.
  `SaltSize`, `TagSize`: any block may be cut.
- `NameLengths` = {0, 128, 255, 256}: both sides of a signed and an unsigned byte.
- `MaxDials` = 3 in Routing: the cursor of a group of two wraps around.
- Names of rules: a keyword inside a label and across a dot; a suffix that is the name,
  that stands behind a dot, and that is the end of a longer label.
- Rules: bytes of 2 bits, IPv4 addresses of 2 bytes and IPv6 of 3 put every prefix,
  0 and the full width included, on and off a byte's edge.
- `MaxLines` = 2, two levels and two pieces per line (control): a line on either side
  of a subscription or of a level, and one that overtakes the rest of another.
- `WriteSizes` = {1440, 1500, 8192} (ssr): with the 92 bytes that 8192 leave behind a
  chunk, each range `get_rand_len` tells apart below 32K, and more than a chunk; 8192
  is Session's buffer. The run takes the random lengths at the
  ends of their range and around 128; `SSRConnectionProofs` has them all.
- `SendSizes` = {1, 6}, `ReadSize` = `CallerSize` = 11 (ssr): a read holds one
  large packet and part of another; two large ones, put together from two reads,
  have more data than the caller's buffer takes, other pairs have not. One unit is altered, anywhere.
- Names in the run `dns` have up to eleven labels (one more than the decoder
  follows), of 1 and of 63 bytes, an empty one among others, or none; three lists of
  records, with and without others than A; altered bytes become 2 or 192, a length
  and a pointer.

Deadlock checking is off where the system may stop: a session that is gone, a
dialer that has called back, a resolution that is done, a stream that is closed.

Fairness. One thread runs every handler that is ready, so weak fairness holds of
each handler; the timer of a group expires; a dial ends because the system bounds
`resolve` and `connect`. It is not assumed that peers send anything. Two
assumptions are about servers and are stated where they are made: in
`Dialer!FairSpec` the server answers in the end or goes away, because no dialer
has a timer (a server that stays connected and silent holds a dial, its session
and its place in a group's round for good); in `Session!Fairness` and in the
groups a dial ends, which is what `Dialer` shows under that assumption. In
`Control`, `StepFails` has strong fairness: the stream of totals to a viewer that
has left alternates between timer and write, and TCP reports such a write in the
end. In `SSRConnection` and `EncryptedConnection` the caller reads again after each
read, as the relay loops do. In `Resolver` nothing makes the answer come, and
`Answered` excepts the wait for one that does not. A log stream has no timer of its
own, so nothing is claimed of one whose viewer has left and that no line reaches.

### Findings

- `urltest_start`: the test "at once" (main.cpp:281) runs before the group has
  members, so it tests nobody.
- `routing_lines`, twice. A SOCKS5 request by address goes past the IP-CIDR line that
  means it: such lines and GEOIP compare `dstIP` (ip_cidr.cpp:64, geoip.cpp:19), which no
  code assigns, although the comment at ip_cidr.cpp:63 reckons with it. And it goes past
  the PROCESS line that names the process it comes from: eight fields are skipped where
  seven stand before the inode (platform_linux.cpp:51 against the line quoted at
  platform_linux.cpp:37); process.h:13 has the rule match the name of the process that
  makes the connection. The run has the two lines in either order.

Seen on the way, without a run of their own: a connection closed through the API
while its dial is under way gets an open outbound connection afterwards
(session.cpp:446), which the relay lets go when it finds the client's socket closed;
the first request of a plain HTTP client is forwarded by a write of its own that no
counter sees (session.cpp:471), although the totals are those of all traffic
(traffic_manager.h:13), and a client that shuts down its sending half is cut off from
the answer (session.cpp:543); a port that is no number ends the program
(session.cpp:154, main.cpp:423); a member that answers within a millisecond has latency
0, which is what a failure has (fallback.cpp:127-136, 169), so that the group passes over
it although it is the first available (fallback.h:17);
a name of 256 bytes or more is sent with its
length cut to a byte (socks5.cpp:142, shadowsocks.cpp:120, shadowsocksr.cpp:373); an
SRC-IP-CIDR line whose address does not parse matches every IPv4 source
(ip_cidr.cpp:35); a session that
subscribed to the log is never destroyed (http_controller.cpp:409), and its lines
may be mixed on the wire (http_controller.cpp:431); what a ShadowsocksR packet holds
beyond the caller's buffer is dropped, an IV in two pieces ends the connection, and
after one altered packet all data is dropped in silence until the server gives up
(shadowsocksr.cpp:90, 133, ssr_protocol.cpp:283); a name with an empty label inside
gives a malformed query whose answer is taken for an empty one (message.cpp:41), one
of more than ten labels and pointers is decoded to nothing and the records behind it
are read at the wrong place (message.cpp:75); a lost query or answer leaves the
resolver's handler uncalled, and the endpoint its answer's sender is written to is
gone by then (resolver.cpp:130).

## 4. The proofs

TLC shows the properties above for a few sessions or members, TLAPS for any
number, from the assumptions named `...Assumption` in the modules.

`SessionProofs`. `TypeCorrect`: `Spec => []TypeOK`, one lemma per handler on top
of lemmas about what handlers share (`AfterType`, `ChainType`, `CloseBothType`).
`Lifetime`: `Spec => []IInv` with `IInv == TypeOK /\ LifeInv`, where `LifeInv`
says of each session (`SInv`) that it is registered iff busy iff alive, that its
operations exclude each other as the buffers demand, and that a streaming
session with an open client has both loops and its outbound end. Three more
conjuncts make it inductive: what an unborn session looks like; while the reply
or the first write is pending with the client's end open, the outbound end is
open too (without it the step that starts the relay would leave half a relay);
and the handshake is over once the relay runs. `RegistryIsExact`,
`BuffersAreExclusive`, `RelayIsPaired` and `OutboundIsReady` follow from it.
`CountsAreRelayed` has an invariant beside it, session by session and direction by
direction (`CountsInv`): a counter beside what its peer was written is behind by
nothing and ahead by what the loop has in hand (`FlowInv`), nothing is counted or
written before the relay runs, and only a plain client's first write is outside of it.
Each handler keeps it (`C2TReadDoneCounts` and its like) from what it does to one
session's positions and what `IInv` says of the operations pending. The totals are the
sums over all sessions ever accepted (`TotalsInv`): a step that adds to one counter
adds as much to the sum (`SumGrows`), since the fold the library sums with takes the
elements one by one and the one that grew is among them (`SumIs`, by `PickInduction`
over the subsets of the finite set of sessions that `SessionAssumption` has).

`URLTestProofs`. `IInv` adds to `FastestIsBest` that only members are being
dialled and that an unlinked group has none. `TypeCorrect`, `FastestIsTheBest` and the
refinement `KeepsGroup` (`Spec => IsGroup`) follow for any list of members, any
latencies and any number of dials under way.

`FallbackProofs`. `IInv` adds that a positive latency comes from a dial that
succeeded and that `selected_` is what `updateSelection` would choose now.
`TypeCorrect`, `FirstIsTheSelected` and `KeepsGroup` follow.

`TunnelProofs`, Control. `IInv == TypeOK /\ OnlyTheLiving` is inductive as it stands: every
handler ends in `After` (`AfterInv`), and the log's call reaches subscribers only,
which are alive. `TypeCorrect` and `OnlyTheLivingAreCalled` follow. That a subscriber
is alive because its callback holds it is what makes this true, and what keeps the
destructor's `unsubscribe` from ever running. `LinesAreAccounted` has a second
invariant beside it, viewer by viewer (`Good`): nothing flows to a viewer before it
subscribes, a subscriber takes no other step (so its level and its place in the log
stay what they were), and the flow, what it has got, what is being written and what
is posted, is what it is owed. A posted line that is written keeps its place in the
flow (`FlowPosted`), a write that is taken whole too, and the rest of one that is cut
short goes behind the others, which changes the order and nothing else (`FlowFirst`,
`PartBehind`); a line that is printed goes behind all (`LineRight`). For any viewers,
any number of lines and pieces taken at any place.

`TunnelProofs`, Routing. Everything the run `routing` checks but `DialArrives`, for any
set of configurations, destinations and sources and any number of dials. Assumed
(`RoutingAssumption`) are the types of what the configuration's parser yields (hosts, and
the values of the three kinds of DOMAIN lines, are sequences of pieces), that `None` is no
adapter's name, and that the hash of an address is a number.
`RoutingInv` has a part for each thing that the steps keep: `LoadInv`, the tables are empty before the load and
`Adapters(cfg)` after; `GroupsInv`, members and active ones exist and are listed, and
nothing is active only where there are no members; `DialInv`, the dial began where
`match` says; `PathInv`, where it has come is below that; `ChosenInv`, what each
recorded choice was made by; `TurnsInv`, the i-th of n members has had
`(cursor + n - i) \div n` turns.

- Linking (`LinkedIs`): the second pass of `main()` is a fold, which `TiersExist` and
  `FoldExists` turn into a chain; along it `Fits` says of a group's members and active
  one that they are listed and exist, that nothing is there before the group's own link,
  and that the first member is active if the name is listed once. `SelectorsAreGroups`
  needs the last; without `Once` it is false.
- Below (`BelowClosed`): the names below a name, computed level by level as often as
  there are groups, are all of them: while a level adds a name it adds a group among
  those that list it (`LevelIs`, with cardinalities), so the last one adds none. Hence a
  step from a group to a member stays below, and `DialsStayBelow`.
- Turns (`CursorMoves`, `BalancedKeeps`): a choice by the cursor moves it by one and
  counts for one member; `TurnsApart` bounds the difference of two such quotients, which
  gives `MembersTakeTurns`; `SourcesStick` reads `ChosenInv`.
- Rules (`HitsMeans`): for each kind of rule but those on processes, what the code
  computes is what the line means. A suffix found by comparing reversed names is what
  follows from a position on, the one that two lengths give, with a dot before it unless
  it is the whole (`SuffixIs`, `SuffixMeans`); what is found at some place of a name is
  one of its parts (`KeywordMeans`). A network with its prefix is a range of numbers:
  `ToUlongChain` gives the number of an address from the library's fold, `MatchesV4` and
  `MatchesV6` take the prefixes one by one (in the model's small bytes there are 5 and
  7), comparing shifted numbers or bytes and a last byte's high bits with the range.
  `HitsAre`: the lines that hit are those that are meant, and lines on processes.
  `RulesDecide` takes the first of those that hit: either it is meant, or it is a line on
  a process that stands before all that are meant.

`TunnelProofs`, Resolver. `ResolverInv` is `ResolverTypeOK` and that a call has been made
exactly when nothing is pending. Its bulk is about the decoder: for every buffer of
bytes, whatever they are, `decode` ends with names, types and data read inside the
buffer (`DecodeType`), as no definition looks behind it and a number read is one of two
bytes. The loops of `message.cpp` are recursive functions; `NameLoop`, `RecordLoop` and
`QuestionLoop` state them as chains whose turns are `NameStep`, `RecordStep` and
`QuestionStep`, which exist and are what the functions return (`NameLoopIs` and its
like). `ResponseType` says that an answer of the server is bytes: its fold grows by a
record at a time (`Grows`). `ResolverTypeCorrect` and the refinement `ResolverKeepsDial`
(`ResolverSpec => IsDial`: the handler at most once) follow, for every name, every list
of records and every alteration.

`TunnelProofs`, what the resolver answers. `AnswersTrue` is `AnsweredTrue` from
`AnswerInv`, which says of every step what it has in hand: an address of the hosts is
all that is handed over there; what was sent is the query for the name; what came back,
unless altered, is an answer of the server (`IsAnswer`, with `Grows` for how it was
put together); what the handler got is what the datagram, as far as the buffer goes,
decodes to. What remains is that decoding undoes encoding, also for a prefix, and here
the decoder is followed along the server's bytes. `Stands(buffer, x, s)` says what
stands in a buffer from x on as far as it goes, so that one argument covers answers that
fit and answers that were cut. `NameIsFound` follows `NameStep` over a name of labels:
it comes out whole, or its loop ended at the buffer's end. `Goes` and `ChainedGoes`
count the turns of pointers: through records that each point to the one before, the
question is reached within the eleven. `NameRead` puts the four forms of names together:
behind the name `decode` stands where its fields are. `RecordRead` is one record and
`RecordsRead` all of them, by induction from the last to the first; `QueryDecodes` and
`ServedDecodes` are the whole messages. The one delicate place is a name cut off in a
label: `decodeName` then returns a place inside that label and `decode` reads a record
there. It is refused (`Dead`) because the bytes of host names are 45 at the least
(`NameBytes`), so that two of them read as a record's length exceed the 512 bytes of the
buffer. Assumed is `ResolverAssumption`, with the buffer at most 512 and the records of
types 1, 5 and 28.

`DialerProofs`. `HandedOverClean` says where the reading stands when a connection is
handed over; to keep it, `PlaceInv` says for every pending step how far into the
handshake it is and what the reads before have found there (behind the head the
type of the address, behind its length that the rest of the reply ends where
`consume_remaining` will). `FoundIs` says what stands at those places, for every
reply and every length of a name. Every step ends the dialer (`Failing`, `Handing`)
or leaves it in its place (`Going`). `TypeCorrect`, `HandsOverClean` and the refinement
`KeepsDial` (`Spec => IsDial`: the handler at most once) follow for every name, reply
and payload; that it comes at all, `DialEnds`, is TLC's.

`EncryptedConnectionProofs`. All four properties of the run `encrypted` that have no
fairness in them, for every size of salt, tag, chunk and buffer and any amount of
data. The stream is described by two witnesses: `S[c]` is where the c-th chunk
starts, `P[c]` how much of the plaintext is before it. `Frames` says how one follows
from the other, `Laid` which unit stands at which place of which chunk, `Reading` how
far the reader is in its chunk and that what it has, with what is left over, is the
first `P[c]` of the plaintext. `IInv == TypeOK /\ Caller /\ \E n, S, P, c : Shape(n, S,
P, c)`; `Caller` is what the caller's operation says of the buffers. A write keeps it
chunk by chunk (`WroteNext`, by induction along the write), an alteration because
nothing is said of altered units (`IsUnit`), a read because the block it has read
opens only as what was sealed there (`Opens`: nonce, place and data of a block are
those of its units). `TypeCorrect`, `NonceIsFresh` (a unit's nonce gives its chunk and
its kind, hence its data), the refinement `KeepsStream` (`Spec => IsStream`) and
`ErrorsTrue` follow; the last counts the data of the chunks that came whole with a
bijection (`WholeCount`).

`SequenceLemmas` characterises `FlattenSeq` for sequences of any length: it is the end
of the chain `f[i] = f[i - 1] \o ss[i]`, which exists and is unique (`FlattensExists`,
`FlattensUnique`), so that appending, splitting and typing follow, and the same from
the other end (`FlattenCons`); and when two sequences put together hold nothing twice
(`InjectiveConcat`). `Inductive` is the
induction over the naturals these proofs use, stated of a set of naturals because the
library's theorem takes an operator. For `FoldLeft` it has that the function the fold
is chosen from exists (`FoldExists`), whatever is folded.

`SSRConnectionProofs`. The four properties of the run `ssr` that have no fairness in
them, for every size of IV, length field and buffers, any writes and packets, reads
that end anywhere and any altered unit. Assumed of the sizes: a packet's length field
is shorter than the read buffer, and the caller's buffer not shorter than that (both
have 8192 bytes, shadowsocksr.cpp:209, session.h:68).

First the layout: `RandBound` bounds the random length by the branches of
`get_rand_len`; from it, for every chunk a write may be cut into and every random
length, `PacketsFit` (the packet is shorter than the limit at which
`client_post_decrypt` clears its buffer), `DataFound` (the one or three bytes before
the random part lead the reader to where the data is) and `AuthFits` (the lengths in
the first packet fit their fields).

Upwards, `UpInv` says that the parts of all calls, flattened, follow one another
(`Chained`), have the kinds and numbers the server counts (`Kinds`), that each call
starts at the place of the key stream where the parts before it end (`Keyed`), and
what `first_packet_`, the obfuscation's flag and `pack_id` remember of the past
(`Remembered`): without that a second authenticating packet could not be excluded.
`PacketsMade` shows that cutting a write leaves no gap and no empty chunk, `SendKeeps`
is the step, `UpUnderstood` gives `ServerMakesSense`.

Downwards, `DownInv` has two witnesses: `B[k]` is how much data the first k packets of
the server hold, `E[k]` where the k-th ends in the stream. `Laid` says that each unit
is the one that belongs at its place, or the altered one. The reader with
authentication (`AuthReader`) has in its buffer only units it has read from that
stream, or garbage; as many packets as its counter says have come whole, before the
altered unit; and its caller was handed their data in order (`Handed`). The invariant
does not say that the buffer is a stretch of the stream, as it is not: packets that
fail are taken off in the middle. It need not be: the check compares all of a packet,
and a unit that names packet k, place a stands nowhere but there (`AcceptedIs`). One
turn of the loop keeps this (`OneTurn`); `Loop` runs it as often as the buffer has room
for packets, and `LoopEnds` shows by induction that this is often enough, because each
turn ends the loop or takes a packet off. So `recv_buffer_` is left shorter than a
packet may be, which is in `TypeCorrect`. `InOrderAndOnce` (what the caller has is in
order, with gaps only behind a read that filled its buffer, with `origin` none) and
`OnlyAuthentic` (the data of packets before the altered unit, and no other) follow.

Only model-checked: liveness under fairness (the provers have no ENABLED), the
refinement of `ByteStream` by Session's relays.

## 5. Not modelled, and why

Parsing of the configuration and of YAML (a file format; `Routing` starts from what
it yields), the cryptographic primitives (OpenSSL's), the wording of replies and
logs, the static files of the UI, paths, the file format of the GeoIP database, the
answers of the API's GET requests (each reads tables that Routing, Session and the
groups have, and writes them out).

## 6. Plan

Order of work, the most important behaviour first. Done: Session, the groups,
EncryptedConnection, the dialers, Routing with Rules, Control, SSRConnection, the
resolver; the proofs of Session, the groups, Control, Routing, the resolver, the
dialers, EncryptedConnection and SSRConnection. Left are the properties named at the
end of section 4.
