------------------------------ MODULE Routing ------------------------------
(***************************************************************************)
(* From a connection's metadata to the proxy that dials: Tunnel with its   *)
(* rules and modes, the proxies and groups main() builds from the          *)
(* configuration, SelectorAdapter, LoadBalanceAdapter, and the REST API's  *)
(* choice of a selector's member.                                          *)
(*                                                                         *)
(* A dial runs through the groups within one call, nothing else running    *)
(* meanwhile; here it takes a step per group, and `at` is where it is.     *)
(* URL test and fallback groups are what URLTest and Fallback show them to *)
(* be: groups that may switch to any member between two dials (Group).     *)
(* Adapters are named by their key in Tunnel::proxies_; None is nullptr.   *)
(*                                                                         *)
(* Not here: the adapters that a later one of the same name replaced.      *)
(***************************************************************************)
EXTENDS Rules, FiniteSets

CONSTANTS
    None,         \* no adapter
    Configs,      \* the configurations main() may be started with
    Destinations, \* what connections are asked for
    Sources,      \* the endpoints they come from
    hash,         \* std::hash on the text of an address
    MaxDials      \* bound: no dial begins after so many balanced choices

GroupTypes == {"select", "url-test", "fallback", "load-balance"}

VARIABLES
    cfg,
    proxies,   \* Tunnel::proxies_: the type of each adapter, by name
    members, active, cursor,  \* the groups' proxies_, selected_ and cursor_
    at,        \* where a dial has come to, None when there is none
    trip,      \* the dial: its destination and source, what match() gave, the
               \* adapter it ended at, whether it ended in error
    chosen     \* history: what load balancing groups chose

tables == <<cfg, proxies, members>>
routingVars == <<tables, active, cursor, at, trip, chosen>>

NoTrip == [dest |-> [host |-> <<>>, ip |-> NoAddr, port |-> 0],
           src |-> [ip |-> NoAddr, port |-> 0],
           first |-> None, end |-> None, failed |-> FALSE]
\* Names an adapter may have in this run.
Named(c) == {"DIRECT", "REJECT", "GLOBAL"}
              \cup {c.proxies[i].name : i \in DOMAIN c.proxies}
              \cup {c.groups[i].name : i \in DOMAIN c.groups}
Names == UNION {Named(c) : c \in Configs}

ASSUME RoutingAssumption ==
    /\ \A c \in Configs :
        /\ c.proxies \in Seq([name : STRING, supported : BOOLEAN])
        /\ c.groups \in Seq([name : STRING, type : STRING, strategy : STRING,
                             proxies : Seq(STRING)])
        /\ DOMAIN c.rules \subseteq Nat
        /\ \A i \in DOMAIN c.rules :
            c.rules[i].type \in {"DOMAIN", "DOMAIN-SUFFIX", "DOMAIN-KEYWORD"} =>
                c.rules[i].value \in Seq(STRING)
    /\ None \notin Names
    /\ \A d \in Destinations : d.host \in Seq(STRING)
    /\ \A s \in Sources :
        s.ip # NoAddr => s.ip \in Addresses /\ hash[s.ip] \in Nat
    /\ MaxDials \in Nat

RoutingInit ==
    /\ cfg \in Configs
    /\ proxies = <<>>
    /\ members = [n \in Names |-> <<>>]
    /\ active  = [n \in Names |-> None]
    /\ cursor  = [n \in Names |-> 0]
    /\ at = None /\ trip = NoTrip /\ chosen = <<>>

-----------------------------------------------------------------------------
(* main(): the adapters are created, then the groups are linked. *)

\* Mutant: a group of any type gets an adapter.
Created_All(c) == DOMAIN c.groups
\* The groups and proxies of the configuration that get an adapter.
Created(c) == {i \in DOMAIN c.groups : c.groups[i].type \in GroupTypes}
Leaves(c)  == {"DIRECT", "REJECT"} \cup
              {c.proxies[i].name : i \in {j \in DOMAIN c.proxies :
                                            c.proxies[j].supported}}

\* The last group of a name, if one was created.
LastGroup(c, n) ==
    CHOOSE i \in Created(c) :
        /\ c.groups[i].name = n
        /\ \A j \in Created(c) : c.groups[j].name = n => j <= i

Adapters(c) ==
    LET grouped == {c.groups[i].name : i \in Created(c)}
    IN  [n \in Leaves(c) \cup grouped |->
            IF n \in grouped THEN c.groups[LastGroup(c, n)].type ELSE "leaf"]

\* Mutant: a member that is missing is replaced by DIRECT.
Linked_Direct(all, list) ==
    [i \in DOMAIN list |-> IF list[i] \in DOMAIN all THEN list[i] ELSE "DIRECT"]
\* The listed members that exist.
Linked(all, list) ==
    FlattenSeq([i \in DOMAIN list |->
                   IF list[i] \in DOMAIN all THEN << list[i] >> ELSE <<>>])

\* Mutant: a selector has no choice before the user makes one.
SetProxies_NoDefault(type, list, now) == now
\* setProxies of a group of a type: what is active afterwards.
SetProxies(type, list, now) ==
    CASE type = "select" ->
            IF list = <<>> THEN None ELSE IF now \in Range(list) THEN now ELSE list[1]
      [] type \in {"url-test", "fallback"} ->
            IF list = <<>> THEN now ELSE list[1]
      [] OTHER -> now

\* A group is linked: its object gets the members, unless a later group of
\* the name has another type.
LinkGroup(all, acc, g) ==
    IF g.type \in GroupTypes /\ g.name \in DOMAIN all /\ all[g.name] = g.type
    THEN LET list == Linked(all, g.proxies)
         IN  [members |-> [acc.members EXCEPT ![g.name] = list],
              active  |-> [acc.active EXCEPT ![g.name] =
                              SetProxies(g.type, list, @)]]
    ELSE acc

\* The second pass of main() over the groups, one after the other.
LinkGroups(c, all) ==
    FoldLeft(LAMBDA acc, g : LinkGroup(all, acc, g),
             [members |-> members, active |-> active], c.groups)

Load ==
    /\ proxies = <<>>
    /\ proxies' = Adapters(cfg)
    /\ LET linked == LinkGroups(cfg, Adapters(cfg))
       IN  members' = linked.members /\ active' = linked.active
    /\ UNCHANGED <<cfg, cursor, at, trip, chosen>>

-----------------------------------------------------------------------------
(* Tunnel::match and the way through the groups. *)

\* What is matched against the rules is what Session knows of a request.
TunnelRules == ParsedRules(cfg.rules)
\* The adapter of the first rule that hits.
ByRule(m) ==
    LET hit == {i \in TunnelRules : Hits(cfg.rules[i], m)}
    IN  IF hit = {} THEN "DIRECT"
        ELSE cfg.rules[CHOOSE i \in hit : \A j \in hit : i <= j].adapter

Match(m) ==
    LET name == CASE cfg.mode = "global" -> "GLOBAL"
                  [] cfg.mode = "direct" -> "DIRECT"
                  [] OTHER -> ByRule(m)
    IN  IF name \in DOMAIN proxies THEN name ELSE "DIRECT"

Dial(dest, src) ==
    /\ proxies # <<>> /\ at = None /\ Len(chosen) < MaxDials
    /\ at' = Match(Metadata(dest, src))
    /\ trip' = [dest |-> dest, src |-> src, first |-> at', end |-> None,
               failed |-> FALSE]
    /\ UNCHANGED <<tables, active, cursor, chosen>>

\* Mutant: an empty group forgets to call the handler.
Pass_Silent(n) == at' = (IF n = None THEN at ELSE n) /\ UNCHANGED trip
\* The dial goes on at a member of the group it is at, or has ended in error.
Pass(n) ==
    IF n # None THEN at' = n /\ UNCHANGED trip
                ELSE at' = None /\ trip' = [trip EXCEPT !.failed = TRUE]

\* SelectorAdapter, URLTestAdapter, FallbackAdapter.
PassActive ==
    /\ at # None /\ proxies[at] \in {"select", "url-test", "fallback"}
    /\ Pass(active[at])
    /\ UNCHANGED <<tables, active, cursor, chosen>>

Strategy(g) == cfg.groups[LastGroup(cfg, g)].strategy

\* Mutant: the cursor is used whatever the strategy.
ByCursor_Always(g) == TRUE
ByCursor(g) == Strategy(g) = "round-robin" \/ trip.src.ip = NoAddr

\* Mutant: the cursor stays where it is.
NextCursor_Stuck(g) == cursor
\* cursor_.fetch_add(1)
NextCursor(g) == [cursor EXCEPT ![g] = @ + 1]

PassBalanced ==
    /\ at # None /\ proxies[at] = "load-balance"
    /\ IF members[at] = <<>>
       THEN Pass(None) /\ UNCHANGED <<cursor, chosen>>
       ELSE LET by    == IF ByCursor(at) THEN cursor[at] ELSE hash[trip.src.ip]
                index == (by % Len(members[at])) + 1
            IN /\ cursor' = IF ByCursor(at) THEN NextCursor(at) ELSE cursor
               /\ chosen' = Append(chosen,
                    [group |-> at, cursor |-> ByCursor(at), src |-> trip.src.ip,
                     index |-> index])
               /\ Pass(members[at][index])
    /\ UNCHANGED <<tables, active>>

\* A leaf dials: what Dialer models.
Arrive ==
    /\ at # None /\ proxies[at] = "leaf"
    /\ at' = None /\ trip' = [trip EXCEPT !.end = at]
    /\ UNCHANGED <<tables, active, cursor, chosen>>

-----------------------------------------------------------------------------
(* Between dials. *)

\* PUT /proxies/<g>: HttpSession::handle_put_proxy, SelectorAdapter::select.
Select(g, n) ==
    /\ proxies # <<>> /\ at = None
    /\ active' = IF /\ g \in DOMAIN proxies /\ proxies[g] = "select"
                    /\ n \in Range(members[g])
                 THEN [active EXCEPT ![g] = n] ELSE active
    /\ UNCHANGED <<tables, cursor, at, trip, chosen>>

\* A test group switches: Switch of Group.
Tested(g, n) ==
    /\ proxies # <<>> /\ at = None
    /\ g \in DOMAIN proxies /\ proxies[g] \in {"url-test", "fallback"}
    /\ n \in Range(members[g])
    /\ active' = [active EXCEPT ![g] = n]
    /\ UNCHANGED <<tables, cursor, at, trip, chosen>>

RoutingNext ==
    \/ Load
    \/ \E dest \in Destinations, src \in Sources : Dial(dest, src)
    \/ PassActive \/ PassBalanced \/ Arrive
    \/ \E g, n \in Named(cfg) : Select(g, n) \/ Tested(g, n)

RoutingSpec == RoutingInit /\ [][RoutingNext]_routingVars

\* A call runs on.
RoutingFairSpec ==
    RoutingSpec /\ WF_routingVars(PassActive \/ PassBalanced \/ Arrive)

-----------------------------------------------------------------------------
(* Properties. *)

\* Types of the tunnel's and the groups' variables.
RoutingTypeOK ==
    /\ cfg \in Configs
    /\ \A n \in DOMAIN proxies : proxies[n] \in GroupTypes \cup {"leaf"}
    /\ members \in [Names -> Seq(Names)]
    /\ active \in [Names -> Names \cup {None}]
    /\ cursor \in [Names -> Nat]
    /\ at \in Names \cup {None}

\* The configuration taken at its word: the adapters listed below a name, to
\* any depth, the name included.
Listed(c, n) == UNION {Range(c.groups[i].proxies) :
                          i \in {j \in DOMAIN c.groups : c.groups[j].name = n}}
Below(c, n) ==
    LET B[k \in 0 .. Len(c.groups)] ==
            IF k = 0 THEN {n}
            ELSE LET above == B[k - 1]
                 IN  above \cup UNION {Listed(c, m) : m \in above}
    IN  B[Len(c.groups)]
Cyclic(c) == \E n \in Named(c) : \E m \in Listed(c, n) : n \in Below(c, m)

\* What a configuration asks for, given the lines that speak of a request: the
\* adapter of the first of them.
Asked(c, meant) ==
    CASE c.mode = "global" -> "GLOBAL"
      [] c.mode = "direct" -> "DIRECT"
      [] OTHER -> IF meant = {} THEN "DIRECT" ELSE c.rules[Min(meant)].adapter
\* The lines that are complete and speak of a request.
Meant(c, dest, src) ==
    {i \in DOMAIN c.rules : c.rules[i].complete /\ Means(c.rules[i], dest, src)}
\* Those on the address asked for, and on the process that asks.
MeantAddress(c, dest) ==
    {i \in DOMAIN c.rules : c.rules[i].complete /\ MeansAddress(c.rules[i], dest)}
MeantProcess(c, src) ==
    {i \in DOMAIN c.rules : c.rules[i].complete /\ MeansProcess(c.rules[i], src)}
ProcessLines(c) ==
    {i \in DOMAIN c.rules : c.rules[i].type \in {"PROCESS-NAME", "PROCESS-PATH"}}
\* Every network to match sources with parses, with a prefix that fits.
Legible(c) ==
    \A i \in DOMAIN c.rules :
        c.rules[i].type = "SRC-IP-CIDR" => Readable(c.rules[i].value)

\* The dial goes by these lines: it begins at what they ask for, or at DIRECT if
\* there is no such adapter.
GoesBy(meant) ==
    trip.first = LET asked == Asked(cfg, meant)
                 IN  IF asked \in DOMAIN proxies THEN asked ELSE "DIRECT"

\* match() gives what the first line that speaks of the request asks for, as a
\* reader of the configuration would have it, unless a line on a process that
\* stands before takes it.  Whether such a line should, and what lines on the
\* address asked for should do, is LinesDecide.
RuleDecides ==
    trip # NoTrip /\ Legible(cfg) =>
        \E more \in {{}} \cup {{i} : i \in ProcessLines(cfg)} :
            GoesBy(Meant(cfg, trip.dest, trip.src) \cup more)

\* A dial only visits adapters that exist, listed below the one its rule names,
\* wherever the user and the tests have switched the groups on the way; it
\* ends at one of them, or in error because it met a group without members.
StaysBelowRule ==
    /\ at # None => at \in DOMAIN proxies
    /\ trip.end # None => trip.end \in Below(cfg, trip.first)
    /\ trip.failed => \E g \in Below(cfg, trip.first) :
          g \in DOMAIN proxies /\ proxies[g] # "leaf" /\ members[g] = <<>>

\* Lines on the address asked for and on the process that asks decide like the
\* others: "Metadata may hold an IP (of a SOCKS5 request by IP)", and such a line
\* "matches the name of the process that makes the connection".
LinesDecide ==
    trip # NoTrip =>
        GoesBy(Meant(cfg, trip.dest, trip.src) \cup MeantAddress(cfg, trip.dest)
                 \cup MeantProcess(cfg, trip.src))

\* Each source keeps its member, in every group that hashes.
SourceSticks ==
    \A i, j \in DOMAIN chosen :
        LET a == chosen[i]  b == chosen[j]
        IN  a.group = b.group /\ a.src = b.src /\ a.src # NoAddr
            /\ Strategy(a.group) # "round-robin" => a.index = b.index

\* How often a group's cursor has pointed at its i-th member.
Turns(g, i) == Cardinality({k \in DOMAIN chosen :
    chosen[k].group = g /\ chosen[k].cursor /\ chosen[k].index = i})
\* The members of a group take turns, dials to other groups in between or not.
TakeTurns ==
    \A g \in Names : \A i, j \in DOMAIN members[g] : Turns(g, i) <= Turns(g, j) + 1

\* A selector keeps the promise of every group, if the configuration has one
\* group of its name.  With two, the one object is linked twice, and the second
\* time stays with its choice of the first where it can.
Once(c, g) == \A i, j \in DOMAIN c.groups :
    c.groups[i].name = g /\ c.groups[j].name = g => i = j
AsGroup(g) == INSTANCE Group WITH Proxies <- Names,
                 members <- members[g], active <- active[g]
SelectorIsGroup ==
    /\ \A g \in Names : AsGroup(g)!GroupInit
    /\ [][\A g \in Names :
            g \in DOMAIN proxies' /\ proxies'[g] = "select" /\ Once(cfg, g) =>
                [AsGroup(g)!GroupNext]_(AsGroup(g)!groupVars)]_routingVars

\* In a configuration without cycles every dial gets through the groups.
DialArrives == Cyclic(cfg) \/ [](at # None => <>(at = None))

=============================================================================
