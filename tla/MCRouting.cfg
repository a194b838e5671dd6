\* Every configuration, destination and source, the groups switched between dials.
SPECIFICATION RoutingFairSpec
CONSTANTS
    None = None
    Configs <- AllConfigs
    Destinations <- AllDestinations
    Sources <- AllSources
    hash <- AHash
    MaxDials = 3
    country <- Countries
    procNetTcp <- Sockets
    socketOwner <- Owners
INVARIANT RoutingTypeOK
INVARIANT RuleDecides
INVARIANT StaysBelowRule
INVARIANT SourceSticks
INVARIANT TakeTurns
PROPERTY SelectorIsGroup
PROPERTY DialArrives
