\* Lines on an address and on a process, and a request that both speak of.
SPECIFICATION RoutingSpec
CONSTANTS
    None = None
    Configs <- LineConfigs
    Destinations <- ByAddress
    Sources <- ByCurl
    hash <- AHash
    MaxDials = 3
    country <- Countries
    procNetTcp <- Sockets
    socketOwner <- Owners
INVARIANT LinesDecide
