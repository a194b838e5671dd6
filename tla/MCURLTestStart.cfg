\* The first test of a group.
SPECIFICATION Spec
CONSTANTS
    p1 = p1
    p2 = p2
    p3 = p3
    None = None
    Proxies <- TwoProxies
    Members <- TwoMembers
    Refusing <- NoRefuser
    MaxLatency = 1
    MaxPending = 2
INVARIANT TestedAtOnce
