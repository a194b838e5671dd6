\* A client of any kind that may send early, its messages cut anywhere; or two polite
\* clients of CONNECT side by side.
SPECIFICATION Spec
CONSTANTS
    s1 = s1
    s2 = s2
    Sessions <- TwoSessions
    ClientKinds <- AllKinds
    Payload = 1
    Answer = 1
    Eager = TRUE
    Segmented = TRUE
CONSTRAINT SideBySide
SYMMETRY Alike
INVARIANT RegistryExact
INVARIANT OneOpPerBuffer
INVARIANT RelayPaired
INVARIANT CountsRelayed
CHECK_DEADLOCK FALSE
