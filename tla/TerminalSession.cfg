SPECIFICATION FairSpec
CONSTANTS
    Sessions = {s1}
    Sockets = {k1, k2, k3}
    NoSession = NoSession
INVARIANTS TypeOK ConnectedIsServed
PROPERTIES EndedStaysEnded CallsEnd
