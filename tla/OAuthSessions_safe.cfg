SPECIFICATION Spec
CONSTANTS
    s1 = s1
    s2 = s2
    h1 = h1
    h2 = h2
    a1 = a1
    NoSession = NoSession
    NoHandler = NoHandler
    Sessions = {s1, s2}
    Handlers = {h1, h2}
    Agents = {a1}
    Idle = 2
    MaxRestarts = 1
    FaultMixes <- SafetyMixes
INVARIANTS
    TypeOK
    RevokedStaysDead
    SlidingWindow
    AcceptedInWindow
SYMMETRY NameSymmetry
