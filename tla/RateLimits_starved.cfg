SPECIFICATION Spec
CONSTANTS
    a1 = a1
    a2 = a2
    a3 = a3
    t1 = t1
    r1 = r1
    r2 = r2
    Addresses = {a1}
    Tokens = {t1}
    Requests = {r1, r2}
    Invalid = Invalid
    Window = 2
    Stale = 2
    AddressMax = 3
    MaxTracked = 2
    TokenMax = 2
    Mixes <- NoFault
INVARIANTS
    RefusedOnlyOverLimit
