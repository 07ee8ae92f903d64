\* One administrator, and the entry of a match that is taken and given back.
SPECIFICATION MCSpec
CONSTANTS
    Users = {u1}
    Keys = {k1, k2, k3, k4}
    ReversalKeys = {k1, k2, k3, k4}
    Amounts = {1}
    Handlers = {h1}
    NoTx = NoTx
    NoCall = NoCall
SYMMETRY Interchangeable
INVARIANT EscrowNeverNegative
