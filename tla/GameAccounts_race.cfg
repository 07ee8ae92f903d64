\* Two accounts of one player or two, on two platforms, and one administrator.
SPECIFICATION MCSpec
CONSTANTS
    Accounts = {a1, a2}
    Users = {alice, bob}
    Platforms = {p1, p2}
    Handles = {x, y}
    Handlers = {h1}
    MaxVersion = 5
    NoAccount = NoAccount
    NoCall = NoCall
SYMMETRY Interchangeable
INVARIANTS VerifiedAsShown
PROPERTIES LifecycleUnlessCrossed
\* When every account has reached the last version, nothing more happens.
CHECK_DEADLOCK FALSE
