\* Two handlers, two passwords, one session, a token of the e-mail and two more.
SPECIFICATION MCSpec
CONSTANTS
    t1 = t1
    t2 = t2
    t3 = t3
    Words = {old, new}
    FirstWord = old
    Sessions = {s1}
    Tokens = {t1, t2, t3}
    FirstToken = t1
    Handlers = {h1, h2}
    MaxFailed = 2
    MaxVersion = 2
    NoSession = NoSession
    NoToken = NoToken
    NoCall = NoCall
SYMMETRY Interchangeable
INVARIANTS ValidKnowsPassword PendingIsUnverified
PROPERTIES OutStaysOut DeletedUntilRestored SingleUse
\* When every bound is reached and everything is over, nothing more happens.
CHECK_DEADLOCK FALSE
