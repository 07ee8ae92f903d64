\* Two handlers, three secrets, two challenges and one recovery code per batch.
SPECIFICATION MCSpec
CONSTANTS
    Secrets = {x1, x2, x3}
    Slots = {1}
    Sessions = {s1, s2}
    Challenges = {c1, c2}
    Handlers = {h1, h2}
    MaxVersion = 1
    NoFactor = NoFactor
    NoRotation = NoRotation
    NoSession = NoSession
    NoChallenge = NoChallenge
    NoProof = NoProof
    NoCall = NoCall
SYMMETRY Interchangeable
INVARIANTS CodesOfFactor GrantedOnce AssuredByFactor
PROPERTIES ConfirmedForGood
\* When every bound is reached and everything is over, nothing more happens.
CHECK_DEADLOCK FALSE
