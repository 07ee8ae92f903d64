\* Two handlers race with posts and reversals over three idempotency keys, next to
\* the entries of a match.
SPECIFICATION MCSpec
CONSTANTS
    Users = {u1}
    Keys = {k1, k2, k3}
    ReversalKeys = {k1, k2, k3}
    Amounts = {1}
    Handlers = {h1, h2}
    NoTx = NoTx
    NoCall = NoCall
SYMMETRY Interchangeable
INVARIANTS UserNeverNegative ReversedOnce AnswerTruthful PostsKeepUserExact ExactUnlessCrossed
PROPERTY RetryAnsweredUnlessCrossed
