\* One handler: claims one after another, whose stored payloads may come back
\* with their keys in another order.
SPECIFICATION MCSpec
CONSTANTS
    Participants = {alice, bob}
    Payloads = {aliceWon}
    DeriveOutcome <- WonBy
    alice = alice
    bob = bob
    bobWon = bobWon
    Rows = {r1, r2, r3}
    Handlers = {h1}
    NoRow = NoRow
    NoResult = NoResult
    NoCall = NoCall
    MaxVersion = 5
SYMMETRY Interchangeable
INVARIANT MatchingClaimsConfirm
\* A match that is completed or voided has nothing more to do.
CHECK_DEADLOCK FALSE
