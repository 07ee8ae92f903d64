\* Two handlers race over up to three claims of the two participants.
SPECIFICATION MCSpec
CONSTANTS
    Participants = {alice, bob}
    Payloads = {aliceWon, bobWon}
    DeriveOutcome <- WonBy
    alice = alice
    bob = bob
    bobWon = bobWon
    Rows = {r1, r2, r3}
    Handlers = {h1, h2}
    NoRow = NoRow
    NoResult = NoResult
    NoCall = NoCall
    MaxVersion = 5
SYMMETRY Interchangeable
INVARIANTS ConfirmedByBoth StatusFollowsResult DecidedUnlessCrossed
PROPERTIES VerdictStands OutcomeAllowed
\* A match that is completed or voided has nothing more to do.
CHECK_DEADLOCK FALSE
