\* Two handlers race over the entries of one match; a winner can be paid more
\* than was ever his.
SPECIFICATION MCSpec
CONSTANTS
    Participants = {alice, bob}
    Entry = 1
    MaxFunds = 2
    RefundReasons = {"MATCH_ENDED", "OPERATIONAL_RECOVERY"}
    Handlers = {h1, h2}
    NoCall = NoCall
    NoSettlement = NoSettlement
    ShippedChecks = FALSE
SYMMETRY Interchangeable
INVARIANTS EscrowExact SettlementCoversAll PaidUnlessRecovered RefundableUnlessReleased
PROPERTIES PointsConserved EntriesInCustody DisputeBlocksUnlessContested
\* A match that has ended, with nothing left in escrow, has nothing more to do.
CHECK_DEADLOCK FALSE
