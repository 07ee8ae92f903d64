\* The CHECK constraints of the migrations refuse every required entry.
SPECIFICATION MCSpec
CONSTANTS
    Participants = {alice, bob}
    Entry = 1
    MaxFunds = 1
    RefundReasons = {"MATCH_ENDED", "OPERATIONAL_RECOVERY"}
    Handlers = {h1}
    NoCall = NoCall
    NoSettlement = NoSettlement
    ShippedChecks = TRUE
INVARIANT SchemaAdmitsReservation
\* A match that has ended, with nothing left in escrow, has nothing more to do.
CHECK_DEADLOCK FALSE
