\* Two handlers race over two matches that share a player, and their disputes.
SPECIFICATION Spec
CONSTANTS
    alice = alice
    bob = bob
    carol = carol
    m1 = m1
    Players = {alice, bob, carol}
    Matches = {m1, m2}
    Pairing <- TwoMatches
    Keys = {k1, k2}
    Handlers = {h1, h2}
    MinRating = 0
    MaxRating = 5
    InitialRating = 3
    ProvisionalCount = 1
    ProvisionalK = 2
    EstablishedK = 1
    Elo <- SmallElo
    NoApplication = NoApplication
    NoCall = NoCall
SYMMETRY Interchangeable
INVARIANTS HistoryRebuilds CountedOnceForBoth RatedIsSettled
\* When both matches are rated, nothing more need happen.
CHECK_DEADLOCK FALSE
