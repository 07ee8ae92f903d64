\* Two handlers race over the requests of three players and two proposals.
SPECIFICATION MCSpec
CONSTANTS
    alice = alice
    bob = bob
    carol = carol
    Requests = {alice, bob, carol}
    Proposals = {p1, p2}
    Profile <- Players
    Handlers = {h1, h2}
    MaxLapses = 2
    NoProposal = NoProposal
    NoCall = NoCall
SYMMETRY Interchangeable
INVARIANTS ProposedIsPending MatchedByConsent MatchedUnlessCrossed
PROPERTIES OverStaysOver
\* When every request is over, nothing more need happen.
CHECK_DEADLOCK FALSE
