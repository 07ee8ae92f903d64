------------------------- MODULE MCRatingApplication -------------------------
(* Instances of RatingApplication for TLC. *)
EXTENDS RatingApplication, TLC

CONSTANTS alice, bob, carol, m1

\* bob plays two matches.
TwoMatches == [m \in Matches |-> IF m = m1 THEN {alice, bob} ELSE {bob, carol}]

\* A formula with the traits of Elo's: the K factor weighs, the
\* outsider wins and the favourite loses more.
SmallElo(own, other, k, outcome) ==
    LET upset == IF own < other THEN 1 ELSE 0
    IN CASE outcome = "WIN" -> own + k + upset
         [] outcome = "LOSS" -> own - k - (1 - upset)
         [] outcome = "DRAW" -> own + upset

Interchangeable == Permutations(Keys) \cup Permutations(Handlers)
=============================================================================
