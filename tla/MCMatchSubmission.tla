-------------------------- MODULE MCMatchSubmission --------------------------
(* Instances of MatchSubmission for TLC, with a history variable that tells  *)
(* the executions in which two first claims have overlapped.                 *)
EXTENDS MatchSubmission, TLC

VARIABLE crossed  \* a claim was written while the opponent, who had not seen it,
                  \* was about to write a first claim

Claiming(p) == \E r \in Rows : /\ submission[r] = NoRow /\ submission'[r] # NoRow
                               /\ submission'[r].by = p
FirstOf(h, p) == pc[h] = "submitting" /\ call[h].by = p /\ call[h].theirs = NoRow

MCInit == Init /\ crossed = FALSE

MCNext ==
    /\ Next
    /\ crossed' = (crossed \/ \E p, q \in Participants :
                      /\ p # q /\ Claiming(q)
                      /\ \E h \in Handlers : FirstOf(h, p))

MCSpec == MCInit /\ [][MCNext]_<<vars, crossed>>

\* No match is left waiting over the claims of both participants: unless two
\* first claims overlapped, claims of both that are in force have decided the
\* match, through any withdrawals, replacements, expiry, voids and crashes,
\* and whether or not the stored claim compares equal to the new one.
DecidedUnlessCrossed ==
    ~crossed => ((\A p \in Participants : Active(p) # {}) => result # NoResult)

\* Payloads are {aliceWon}, or {aliceWon, bobWon}.
CONSTANTS alice, bob, bobWon
WonBy == [payload \in Payloads |-> IF payload = bobWon THEN bob ELSE alice]

Interchangeable == Permutations(Rows) \cup Permutations(Handlers)
=============================================================================
