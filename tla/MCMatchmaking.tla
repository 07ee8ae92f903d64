---------------------------- MODULE MCMatchmaking ----------------------------
(* Instances of Matchmaking for TLC, with a history variable that tells the  *)
(* executions in which no answer to a proposal overtakes another.            *)
EXTENDS Matchmaking, TLC

VARIABLE crossed  \* a proposal was written while an answer or a cancellation was running

MCInit == Init /\ crossed = FALSE

MCNext ==
    /\ Next
    /\ crossed' = (crossed \/ \E h \in Handlers :
                      /\ pc[h] \in {"accept", "finish", "cancelRequest", "cancel"} /\ pc'[h] = pc[h]
                      /\ proposal' # proposal)

MCSpec == MCInit /\ [][MCNext]_<<vars, crossed>>

\* "Both users accepting marks their requests MATCHED" (docs/domain-model.md):
\* as long as no answer to a proposal, and no cancellation, is overtaken by
\* another, the requests of an accepted proposal are matched.
MatchedUnlessCrossed ==
    ~crossed => \A p \in Proposals : proposal[p] # NoProposal /\ proposal[p].status = "ACCEPTED"
        => \A r \in proposal[p].pair : request[r] = "MATCHED"

\* Nor does a request then play twice: no two accepted proposals share one.
Accepted(p) == proposal[p] # NoProposal /\ proposal[p].status = "ACCEPTED"
PairedOnce ==
    \A p, q \in Proposals :
        Accepted(p) /\ Accepted(q) /\ proposal[p].pair \cap proposal[q].pair # {} => p = q
PairedOnceUnlessCrossed == ~crossed => PairedOnce

CONSTANTS alice, bob, carol

\* One request of each of up to three players who suit each other; alice and
\* carol would rather play each other, being on one platform.
Players ==
    [r \in Requests |->
        [owner |-> r, pool |-> "pool", scope |-> "CROSSPLAY_GROUP",
         platform |-> IF r = bob THEN "pc" ELSE "console",
         language |-> "ANY", region |-> "ANY"]]

Interchangeable ==
    Permutations({alice, carol}) \cup Permutations(Proposals) \cup Permutations(Handlers)
=============================================================================
