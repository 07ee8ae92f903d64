---------------------------- MODULE MCGameAccounts ----------------------------
(* Instances of GameAccounts for TLC, with the history of an account that    *)
(* changed its status, and not its version, under the eyes of a reviewer.    *)
EXTENDS GameAccounts, TLC

VARIABLE crossed  \* the accounts this happened to

MCInit == Init /\ crossed = {}

MCNext ==
    /\ Next
    /\ crossed' = crossed \cup {a \in Accounts : \E h \in Handlers :
           /\ pc[h] = "checked" /\ pc'[h] = "checked" /\ call[h].account = a
           /\ account'[a].status # account[a].status
           /\ account'[a].version = account[a].version}

MCSpec == MCInit /\ [][MCNext]_<<vars, crossed>>

\* "GAME_ACCOUNT_STATUS_TRANSITION_INVALID" (player-identity-policies.ts): an
\* account moves along the lifecycle of the policy, or as its owner may move it,
\* by an edit of a verified one or by a deletion and its restoration, unless it
\* changed between the check of a review and its writing.  In particular a
\* disconnected account does not come back.
LifecycleUnlessCrossed ==
    [][\A a \in Accounts :
           LET old == account[a]  new == account'[a] IN
           old # NoAccount /\ old.status # new.status =>
               \/ a \in crossed
               \/ old.deleted /\ ~new.deleted /\ new.status = "DRAFT"
               \/ new.status = "DISCONNECTED"
               \/ old.status \in {"DRAFT", "VERIFIED", "REJECTED", "CHANGES_REQUESTED"}
                  /\ new.status = "PENDING"
               \/ old.status = "PENDING"
                  /\ new.status \in {"VERIFIED", "REJECTED", "CHANGES_REQUESTED"}
               \/ {old.status, new.status} = {"VERIFIED", "SUSPENDED"}]_<<vars, crossed>>

Interchangeable ==
    Permutations(Accounts) \cup Permutations(Users) \cup Permutations(Platforms)
        \cup Permutations(Handles) \cup Permutations(Handlers)
=============================================================================
