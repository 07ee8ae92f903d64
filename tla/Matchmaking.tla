----------------------------- MODULE Matchmaking -----------------------------
(***************************************************************************)
(* Requests for an opponent, proposals for pairs of them, and the match    *)
(* that an accepted proposal becomes (packages/matchmaking, and            *)
(* MatchCreationService of packages/matches).                              *)
(*                                                                         *)
(* An operation is its reads, one step, and its writes from the first      *)
(* update to COMMIT, another.  Writes that compare a version with the one  *)
(* read in the same transaction are one step with that read: were the row  *)
(* to change in between, they would do nothing.  The updates of a proposal *)
(* name it by its id alone, so everything read before them may be stale.   *)
(***************************************************************************)
EXTENDS Integers, FiniteSets

CONSTANTS
    Requests,       \* matchmaking_requests that can be inserted
    Proposals,      \* matchmaking_proposals that can be inserted
    Profile,        \* of each request: its owner and what it asks for
    Handlers,       \* concurrent request handlers
    MaxLapses,      \* a bound: the expiries that pass while they matter
    NoProposal,
    NoCall          \* "the handler is serving nothing"

Active == {"PENDING", "SEARCHING", "PROPOSED"}
Over == {"MATCHED", "CANCELLED", "EXPIRED"}
Pairs == {pair \in SUBSET Requests : Cardinality(pair) = 2}
ProposalRows ==
    {row \in [pair : Pairs, accepted : SUBSET Requests,
              status : {"PENDING", "ACCEPTED", "REJECTED", "EXPIRED", "CANCELLED"}] :
        row.accepted \subseteq row.pair}

ASSUME MaxLapsesAssumption == MaxLapses \in Nat
ASSUME ProfileAssumption == DOMAIN Profile = Requests
ASSUME NoProposalAssumption == NoProposal \notin ProposalRows

VARIABLES
    request,    \* matchmaking_requests.status
    proposal,   \* matchmaking_proposals
    lapsed,     \* the requests and proposals whose expires_at has passed
    match,      \* the proposals that have a match
    consented,  \* history: whose acceptance of what has been stored
    pc, call    \* per handler: where its request is, and what it has read

vars == <<request, proposal, lapsed, match, consented, pc, call>>

-----------------------------------------------------------------------------
(* Slips that the properties at the end must tell from the definitions      *)
(* below; no definition uses them.                                         *)

AcceptableWhenOver(p) == p \notin lapsed                         \* for Acceptable
EitherAccepts(pair, accepted) == accepted # {}                   \* for Complete
RestoredWhatever(pair, late) ==                                  \* for Restored
    [r \in Requests |->
        IF r \in pair THEN IF r \in late THEN "EXPIRED" ELSE "SEARCHING" ELSE request[r]]
OnlyUnexpiredRestored(pair, late) ==                             \* for Restored
    [r \in Requests |->
        IF r \in pair \ late /\ request[r] = "PROPOSED" THEN "SEARCHING" ELSE request[r]]

-----------------------------------------------------------------------------
\* evaluateCompatibility, without the status, expiry and active proposals.
Compatible(left, right) ==
    /\ left.owner # right.owner
    /\ left.pool = right.pool       \* game, mode, ruleset and crossplay group
    /\ "SAME_PLATFORM" \in {left.scope, right.scope} => left.platform = right.platform
    /\ \A wish \in {"language", "region"} :
           "ANY" \in {left[wish], right[wish]} \/ left[wish] = right[wish]

Score(left, right) ==
    LET bonus(wish, points) == IF left[wish] # "ANY" /\ left[wish] = right[wish]
                                 THEN points ELSE 0
    IN 100 + bonus("language", 10) + bonus("region", 5) + bonus("platform", 3)

Holds(p, r) == proposal[p] # NoProposal /\ r \in proposal[p].pair
PendingWith(r) == {p \in Proposals : Holds(p, r) /\ proposal[p].status = "PENDING"}

\* The trigger matchmaking_proposals_one_active_request_trigger.
ProposalFree(pair) == \A r \in pair : PendingWith(r) = {}

Searching(r) == request[r] = "SEARCHING" /\ r \notin lapsed

Candidates(r) ==
    {c \in Requests \ {r} : /\ Searching(c) /\ Searching(r)
                            /\ Compatible(Profile[r], Profile[c])
                            /\ ProposalFree({r, c})}

Become(h, step, read) ==
    /\ pc' = [pc EXCEPT ![h] = step]
    /\ call' = [call EXCEPT ![h] = read]

Done(h) == Become(h, "idle", NoCall)

Init ==
    /\ request = [r \in Requests |-> "NEW"]
    /\ proposal = [p \in Proposals |-> NoProposal]
    /\ lapsed = {} /\ match = {} /\ consented = {}
    /\ pc = [h \in Handlers |-> "idle"]
    /\ call = [h \in Handlers |-> NoCall]

-----------------------------------------------------------------------------
\* The clock.  An expiry matters as long as the request or proposal is open.
Lapse ==
    /\ Cardinality(lapsed) < MaxLapses
    /\ \/ \E r \in Requests : request[r] \in Active /\ lapsed' = lapsed \cup {r}
       \/ \E p \in Proposals : /\ proposal[p] # NoProposal /\ proposal[p].status = "PENDING"
                               /\ lapsed' = lapsed \cup {p}
    /\ UNCHANGED <<request, proposal, match, consented, pc, call>>

\* The owner has no active request, as matchmaking_requests_one_active_user_key
\* demands.
CreateRequest(h, r) ==
    /\ pc[h] = "idle"
    /\ request[r] = "NEW"
    /\ \A q \in Requests : Profile[q].owner = Profile[r].owner => request[q] \notin Active
    /\ request' = [request EXCEPT ![r] = "PENDING"]
    /\ Become(h, "created", r)
    /\ UNCHANGED <<proposal, lapsed, match, consented>>

\* transitionRequest: the version is that of the insertion, or a conflict.
BeginSearch(h) ==
    /\ pc[h] = "created"
    /\ IF request[call[h]] = "PENDING"
         THEN /\ request' = [request EXCEPT ![call[h]] = "SEARCHING"]
              /\ Become(h, "search", call[h])
         ELSE Done(h) /\ UNCHANGED request
    /\ UNCHANGED <<proposal, lapsed, match, consented>>

FindBestCandidate(h) ==
    LET r == call[h]
        score(c) == Score(Profile[r], Profile[c])
    IN /\ pc[h] = "search"
       /\ \/ Candidates(r) = {} /\ Done(h)
          \/ \E c \in Candidates(r) :
                 /\ \A other \in Candidates(r) : score(other) =< score(c)
                 /\ Become(h, "propose", {r, c})
       /\ UNCHANGED <<request, proposal, lapsed, match, consented>>

\* createProposalForPair, with the second look at both requests.
CreateProposal(h) ==
    LET pair == call[h]
    IN /\ pc[h] = "propose"
       /\ Done(h)
       /\ IF (\A r \in pair : Searching(r)) /\ ProposalFree(pair)
            THEN \E p \in Proposals :
                     /\ proposal[p] = NoProposal
                     /\ proposal' = [proposal EXCEPT ![p] =
                            [pair |-> pair, accepted |-> {}, status |-> "PENDING"]]
                     /\ request' = [r \in Requests |->
                            IF r \in pair THEN "PROPOSED" ELSE request[r]]
            ELSE UNCHANGED <<request, proposal>>
       /\ UNCHANGED <<lapsed, match, consented>>

-----------------------------------------------------------------------------
Acceptable(p) == proposal[p].status = "PENDING" /\ p \notin lapsed

\* The owner of r accepts: what acceptProposal goes by.  Having accepted
\* before, the answer is the proposal as it is.
AcceptRead(h, p, r) ==
    /\ pc[h] = "idle"
    /\ Holds(p, r)
    /\ \/ /\ r \in proposal[p].accepted
          /\ proposal[p].status = "ACCEPTED"
          /\ Become(h, "accepted", p)
       \/ /\ r \notin proposal[p].accepted
          /\ Acceptable(p)
          /\ Become(h, "accept", [proposal |-> p, by |-> r,
                                accepted |-> proposal[p].accepted \cup {r}])
    /\ UNCHANGED <<request, proposal, lapsed, match, consented>>

Complete(pair, accepted) == accepted = pair
Bound(pair) ==
    [r \in Requests |-> IF r \in pair /\ request[r] = "PROPOSED" THEN "MATCHED" ELSE request[r]]

\* Both acceptance columns are written as they were read.
Accepting(h) == [proposal EXCEPT ![call[h].proposal].accepted = call[h].accepted]
Consenting(h) == consented \cup {<<call[h].proposal, call[h].by>>}

\* The acceptance that completes the proposal binds both requests.
AcceptLast(h) ==
    LET p == call[h].proposal
    IN /\ pc[h] = "accept"
       /\ Complete(proposal[p].pair, call[h].accepted)
       /\ proposal' = [Accepting(h) EXCEPT ![p].status = "ACCEPTED"]
       /\ request' = Bound(proposal[p].pair)
       /\ consented' = Consenting(h)
       /\ Become(h, "accepted", p)
       /\ UNCHANGED <<lapsed, match>>

\* matchmaking_proposals_acceptance_check keeps an accepted proposal from
\* losing an acceptance.
AcceptFirst(h) ==
    LET p == call[h].proposal
    IN /\ pc[h] = "accept"
       /\ ~Complete(proposal[p].pair, call[h].accepted)
       /\ \/ /\ proposal[p].status # "ACCEPTED"
             /\ proposal' = Accepting(h)
             /\ consented' = Consenting(h)
          \/ /\ proposal[p].status = "ACCEPTED"
             /\ UNCHANGED <<proposal, consented>>
       /\ Done(h)
       /\ UNCHANGED <<request, lapsed, match>>

\* A rejection, or the expiry of a proposal.  late are the requests that are
\* past the time of the operation.
FinishRead(h, p, outcome) ==
    /\ pc[h] = "idle"
    /\ proposal[p] # NoProposal /\ proposal[p].status = "PENDING"
    /\ outcome = "EXPIRED" => p \in lapsed
    /\ Become(h, "finish", [proposal |-> p, outcome |-> outcome,
                            late |-> lapsed \cap proposal[p].pair])
    /\ UNCHANGED <<request, proposal, lapsed, match, consented>>

Restored(pair, late) ==
    [r \in Requests |->
        IF r \in pair /\ request[r] = "PROPOSED"
          THEN IF r \in late THEN "EXPIRED" ELSE "SEARCHING" ELSE request[r]]

FinishWrite(h) ==
    LET p == call[h].proposal
    IN /\ pc[h] = "finish"
       /\ proposal' = [proposal EXCEPT ![p].status = call[h].outcome]
       /\ request' = Restored(proposal[p].pair, call[h].late)
       /\ Done(h)
       /\ UNCHANGED <<lapsed, match, consented>>

\* The owner of r cancels it, and with it the pending proposal found after it.
CancelRead(h, r) ==
    /\ pc[h] = "idle"
    /\ request[r] \in Active
    /\ Become(h, "cancelRequest", r)
    /\ UNCHANGED <<request, proposal, lapsed, match, consented>>

CancelFind(h) ==
    /\ pc[h] = "cancelRequest"
    /\ Become(h, "cancel", [request |-> call[h], proposals |-> PendingWith(call[h])])
    /\ UNCHANGED <<request, proposal, lapsed, match, consented>>

CancelWrite(h) ==
    LET mine == call[h].request
        others == (UNION {proposal[p].pair : p \in call[h].proposals}) \ {mine}
    IN /\ pc[h] = "cancel"
       /\ proposal' = [p \in Proposals |->
              IF p \in call[h].proposals THEN [proposal[p] EXCEPT !.status = "CANCELLED"]
                                         ELSE proposal[p]]
       /\ request' = [Restored(others, {}) EXCEPT ![mine] = "CANCELLED"]
       /\ Done(h)
       /\ UNCHANGED <<lapsed, match, consented>>

\* One guarded statement, over as many requests as its limit allows.
ExpireRequests ==
    /\ \E due \in SUBSET {r \in lapsed \cap Requests : request[r] \in {"PENDING", "SEARCHING"}} :
           request' = [r \in Requests |-> IF r \in due THEN "EXPIRED" ELSE request[r]]
    /\ UNCHANGED <<proposal, lapsed, match, consented, pc, call>>

-----------------------------------------------------------------------------
\* createMissingMatchesForAcceptedProposals takes up what a crash left.
RecoverMatch(h, p) ==
    /\ pc[h] = "idle"
    /\ proposal[p] # NoProposal /\ proposal[p].status = "ACCEPTED" /\ p \notin match
    /\ Become(h, "accepted", p)
    /\ UNCHANGED <<request, proposal, lapsed, match, consented>>

\* createMatchFromAcceptedProposal: look for the match, and at the proposal and its
\* requests, which buildSnapshots wants MATCHED; what else it refuses (an account that
\* is not verified any more, the ruleset) is not modelled and ends in Abort ...
CreateMatchRead(h) ==
    /\ pc[h] = "accepted"
    /\ IF /\ call[h] \notin match /\ proposal[call[h]].status = "ACCEPTED"
          /\ \A r \in proposal[call[h]].pair : request[r] = "MATCHED"
         THEN Become(h, "createMatch", call[h])
         ELSE Done(h)
    /\ UNCHANGED <<request, proposal, lapsed, match, consented>>

\* ... and insert it; matches_proposal_id_key refuses a second one.
CreateMatchWrite(h) ==
    /\ pc[h] = "createMatch"
    /\ match' = match \cup {call[h]}
    /\ Done(h)
    /\ UNCHANGED <<request, proposal, lapsed, consented>>

\* A handler that fails, or crashes, between its transactions or inside one.
Abort(h) ==
    /\ pc[h] # "idle"
    /\ Done(h)
    /\ UNCHANGED <<request, proposal, lapsed, match, consented>>

Handle(h) ==
    \/ \E r \in Requests : CreateRequest(h, r) \/ CancelRead(h, r)
    \/ BeginSearch(h) \/ FindBestCandidate(h) \/ CreateProposal(h)
    \/ \E p \in Proposals :
           \/ \E r \in Requests : AcceptRead(h, p, r)
           \/ \E outcome \in {"REJECTED", "EXPIRED"} : FinishRead(h, p, outcome)
           \/ RecoverMatch(h, p)
    \/ AcceptFirst(h) \/ AcceptLast(h) \/ FinishWrite(h)
    \/ CancelFind(h) \/ CancelWrite(h)
    \/ CreateMatchRead(h) \/ CreateMatchWrite(h)
    \/ Abort(h)

Next == Lapse \/ ExpireRequests \/ \E h \in Handlers : Handle(h)
Spec == Init /\ [][Next]_vars

-----------------------------------------------------------------------------
IsCall(step, c) ==
    \/ step = "idle" /\ c = NoCall
    \/ step \in {"created", "search", "cancelRequest"} /\ c \in Requests
    \/ step = "propose" /\ c \in Pairs
    \/ step = "accept" /\ c \in [proposal : Proposals, by : Requests, accepted : SUBSET Requests]
    \/ step = "finish" /\ c \in [proposal : Proposals, outcome : {"REJECTED", "EXPIRED"},
                                late : SUBSET Requests]
    \/ step = "cancel" /\ c \in [request : Requests, proposals : SUBSET Proposals]
    \/ step \in {"accepted", "createMatch"} /\ c \in Proposals

\* Every variable holds values of its type.
TypeOK ==
    /\ request \in [Requests -> {"NEW"} \cup Active \cup Over]
    /\ DOMAIN proposal = Proposals
    /\ \A p \in Proposals : proposal[p] \in ProposalRows \cup {NoProposal}
    /\ lapsed \subseteq Requests \cup Proposals
    /\ match \subseteq Proposals
    /\ consented \subseteq Proposals \X Requests
    /\ DOMAIN pc = Handlers /\ DOMAIN call = Handlers
    /\ \A h \in Handlers : IsCall(pc[h], call[h])

\* No request waits for an answer that cannot come: one that is PROPOSED, which
\* neither the search nor the expiry of requests looks at, is in a proposal
\* that can still be answered, rejected, expired or cancelled.
ProposedIsPending == \A r \in Requests : request[r] = "PROPOSED" => PendingWith(r) # {}

\* Both owners have accepted the proposal.
Agreed(p) == proposal[p] # NoProposal /\ \A r \in proposal[p].pair : <<p, r>> \in consented

\* Nobody plays without consent: a request is matched, and a match made, only for a
\* pair whose two owners have both accepted one proposal.
MatchedByConsent ==
    /\ \A r \in Requests : request[r] = "MATCHED" => \E p \in Proposals : Holds(p, r) /\ Agreed(p)
    /\ \A p \in match : Agreed(p)

\* A request that is over stays over: no late rejection, expiry, cancellation
\* or engine puts a matched, cancelled or expired request back in play.
OverStaysOver ==
    [][\A r \in Requests : request[r] \in Over => request'[r] \in Over]_vars
=============================================================================
