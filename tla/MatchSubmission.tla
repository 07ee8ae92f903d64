--------------------------- MODULE MatchSubmission ---------------------------
(***************************************************************************)
(* The claims of the two participants on the result of a running match     *)
(* (PrismaMatchResultRepository of packages/matches), transaction by       *)
(* transaction, and the disputes that may replace the result afterwards    *)
(* (PrismaMatchDisputeRepository).                                         *)
(*                                                                         *)
(* submit and withdraw first read the match, then its claims (a nested     *)
(* select is a statement of its own), and then write; the writes up to     *)
(* COMMIT are one step.  Their updates of the match compare its version    *)
(* but go on when it has changed.  The other transactions on the claims    *)
(* fail when the version has changed, and are one step.  The resolution of *)
(* a dispute overwrites result and match by their ids alone, in one step.  *)
(*                                                                         *)
(* Every step is one that MatchOutcome allows.                             *)
(***************************************************************************)
EXTENDS Integers

CONSTANTS
    Participants,
    Rows,           \* match_result_submissions that can be inserted
    Payloads,       \* canonical results: scores and an outcome
    DeriveOutcome,       \* the winner of each payload, or "DRAW": deriveOutcome
    Handlers,       \* concurrent request handlers
    NoRow,
    NoResult,
    NoCall,         \* "the handler is serving nothing"
    MaxVersion      \* disputes are opened below this version of the match

ASSUME ParticipantsAssumption ==
    /\ \E p, q \in Participants : p # q /\ Participants = {p, q}
    /\ Participants \cap {"DRAW", "NONE", "CONFLICT", "VOIDED"} = {}
ASSUME DeriveOutcomeAssumption == DeriveOutcome \in [Payloads -> Participants \cup {"DRAW"}]
ASSUME MaxVersionAssumption == MaxVersion \in Nat
ASSUME NoRowAssumption == NoRow \notin Rows

Statuses == {"IN_PROGRESS", "AWAITING_RESULT", "RESULT_CONFLICT", "COMPLETED", "VOIDED"}
Submittable == {"IN_PROGRESS", "AWAITING_RESULT"}
Submissions ==
    [by : Participants, payload : Payloads,
     status : {"ACTIVE", "SUPERSEDED", "WITHDRAWN", "CONFIRMED", "CONFLICTING"}]
Verdicts == Participants \cup {"DRAW"}
\* noted: conflict_reason is set.
Conflict == [status |-> "CONFLICT", verdict |-> "NONE", noted |-> TRUE]
Decisive == [status : {"CONFIRMED", "ADMIN_RESOLVED"}, verdict : Verdicts, noted : {FALSE}]
Voided == [status : {"VOIDED"}, verdict : {"VOIDED"}, noted : BOOLEAN]
Results == Decisive \cup Voided \cup {Conflict}

ASSUME NoSubmissionAssumption == NoRow \notin Submissions /\ NoResult \notin Results

VARIABLES
    status,         \* matches.status
    version,        \* matches.version
    deadlinePassed, \* result_submission_deadline_at is in the past
    submission,     \* match_result_submissions
    result,         \* the match_results row
    disputed,       \* there is an active dispute
    resolvedLast,   \* the latest closed dispute has a resolved_at
    keysKept,       \* whether a stored payload keeps the order of its keys:
                    \* PostgreSQL's JSONB does not, other storage may
    pc, call        \* per handler: where its request is, and what it has read

matchVars == <<status, version, deadlinePassed>>
disputeVars == <<disputed, resolvedLast>>
vars == <<matchVars, submission, result, disputeVars, keysKept, pc, call>>

Submitting == {"submit", "submitting"}
Withdrawing == {"checked", "withdraw", "withdrawing"}
Running == Submitting \cup Withdrawing
Steps == Running \cup {"idle"}

-----------------------------------------------------------------------------
(* Slips that the properties at the end must tell from the definitions      *)
(* below; no definition uses them.                                         *)

AnyClaimAgrees(stored, claim) == TRUE                       \* for SameCanonicalResult
Oneself(p) == p                                             \* for Opponent
ResultReplaced == TRUE                                      \* for ResultFree
AnyStatusExpires == TRUE                                    \* for Expirable
AdvanceAnyway(read, next) == status' = next /\ version' = version + 1  \* for AdvanceIfCurrent

-----------------------------------------------------------------------------
Active(p) == {r \in Rows : submission[r] # NoRow /\ submission[r].by = p
                                                 /\ submission[r].status = "ACTIVE"}
TheActive(p) == IF Active(p) = {} THEN NoRow ELSE CHOOSE r \in Active(p) : TRUE
Opponent(p) == CHOOSE q \in Participants : q # p

\* JSON.stringify of a stored payload and of a new one.
SameCanonicalResult(stored, claim) == keysKept /\ stored = claim

\* The unique index on match_results.match_id.
ResultFree == result = NoResult

\* match_result_submissions_timestamp_check: a withdrawn row cannot become
\* superseded, nor a superseded one withdrawn.
Supersedable(r) == r # NoRow => submission[r].status # "WITHDRAWN"
Withdrawable(r) == submission[r].status # "SUPERSEDED"

Expirable == status \in Submittable

Become(h, step, read) ==
    /\ pc' = [pc EXCEPT ![h] = step]
    /\ call' = [call EXCEPT ![h] = read]

Done(h) == Become(h, "idle", NoCall)

Verdict(kind, payload) == [status |-> kind, verdict |-> DeriveOutcome[payload], noted |-> FALSE]

\* Just after MatchStartService.start.
Init ==
    /\ status = "IN_PROGRESS" /\ version = 1 /\ deadlinePassed = FALSE
    /\ submission = [r \in Rows |-> NoRow]
    /\ result = NoResult
    /\ disputed = FALSE /\ resolvedLast = FALSE
    /\ keysKept \in BOOLEAN
    /\ pc = [h \in Handlers |-> "idle"]
    /\ call = [h \in Handlers |-> NoCall]

-----------------------------------------------------------------------------
PassDeadline ==
    /\ ~deadlinePassed
    /\ deadlinePassed' = TRUE
    /\ UNCHANGED <<status, version, submission, result, pc, call>>

Advance(next) == status' = next /\ version' = version + 1

\* updateMany with the version that was read; the count is not looked at.
AdvanceIfCurrent(read, next) ==
    IF version = read THEN Advance(next) ELSE UNCHANGED <<status, version>>

SubmitMatchRead(h, p, claim) ==
    /\ pc[h] = "idle"
    /\ status \in Submittable /\ ~deadlinePassed
    /\ Become(h, "submit", [by |-> p, claim |-> claim, version |-> version,
                            mine |-> NoRow, theirs |-> NoRow])
    /\ UNCHANGED <<matchVars, submission, result>>

SubmitClaimsRead(h) ==
    LET c == call[h]
        mine == TheActive(c.by)
    IN /\ pc[h] = "submit"
       /\ IF mine # NoRow /\ SameCanonicalResult(submission[mine].payload, c.claim)
            THEN Done(h)
            ELSE Become(h, "submitting",
                        [c EXCEPT !.mine = mine, !.theirs = TheActive(Opponent(c.by))])
       /\ UNCHANGED <<matchVars, submission, result>>

\* The claims after a submission in row r: its predecessor superseded.
Claimed(c, r) ==
    [s \in Rows |->
        IF s = r THEN [by |-> c.by, payload |-> c.claim, status |-> "ACTIVE"]
        ELSE IF s = c.mine THEN [submission[s] EXCEPT !.status = "SUPERSEDED"]
        ELSE submission[s]]

\* Claims that are ACTIVE become decided, except one that was committed after
\* the statement that decides them took its snapshot.
Decided(claims, missed, decision) ==
    [s \in Rows |->
        IF claims[s] # NoRow /\ claims[s].status = "ACTIVE" /\ s \notin missed
          THEN [claims[s] EXCEPT !.status = decision] ELSE claims[s]]

\* The first claim.
ClaimFirst(h, r) ==
    LET c == call[h]
    IN /\ c.theirs = NoRow
       /\ submission' = Claimed(c, r)
       /\ AdvanceIfCurrent(c.version, "AWAITING_RESULT")
       /\ UNCHANGED result

\* The second claim: it is compared with the claim that was read, and the
\* match is updated whatever its status.
ClaimSecond(h, r) ==
    LET c == call[h]
        agreed == SameCanonicalResult(submission[c.theirs].payload, c.claim)
        recent == Active(Opponent(c.by)) \ {c.theirs}
    IN /\ c.theirs # NoRow
       /\ ResultFree
       /\ \E missed \in SUBSET recent :
            submission' = Decided(Claimed(c, r), missed,
                                  IF agreed THEN "CONFIRMED" ELSE "CONFLICTING")
       /\ result' = IF agreed THEN Verdict("CONFIRMED", c.claim) ELSE Conflict
       /\ Advance(IF agreed THEN "COMPLETED" ELSE "RESULT_CONFLICT")

SubmitWrite(h) ==
    /\ pc[h] = "submitting"
    /\ Supersedable(call[h].mine) /\ Active(call[h].by) \ {call[h].mine} = {}
    /\ \E r \in Rows : submission[r] = NoRow /\ (ClaimFirst(h, r) \/ ClaimSecond(h, r))
    /\ Done(h)
    /\ UNCHANGED deadlinePassed

\* Before the transaction: the match has no result and no claim of the
\* opponent, not even an old one.
WithdrawCheck(h, p) ==
    /\ pc[h] = "idle"
    /\ ResultFree
    /\ \A r \in Rows : submission[r] # NoRow => submission[r].by = p
    /\ Become(h, "checked", [by |-> p, version |-> 0, mine |-> NoRow])
    /\ UNCHANGED <<matchVars, submission, result>>

WithdrawMatchRead(h) ==
    /\ pc[h] = "checked"
    /\ status = "AWAITING_RESULT"
    /\ Become(h, "withdraw", [call[h] EXCEPT !.version = version])
    /\ UNCHANGED <<matchVars, submission, result>>

WithdrawClaimsRead(h) ==
    LET c == call[h]
    IN /\ pc[h] = "withdraw"
       /\ IF Active(Opponent(c.by)) # {} \/ Active(c.by) = {}
            THEN Done(h)
            ELSE Become(h, "withdrawing", [c EXCEPT !.mine = TheActive(c.by)])
       /\ UNCHANGED <<matchVars, submission, result>>

WithdrawWrite(h) ==
    LET c == call[h]
    IN /\ pc[h] = "withdrawing"
       /\ Withdrawable(c.mine)
       /\ submission' = [submission EXCEPT ![c.mine].status = "WITHDRAWN"]
       /\ AdvanceIfCurrent(c.version, "IN_PROGRESS")
       /\ Done(h)
       /\ UNCHANGED <<deadlinePassed, result>>

\* No claim voids the match, a lone claim makes a conflict.
Expire ==
    /\ Expirable /\ deadlinePassed
    /\ IF \A p \in Participants : Active(p) = {}
         THEN Advance("VOIDED") /\ UNCHANGED <<submission, result>>
         ELSE /\ ResultFree
              /\ Advance("RESULT_CONFLICT")
              /\ result' = Conflict
              /\ submission' = Decided(submission, {}, "CONFLICTING")
    /\ UNCHANGED <<deadlinePassed, pc, call>>

Resolve(payload) ==
    /\ status = "RESULT_CONFLICT"
    /\ Advance("COMPLETED")
    /\ result' = Verdict("ADMIN_RESOLVED", payload)
    /\ UNCHANGED <<deadlinePassed, submission, pc, call>>

VoidMatch ==
    /\ status \in Submittable \cup {"RESULT_CONFLICT"}
    /\ Advance("VOIDED")
    /\ UNCHANGED <<deadlinePassed, submission, result, pc, call>>

\* The insert of a dispute; the service saw the match COMPLETED or in
\* RESULT_CONFLICT some time before, so there is a result.
OpenDispute ==
    /\ ~disputed /\ result # NoResult /\ version < MaxVersion
    /\ disputed' = TRUE
    /\ UNCHANGED <<matchVars, submission, result, resolvedLast, pc, call>>

CancelDispute ==
    /\ disputed
    /\ disputed' = FALSE /\ resolvedLast' = FALSE
    /\ UNCHANGED <<matchVars, submission, result, pc, call>>

\* CORRECT_RESULT keeps the conflict reason, which match_results_outcome_check
\* refuses next to a verdict.
CorrectResult(payload) ==
    /\ ~result.noted
    /\ result' = Verdict("ADMIN_RESOLVED", payload)
    /\ Advance("COMPLETED")

VoidResult ==
    /\ result' = [result EXCEPT !.status = "VOIDED", !.verdict = "VOIDED"]
    /\ Advance("VOIDED")

\* UPHOLD_RESULT and REJECT_DISPUTE leave the match alone.
ResolveDispute ==
    /\ disputed /\ result # NoResult
    /\ disputed' = FALSE /\ resolvedLast' = TRUE
    /\ \/ UNCHANGED <<status, version, result>>
       \/ \E payload \in Payloads : CorrectResult(payload)
       \/ VoidResult
    /\ UNCHANGED <<deadlinePassed, submission, pc, call>>

\* A constraint, a deadlock, a timeout or a crash rolls the request back.
Abort(h) ==
    /\ pc[h] \in Running
    /\ Done(h)
    /\ UNCHANGED <<matchVars, submission, result>>

ClaimStep ==
    \/ PassDeadline \/ Expire \/ VoidMatch
    \/ \E payload \in Payloads : Resolve(payload)
    \/ \E h \in Handlers :
         \/ \E p \in Participants, claim \in Payloads : SubmitMatchRead(h, p, claim)
         \/ SubmitClaimsRead(h) \/ SubmitWrite(h)
         \/ \E p \in Participants : WithdrawCheck(h, p)
         \/ WithdrawMatchRead(h) \/ WithdrawClaimsRead(h) \/ WithdrawWrite(h)
         \/ Abort(h)

DisputeStep == OpenDispute \/ CancelDispute \/ ResolveDispute

Next ==
    /\ \/ ClaimStep /\ UNCHANGED disputeVars
       \/ DisputeStep
    /\ UNCHANGED keysKept

Spec == Init /\ [][Next]_vars

-----------------------------------------------------------------------------
Calls(step) ==
    LET rows == Rows \cup {NoRow}
    IN CASE step \in Submitting ->
              [by : Participants, claim : Payloads, version : Nat, mine : rows, theirs : rows]
         [] step \in Withdrawing ->
              [by : Participants, version : Nat, mine : rows]
         [] OTHER -> {NoCall}

\* The columns have their types, and a participant has at most one ACTIVE
\* claim.
TypeOK ==
    /\ status \in Statuses /\ version \in Nat /\ deadlinePassed \in BOOLEAN
    /\ submission \in [Rows -> Submissions \cup {NoRow}]
    /\ result \in Results \cup {NoResult}
    /\ {disputed, resolvedLast, keysKept} \subseteq BOOLEAN
    /\ pc \in [Handlers -> Steps]
    /\ DOMAIN call = Handlers /\ \A h \in Handlers : call[h] \in Calls(pc[h])
    /\ \A p \in Participants : \A r, s \in Active(p) : r = s

\* Of conflicting claims, "neither side is selected as winner": a confirmed
\* result was claimed by both participants, with the same scores.
ConfirmedByBoth ==
    result # NoResult /\ result.status = "CONFIRMED" =>
        \E payload \in Payloads :
            /\ result.verdict = DeriveOutcome[payload]
            /\ \A p \in Participants : \E r \in Rows :
                 submission[r] # NoRow /\ submission[r].by = p /\ submission[r].payload = payload

\* The status of the match and its result never contradict each other: a
\* match is COMPLETED exactly with a verdict, in conflict exactly over one;
\* expiry and administrators void no decided match, and a dispute that does
\* voids its result with it.
StatusFollowsResult ==
    /\ result = NoResult => status \in Submittable \cup {"VOIDED"}
    /\ result = Conflict => status \in {"RESULT_CONFLICT", "VOIDED"}
    /\ result \in Decisive => status = "COMPLETED"
    /\ result \in Voided => status = "VOIDED"

\* A verdict stands whatever claims, expiry and administrators do late: only
\* an administrator's verdict replaces a conflict, and only the resolution of
\* a dispute replaces anything else.
VerdictStands ==
    [][result # NoResult /\ result' # result =>
         \/ result = Conflict /\ result'.status = "ADMIN_RESOLVED"
         \/ disputed /\ ~disputed']_vars

\* Every step is one the finance of the match reckons with.
Outcome == INSTANCE MatchOutcome WITH
    status <- IF status = "AWAITING_RESULT" THEN "IN_PROGRESS" ELSE status,
    readied <- Participants,
    deadlinePassed <- TRUE,
    result <- IF result = NoResult THEN "NONE"
              ELSE IF result = Conflict THEN "CONFLICT" ELSE result.verdict,
    submitting <- \E h \in Handlers : pc[h] \in Submitting,
    conflictNoted <- result # NoResult /\ result.noted,
    delayElapsed <- FALSE
OutcomeAllowed == [][Outcome!OutcomeNext]_(Outcome!outcomeVars)

\* "Matching submissions auto-confirm and complete the Match": with no
\* request running, claims that stand and match have decided the match.
MatchingClaimsConfirm ==
    /\ \A h \in Handlers : pc[h] = "idle"
    /\ status # "VOIDED"
    /\ \E payload \in Payloads : \A p \in Participants : \E r \in Rows :
         /\ submission[r] # NoRow /\ submission[r].by = p
         /\ submission[r].payload = payload
         /\ submission[r].status \in {"ACTIVE", "CONFLICTING"}
    => result # NoResult /\ result # Conflict
=============================================================================
