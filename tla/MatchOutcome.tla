---------------------------- MODULE MatchOutcome ----------------------------
(***************************************************************************)
(* What the money of a match depends on: the status, result and disputes   *)
(* of one match (packages/matches), as its committed transactions leave    *)
(* them.  Each action is one transaction.  Transactions that the code      *)
(* guards with the match version or status are one step; submit reads the  *)
(* match and later overwrites its status, so it takes two.                 *)
(*                                                                         *)
(* IN_PROGRESS also stands for AWAITING_RESULT, and an active dispute for   *)
(* OPEN, AWAITING_RESPONSE and UNDER_REVIEW.                               *)
(***************************************************************************)
EXTENDS FiniteSets

CONSTANT Participants   \* of the match; the code requires two

Verdicts == Participants \cup {"DRAW"}
Statuses == {"AWAITING_READY", "READY", "IN_PROGRESS", "RESULT_CONFLICT",
             "COMPLETED", "CANCELLED", "EXPIRED", "VOIDED"}

ASSUME ParticipantsAssumption ==
    /\ IsFiniteSet(Participants)
    /\ Participants \cap {"DRAW", "NONE", "CONFLICT", "VOIDED"} = {}

VARIABLES
    status,          \* matches.status
    readied,         \* participants that are READY
    deadlinePassed,  \* ready_deadline_at is in the past
    result,          \* match_results: no row, CONFLICT, VOIDED, or a final verdict
    submitting,      \* a submission has read the match and not yet written it
    conflictNoted,   \* match_results.conflict_reason is set
    delayElapsed,    \* the settlement delay since completed_at has passed
    disputed,        \* there is an active dispute
    resolvedLast     \* the latest closed dispute has a resolved_at

outcomeVars == <<status, readied, deadlinePassed, result, submitting,
                 conflictNoted, delayElapsed, disputed, resolvedLast>>

resultVars == <<result, conflictNoted, submitting>>
disputeVars == <<disputed, resolvedLast>>

OutcomeInit ==
    /\ status = "AWAITING_READY"
    /\ readied = {}
    /\ result = "NONE"
    /\ deadlinePassed = FALSE /\ submitting = FALSE /\ conflictNoted = FALSE
    /\ delayElapsed = FALSE /\ disputed = FALSE /\ resolvedLast = FALSE

OutcomeTypeOK ==
    /\ status \in Statuses
    /\ readied \subseteq Participants
    /\ result \in Verdicts \cup {"NONE", "CONFLICT", "VOIDED"}
    /\ {deadlinePassed, submitting, conflictNoted, delayElapsed, disputed, resolvedLast}
         \subseteq BOOLEAN

-----------------------------------------------------------------------------
PassDeadline ==
    /\ ~deadlinePassed
    /\ deadlinePassed' = TRUE
    /\ UNCHANGED <<status, readied, resultVars, delayElapsed, disputeVars>>

PassDelay ==
    /\ status = "COMPLETED" /\ ~delayElapsed
    /\ delayElapsed' = TRUE
    /\ UNCHANGED <<status, readied, deadlinePassed, resultVars, disputeVars>>

MarkReady(p) ==
    /\ status = "AWAITING_READY" /\ ~deadlinePassed /\ p \notin readied
    /\ readied' = readied \cup {p}
    /\ status' = IF readied' = Participants THEN "READY" ELSE status
    /\ UNCHANGED <<deadlinePassed, resultVars, delayElapsed, disputeVars>>

EndAs(end) ==
    /\ status' = end
    /\ UNCHANGED <<readied, deadlinePassed, resultVars, delayElapsed, disputeVars>>

Cancel == status = "AWAITING_READY" /\ EndAs("CANCELLED")

\* A READY match does not expire.
ExpireUnready == status = "AWAITING_READY" /\ deadlinePassed /\ EndAs("EXPIRED")

VoidMatch ==
    /\ status \in {"AWAITING_READY", "READY", "IN_PROGRESS", "RESULT_CONFLICT"}
    /\ EndAs("VOIDED")

BeginPlay ==
    /\ status = "READY"
    /\ status' = "IN_PROGRESS"
    /\ UNCHANGED <<readied, deadlinePassed, resultVars, delayElapsed, disputeVars>>

\* A submission reads the match and the opponent's claim ...
SubmitRead ==
    /\ status = "IN_PROGRESS" /\ ~submitting
    /\ submitting' = TRUE
    /\ UNCHANGED <<status, readied, deadlinePassed, result, conflictNoted, delayElapsed,
                   disputeVars>>

\* ... and stores the result, overwriting whatever the status is by then; or
\* it leaves the match as it is: it is the first claim, it fails because a
\* result is stored already, or it is given up.  Another may still be running.
SubmitWrite(outcome) ==
    /\ submitting
    /\ submitting' \in BOOLEAN
    /\ \/ /\ result = "NONE"
          /\ result' = outcome
          /\ conflictNoted' = (outcome = "CONFLICT")
          /\ status' = IF outcome = "CONFLICT" THEN "RESULT_CONFLICT" ELSE "COMPLETED"
       \/ UNCHANGED <<result, conflictNoted, status>>
    /\ UNCHANGED <<readied, deadlinePassed, delayElapsed, disputeVars>>

\* The submission deadline passes with no claim, or with one.
ExpireSubmissions ==
    /\ status = "IN_PROGRESS"
    /\ \/ status' = "VOIDED" /\ UNCHANGED <<result, conflictNoted>>
       \/ /\ result = "NONE"
          /\ status' = "RESULT_CONFLICT" /\ result' = "CONFLICT" /\ conflictNoted' = TRUE
    /\ UNCHANGED <<readied, deadlinePassed, submitting, delayElapsed, disputeVars>>

\* An administrator decides a conflict.
ResolveConflict(verdict) ==
    /\ status = "RESULT_CONFLICT"
    /\ status' = "COMPLETED" /\ result' = verdict /\ conflictNoted' = FALSE
    /\ UNCHANGED <<readied, deadlinePassed, submitting, delayElapsed, disputeVars>>

\* The insert of a dispute; its caller checked the match some time before.
OpenDispute ==
    /\ ~disputed
    /\ disputed' = TRUE
    /\ UNCHANGED <<status, readied, deadlinePassed, resultVars, delayElapsed, resolvedLast>>

CancelDispute ==
    /\ disputed
    /\ disputed' = FALSE /\ resolvedLast' = FALSE
    /\ UNCHANGED <<status, readied, deadlinePassed, resultVars, delayElapsed>>

\* UPHOLD_RESULT and REJECT_DISPUTE leave the match alone; CORRECT_RESULT and
\* VOID_MATCH overwrite its status, whatever it is.  CORRECT_RESULT keeps the
\* conflict reason, which match_results_outcome_check refuses.
ResolveDispute(resolution) ==
    /\ disputed
    /\ disputed' = FALSE /\ resolvedLast' = TRUE
    /\ \/ resolution = "KEEP" /\ UNCHANGED <<status, result, delayElapsed>>
       \/ /\ resolution = "VOIDED"
          /\ status' = "VOIDED" /\ result' = "VOIDED" /\ UNCHANGED delayElapsed
       \/ /\ resolution \in Verdicts /\ ~conflictNoted
          /\ status' = "COMPLETED" /\ result' = resolution /\ delayElapsed' = FALSE
    /\ UNCHANGED <<readied, deadlinePassed, conflictNoted, submitting>>

\* Everything but MarkReady, BeginPlay, ResolveConflict and OpenDispute, which
\* need more than the match.
OutcomeStep ==
    \/ PassDeadline \/ PassDelay
    \/ Cancel \/ ExpireUnready \/ VoidMatch
    \/ SubmitRead
    \/ \E outcome \in Verdicts \cup {"CONFLICT"} : SubmitWrite(outcome)
    \/ ExpireSubmissions
    \/ CancelDispute
    \/ \E resolution \in Verdicts \cup {"KEEP", "VOIDED"} : ResolveDispute(resolution)

OutcomeNext ==
    \/ OutcomeStep
    \/ BeginPlay \/ OpenDispute
    \/ \E p \in Participants : MarkReady(p)
    \/ \E verdict \in Verdicts : ResolveConflict(verdict)
=============================================================================
