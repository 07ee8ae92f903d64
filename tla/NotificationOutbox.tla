------------------------- MODULE NotificationOutbox -------------------------
(***************************************************************************)
(* Notifications and their delivery (packages/notifications): the outbox   *)
(* messages of an event, the leases of the deliverers that work on them,   *)
(* and the attempts they record.                                           *)
(*                                                                         *)
(* No statement of a delivery shares a transaction with another, so each   *)
(* is a step.  The version of a message is only ever compared with the one *)
(* a deliverer has read; what is kept of it is whether they still agree.   *)
(***************************************************************************)
EXTENDS Naturals, FiniteSets

CONSTANTS
    Events,             \* what a notification can be about; one recipient each
    Deliverers,         \* concurrent callers of the outbox and delivery services
    MaxAttempts,        \* policy: attempts before a failure is final
    MaxRetries,         \* a bound on the retries by an administrator
    MaxCrashes,         \* a bound on the deliverers that die at work
    NoTask              \* "the deliverer is doing nothing"

ASSUME BoundsAssumption ==
    MaxAttempts \in Nat \ {0} /\ MaxRetries \in Nat /\ MaxCrashes \in Nat
ASSUME NoTaskAssumption == NoTask \notin [message : Events \X {"IN_APP", "EMAIL"}]

Messages == Events \X {"IN_APP", "EMAIL"}
Channel(m) == m[2]
Outstanding == {"PENDING", "PROCESSING", "RETRY_SCHEDULED"}
Ended == {"DELIVERED", "DEAD_LETTERED", "CANCELLED"}
Outcomes == {"SUCCEEDED", "SKIPPED", "RETRYABLE_FAILURE", "PERMANENT_FAILURE"}
Numbers == 1..(MaxAttempts + MaxRetries)

VARIABLES
    notified,       \* the events that have a notification
    emailEnabled,   \* per event: its recipient wants e-mail about it
    status,         \* of each message; "ABSENT" when there is none
    due,            \* the messages whose available_at has come
    holder,         \* of each message in PROCESSING: who claimed it
    attemptCount,
    attempts,       \* notification_delivery_attempts: outcome by attempt number
    current,        \* the deliverers whose read of their message is up to date
    stage, task,    \* per deliverer: where it is, and its message, attempt, outcome
    retries, crashes

messageVars == <<notified, status, due, holder, attemptCount>>
bounds == <<retries, crashes>>
outboxVars == <<messageVars, emailEnabled, attempts, current, stage, task, bounds>>

-----------------------------------------------------------------------------
(* Slips that the properties at the end must tell from the definitions      *)
(* below; no definition uses them.                                         *)

AnyRead(d) == TRUE                                              \* for UpToDate
CountedRows(m) == Cardinality(DOMAIN attempts[m]) + 1           \* for NextNumber

-----------------------------------------------------------------------------
Due == {m \in due : status[m] \in {"PENDING", "RETRY_SCHEDULED"}}
Deliverable == Outstanding
Retried == {"DEAD_LETTERED", "CANCELLED"}       \* nothing ever becomes FAILED
Retryable(n) == n < MaxAttempts
NextNumber(m) == attemptCount[m] + 1

\* The unique index on the message and the number of an attempt.
NumberTaken(m, n) == n \in DOMAIN attempts[m]

\* The version read is the version stored.
UpToDate(d) == d \in current

\* Everybody else's read of the message is stale from now on.
Bump(m) == current' = {d \in current : task[d].message # m}

Proceed(d, step, c) ==
    /\ stage' = [stage EXCEPT ![d] = step]
    /\ task' = [task EXCEPT ![d] = c]

\* Return, or throw.
Stop(d) ==
    /\ Proceed(d, "idle", NoTask)
    /\ current' = current \ {d}

OutboxInit ==
    /\ notified = {}
    /\ emailEnabled \in [Events -> BOOLEAN]
    /\ status = [m \in Messages |-> "ABSENT"]
    /\ due = {}
    /\ holder = [m \in Messages |-> NoTask]
    /\ attemptCount = [m \in Messages |-> 0]
    /\ attempts = [m \in Messages |-> <<>>]
    /\ current = {}
    /\ stage = [d \in Deliverers |-> "idle"]
    /\ task = [d \in Deliverers |-> NoTask]
    /\ retries = 0 /\ crashes = 0

-----------------------------------------------------------------------------
\* NotificationService.create, called after the event by its integration hook
\* or by a recovery: a second one finds the first by its deduplication key or
\* runs into the unique index on it.  In-app is on.
CreateNotification(e) ==
    /\ e \notin notified
    /\ LET new == {<<e, "IN_APP">>} \cup (IF emailEnabled[e] THEN {<<e, "EMAIL">>} ELSE {})
       IN /\ status' = [m \in Messages |-> IF m \in new THEN "PENDING" ELSE status[m]]
          /\ due' = due \cup new
    /\ notified' = notified \cup {e}
    /\ UNCHANGED <<emailEnabled, holder, attemptCount, attempts, current, stage, task, bounds>>

UpdatePreference(e) ==
    /\ emailEnabled' = [emailEnabled EXCEPT ![e] = ~@]
    /\ UNCHANGED <<messageVars, attempts, current, stage, task, bounds>>

-----------------------------------------------------------------------------
\* claimPendingMessages: the list.
ListDue(d, m) ==
    /\ stage[d] = "idle"
    /\ m \in Due
    /\ Proceed(d, "claim", [message |-> m])
    /\ current' = current \cup {d}
    /\ UNCHANGED <<messageVars, emailEnabled, attempts, bounds>>

\* claimPendingMessages: the guarded update; one that hits no row is skipped.
Claim(d) ==
    LET m == task[d].message
    IN /\ stage[d] = "claim"
       /\ IF UpToDate(d)
            THEN /\ status' = [status EXCEPT ![m] = "PROCESSING"]
                 /\ holder' = [holder EXCEPT ![m] = d]
                 /\ Bump(m)
                 /\ Proceed(d, "claimed", task[d])
            ELSE Stop(d) /\ UNCHANGED <<status, holder>>
       /\ UNCHANGED <<notified, due, attemptCount, emailEnabled, attempts, bounds>>

\* deliverOutboxMessage up to the attempt or the e-mail.  It is given the id
\* only: the message may have been released or ended since the claim.
BeginDelivery(d) ==
    LET m == task[d].message
        n == NextNumber(m)
    IN /\ stage[d] = "claimed"
       /\ IF status[m] \notin Deliverable \/ m \notin due
            THEN Stop(d)
            ELSE /\ current' = current \cup {d}
                 /\ IF Channel(m) = "IN_APP"
                      THEN Proceed(d, "attempt", [message |-> m, number |-> n, outcome |-> "SUCCEEDED"])
                      ELSE IF ~emailEnabled[m[1]]
                      THEN Proceed(d, "attempt", [message |-> m, number |-> n, outcome |-> "SKIPPED"])
                      ELSE Proceed(d, "send", [message |-> m, number |-> n])
       /\ UNCHANGED <<messageVars, emailEnabled, attempts, bounds>>

\* EmailPackageNotificationAdapter.send: sent, no verified address, refused,
\* or not reached.
Send(d) ==
    LET c == task[d]
    IN /\ stage[d] = "send"
       /\ \E outcome \in {"SUCCEEDED", "SKIPPED", "PERMANENT_FAILURE"} \cup
                         (IF Retryable(c.number) THEN {"RETRYABLE_FAILURE"} ELSE {}) :
              Proceed(d, "attempt", [message |-> c.message, number |-> c.number, outcome |-> outcome])
       /\ UNCHANGED <<messageVars, emailEnabled, attempts, current, bounds>>

\* appendDeliveryAttempt; a number that is taken ends the delivery with an error.
AppendAttempt(d) ==
    LET c == task[d]
        rows == attempts[c.message]
    IN /\ stage[d] = "attempt"
       /\ IF NumberTaken(c.message, c.number)
            THEN Stop(d) /\ UNCHANGED attempts
            ELSE /\ attempts' = [attempts EXCEPT ![c.message] =
                        [n \in DOMAIN rows \cup {c.number} |->
                             IF n = c.number THEN c.outcome ELSE rows[n]]]
                 /\ Proceed(d, "mark", c)
                 /\ UNCHANGED current
       /\ UNCHANGED <<messageVars, emailEnabled, bounds>>

StatusAfter(outcome) ==
    CASE outcome = "SUCCEEDED" -> "DELIVERED"
      [] outcome = "SKIPPED" -> "CANCELLED"
      [] outcome = "PERMANENT_FAILURE" -> "DEAD_LETTERED"
      [] outcome = "RETRYABLE_FAILURE" -> "RETRY_SCHEDULED"

\* transition: markDelivered, cancelOutbox, markDeadLettered or scheduleRetry.
Mark(d) ==
    LET c == task[d]
        m == c.message
    IN /\ stage[d] = "mark"
       /\ IF UpToDate(d) /\ status[m] \in Outstanding
            THEN /\ status' = [status EXCEPT ![m] = StatusAfter(c.outcome)]
                 /\ due' = IF c.outcome = "RETRYABLE_FAILURE" THEN due \ {m} ELSE due
                 /\ holder' = [holder EXCEPT ![m] = NoTask]
                 /\ attemptCount' = [attemptCount EXCEPT ![m] = @ + 1]
                 /\ Bump(m)
                 /\ Proceed(d, "idle", NoTask)
            ELSE Stop(d) /\ UNCHANGED <<status, due, holder, attemptCount>>
       /\ UNCHANGED <<notified, emailEnabled, attempts, bounds>>

Crash(d) ==
    /\ stage[d] # "idle" /\ crashes < MaxCrashes
    /\ crashes' = crashes + 1
    /\ Stop(d)
    /\ UNCHANGED <<messageVars, emailEnabled, attempts, retries>>

-----------------------------------------------------------------------------
\* The time of the next attempt comes.
BecomeDue(m) ==
    /\ status[m] = "RETRY_SCHEDULED" /\ m \notin due
    /\ due' = due \cup {m}
    /\ UNCHANGED <<notified, status, holder, attemptCount, emailEnabled, attempts,
                   current, stage, task, bounds>>

\* Back to RETRY_SCHEDULED, available now, without a claim.
Reschedule(m) ==
    /\ status' = [status EXCEPT ![m] = "RETRY_SCHEDULED"]
    /\ due' = due \cup {m}
    /\ holder' = [holder EXCEPT ![m] = NoTask]
    /\ Bump(m)
    /\ UNCHANGED <<notified, attemptCount, emailEnabled, attempts, stage, task, crashes>>

\* releaseExpiredClaims.  A lease may have expired however far its deliverer is.
ReleaseExpired(m) ==
    /\ status[m] = "PROCESSING"
    /\ Reschedule(m)
    /\ UNCHANGED retries

\* retryOutboxMessage.  The attempts so far keep counting.
AdminRetry(m) ==
    /\ status[m] \in Retried /\ retries < MaxRetries
    /\ retries' = retries + 1
    /\ Reschedule(m)

-----------------------------------------------------------------------------
Work(d) == Claim(d) \/ BeginDelivery(d) \/ Send(d) \/ AppendAttempt(d) \/ Mark(d)

OutboxNext ==
    \/ \E e \in Events : CreateNotification(e) \/ UpdatePreference(e)
    \/ \E d \in Deliverers : Work(d) \/ Crash(d) \/ \E m \in Messages : ListDue(d, m)
    \/ \E m \in Messages : BecomeDue(m) \/ ReleaseExpired(m) \/ AdminRetry(m)

OutboxSpec == OutboxInit /\ [][OutboxNext]_outboxVars

-----------------------------------------------------------------------------
IsTask(step, c) ==
    /\ step = "idle" => c = NoTask
    /\ step \in {"claim", "claimed"} => c \in [message : Messages]
    /\ step = "send" => c \in [message : Messages, number : Numbers]
    /\ step \in {"attempt", "mark"} =>
           c \in [message : Messages, number : Numbers, outcome : Outcomes]

\* Every variable holds values of its type.  No message is attempted more often
\* than the policy and the retries of administrators allow.
OutboxTypeOK ==
    /\ notified \subseteq Events
    /\ emailEnabled \in [Events -> BOOLEAN]
    /\ status \in [Messages -> {"ABSENT"} \cup Outstanding \cup Ended]
    /\ due \subseteq Messages
    /\ holder \in [Messages -> Deliverers \cup {NoTask}]
    /\ attemptCount \in [Messages -> {0} \cup Numbers]
    /\ DOMAIN attempts = Messages
    /\ \A m \in Messages : attempts[m] \in [DOMAIN attempts[m] -> Outcomes]
    /\ current \subseteq Deliverers
    /\ stage \in [Deliverers -> {"idle", "claim", "claimed", "send", "attempt", "mark"}]
    /\ DOMAIN task = Deliverers /\ \A d \in Deliverers : IsTask(stage[d], task[d])
    /\ retries \in 0..MaxRetries /\ crashes \in 0..MaxCrashes

\* "Append-only attempt records": they are numbered without a gap, at most one
\* of them, the last, is not counted by its message yet, and there are no more
\* than the policy and the retries of administrators allow, whoever made them.
AttemptsCounted ==
    \A m \in Messages :
        /\ DOMAIN attempts[m] \in {1..attemptCount[m], 1..(attemptCount[m] + 1)}
        /\ DOMAIN attempts[m] \subseteq 1..(MaxAttempts + retries)

\* A message ends as its last counted attempt ended; whoever's it was, and
\* whatever the deliverers that lost their claim on the way have recorded.
StatusTellsAttempt ==
    \A m \in Messages :
        status[m] \in Ended => /\ attemptCount[m] \in DOMAIN attempts[m]
                               /\ status[m] = StatusAfter(attempts[m][attemptCount[m]])

\* "Never returns one message to two concurrent claimants"
\* (tests/claim-concurrency.test.ts): a claim ends before another begins.
ClaimsDoNotOverlap ==
    [][\A m \in Messages :
          status[m] = "PROCESSING" /\ status'[m] = "PROCESSING" => holder'[m] = holder[m]]_outboxVars

\* A delivered message stays delivered: no late deliverer, no release and no
\* retry sends it again.
DeliveredStays ==
    [][\A m \in Messages : status[m] = "DELIVERED" => status'[m] = "DELIVERED"]_outboxVars

\* The attempt that the next deliverer will number has been recorded already,
\* and nobody is about to count it.
Torn(m) ==
    /\ attemptCount[m] + 1 \in DOMAIN attempts[m]
    /\ \A d \in current : stage[d] = "mark" => task[d].message # m

\* "Bounded exponential retries" (ADR 0026) hold of no message whose attempt
\* was recorded by a deliverer that could not go on to count it, because it
\* died or lost its claim: it never ends.  No other deliverer, release or
\* retry repairs it; each next deliverer meets the number that is taken, after
\* it has sent the e-mail once more.
TornForGood ==
    [][\A m \in Messages : Torn(m) => Torn(m)' /\ status'[m] \in Outstanding]_outboxVars
=============================================================================
