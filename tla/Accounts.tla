------------------------------- MODULE Accounts -------------------------------
(***************************************************************************)
(* The account of one user: status, primary e-mail, password, sessions and *)
(* the tokens sent to the e-mail (packages/identity), and what             *)
(* administrators do to it (AdminUserAccessService of apps/api).           *)
(*                                                                         *)
(* An operation is a step for each transaction, or two, its reads and its  *)
(* writes from the first update to COMMIT, when a transaction updates by   *)
(* id what it has read: nothing locks the rows in between.  A check of a   *)
(* lock or of an expiry is made against the clock of the read before it.   *)
(***************************************************************************)
EXTENDS Integers, FiniteSets

CONSTANTS
    Words,          \* passwords a user may choose
    FirstWord,      \* the one chosen at registration
    Sessions,       \* user_sessions that can be inserted
    Tokens,         \* verification and reset tokens that can be inserted
    FirstToken,     \* the verification token of the registration
    Handlers,       \* concurrent request handlers
    MaxFailed,      \* lockout.maxFailedAttempts
    MaxVersion,     \* a bound: the changes of security_version
    NoSession, NoToken,
    NoCall          \* "the handler is serving nothing"

Statuses == {"PENDING_VERIFICATION", "ACTIVE", "SUSPENDED", "BANNED", "DELETED"}
Makers == {"earlier", "current"} \cup Handlers
Hashes == [word : Words, since : 0..MaxVersion, by : Makers]
SessionRows == [version : 0..MaxVersion, status : {"ACTIVE", "REVOKED"}, over : BOOLEAN,
                proved : Words]
TokenRows == [kind : {"mail", "reset"}, state : {"active", "spent", "deleted"}]

ASSUME FirstWordAssumption == FirstWord \in Words
ASSUME FirstTokenAssumption == FirstToken \in Tokens
ASSUME MaxFailedAssumption == MaxFailed \in Nat \ {0}
ASSUME MaxVersionAssumption == MaxVersion \in Nat
ASSUME NoSessionAssumption == NoSession \notin SessionRows
ASSUME NoTokenAssumption == NoToken \notin TokenRows

VARIABLES
    status,     \* users.status; deleted_at is set exactly when it is DELETED
    overdue,    \* users.suspended_until has passed
    verified,   \* user_emails.verified_at of the primary e-mail is set
    version,    \* users.security_version
    password,   \* password_credentials: the hash, which no two hashings share
    failed,     \* password_credentials.failed_attempt_count
    locked,     \* password_credentials.locked_until is ahead
    session,    \* user_sessions; `proved' is history: the password of the login
    token,      \* email_verification_tokens and password_reset_tokens
    pc, call    \* per handler: where its request is, and what it has read

user == <<status, overdue, verified, version>>
credential == <<password, failed, locked>>
vars == <<user, credential, session, token, pc, call>>

-----------------------------------------------------------------------------
(* Slips that the properties at the end must tell from the definitions      *)
(* below; no definition uses them.                                         *)

BumpedByUser(v, by) == IF by = "user" THEN v + 1 ELSE v        \* for Bumped
BumpedByAdmin(v, by) == IF by = "admin" THEN v + 1 ELSE v      \* for Bumped
StateUnchecked(to) == TRUE                                     \* for DeletedStateHolds
AlwaysActive(mail) == "ACTIVE"                                 \* for RestoredTo
EvenSpent(t) == token[t] # NoToken /\ token[t].kind = "reset"  \* for Usable

-----------------------------------------------------------------------------
Become(h, step, read) ==
    /\ pc' = [pc EXCEPT ![h] = step]
    /\ call' = [call EXCEPT ![h] = read]

Done(h) == Become(h, "idle", NoCall)

\* The user may be served at security version v.
Current(v) == status = "ACTIVE" /\ v = version

\* validateSession; `over' is either expiry, for nothing ever touches a session.
Valid(s) ==
    /\ session[s] # NoSession
    /\ session[s].status = "ACTIVE" /\ ~session[s].over
    /\ Current(session[s].version)

\* The next security version, whoever causes it.
Bumped(v, by) == v + 1

Revoked(rows) ==
    [s \in Sessions |-> IF rows[s] = NoSession THEN NoSession
                        ELSE [rows[s] EXCEPT !.status = "REVOKED"]]

Active(t, kind) == token[t] # NoToken /\ token[t] = [kind |-> kind, state |-> "active"]

Usable(t) == Active(t, "reset")

\* consumeActiveVerificationTokens, consumeActiveResetTokens.
Spent(kind) ==
    [t \in Tokens |-> IF Active(t, kind) THEN [token[t] EXCEPT !.state = "spent"] ELSE token[t]]

\* The failures that are left of `count' when the password proves right, or is replaced.
Cleared(count) == 0

\* The constraint users_deleted_state_check, for an update of the status alone.
DeletedStateHolds(to) == to = "DELETED" <=> status = "DELETED"

RestoredTo(mail) == IF mail THEN "ACTIVE" ELSE "PENDING_VERIFICATION"

\* After registerUser, with a password hashed with the parameters of its time.
Init ==
    /\ status = "PENDING_VERIFICATION" /\ overdue = FALSE /\ verified = FALSE /\ version = 0
    /\ password = [word |-> FirstWord, since |-> 0, by |-> "earlier"]
    /\ failed = 0 /\ locked = FALSE
    /\ session = [s \in Sessions |-> NoSession]
    /\ token = [t \in Tokens |-> IF t = FirstToken THEN [kind |-> "mail", state |-> "active"]
                                 ELSE NoToken]
    /\ pc = [h \in Handlers |-> "idle"]
    /\ call = [h \in Handlers |-> NoCall]

-----------------------------------------------------------------------------
\* The clock: a lock, a suspension, a session or a token comes to its end.
LockEnds ==
    /\ locked /\ locked' = FALSE
    /\ UNCHANGED <<user, password, failed, session, token, pc, call>>

SuspensionEnds ==
    /\ status = "SUSPENDED" /\ ~overdue
    /\ overdue' = TRUE
    /\ UNCHANGED <<status, verified, version, credential, session, token, pc, call>>

SessionEnds(s) ==
    /\ session[s] # NoSession /\ session[s].status = "ACTIVE" /\ ~session[s].over
    /\ session' = [session EXCEPT ![s].over = TRUE]
    /\ UNCHANGED <<user, credential, token, pc, call>>

TokenEnds(t) ==
    /\ token[t] # NoToken /\ token[t].state = "active"
    /\ token' = [token EXCEPT ![t].state = "spent"]
    /\ UNCHANGED <<user, credential, session, pc, call>>

-----------------------------------------------------------------------------
\* authenticateWithPassword: the first transaction, which also ends a suspension
\* that is over, and what the password read makes of the word.
LoginRead(h, word) ==
    LET recovered == status = "SUSPENDED" /\ overdue
        now == IF recovered THEN "ACTIVE" ELSE status
    IN /\ pc[h] = "idle" /\ verified
       /\ status' = now
       /\ overdue' = (overdue /\ ~recovered)
       /\ \/ /\ word # password.word
             /\ failed < MaxFailed  \* a bound on the failures counted
             /\ Become(h, "miss", [failed |-> failed])
          \/ /\ word = password.word /\ ~locked /\ now = "ACTIVE"
             /\ Become(h, "login", [hash |-> password, version |-> version])
          \/ /\ word = password.word /\ (locked \/ now # "ACTIVE")
             /\ UNCHANGED <<pc, call>>
       /\ UNCHANGED <<verified, version, credential, session, token>>

\* recordAuthenticationFailure writes the count it derives from the read.
LoginFails(h) ==
    /\ pc[h] = "miss"
    /\ failed' = call[h].failed + 1
    /\ locked' = (call[h].failed + 1 >= MaxFailed)
    /\ Done(h)
    /\ UNCHANGED <<user, password, session, token>>

\* recordAuthenticationSuccess, with a new hash for one of earlier parameters.
LoginSucceeds(h) ==
    LET read == call[h].hash IN
    /\ pc[h] = "login"
    /\ password' = IF read.by = "earlier" THEN [read EXCEPT !.by = h] ELSE password
    /\ failed' = Cleared(failed) /\ locked' = FALSE
    /\ Become(h, "proved", [word |-> read.word, version |-> call[h].version])
    /\ UNCHANGED <<user, session, token>>

\* createSession: the check of the user, and the insertion.  A login with a
\* second factor waits for its code in between, where nothing else is checked.
SessionChecked(h) ==
    /\ pc[h] = "proved"
    /\ IF Current(call[h].version)
         THEN Become(h, "session", [word |-> call[h].word, version |-> version])
         ELSE Done(h)
    /\ UNCHANGED <<user, credential, session, token>>

SessionInserted(h, s) ==
    /\ pc[h] = "session" /\ session[s] = NoSession
    /\ session' = [session EXCEPT ![s] = [version |-> call[h].version, status |-> "ACTIVE",
                                          over |-> FALSE, proved |-> call[h].word]]
    /\ Done(h)
    /\ UNCHANGED <<user, credential, token>>

\* The handler stops between two steps, by a crash or for an error that rolls back.
Abandoned(h) == pc[h] # "idle" /\ Done(h) /\ UNCHANGED <<user, credential, session, token>>

\* revokeSession, revokeUserSession.
SessionRevoked(s) ==
    /\ session[s] # NoSession /\ session[s].status = "ACTIVE"
    /\ session' = [session EXCEPT ![s].status = "REVOKED"]
    /\ UNCHANGED <<user, credential, token, pc, call>>

\* revokeAllUserSessions, but for the session `kept' if there is one.
OthersRevoked(kept) ==
    /\ session' = [s \in Sessions |-> IF s = kept THEN session[s] ELSE Revoked(session)[s]]
    /\ UNCHANGED <<user, credential, token, pc, call>>

-----------------------------------------------------------------------------
\* changePassword of a user with a session.  The comparison of the hash that the
\* second transaction makes before its first update is part of this step: it may
\* follow the read at once, and refuses a hash that changed in between.
ChangeRead(h, next) ==
    /\ pc[h] = "idle" /\ next # password.word
    /\ \E s \in Sessions : Valid(s)
    /\ Become(h, "change", [next |-> next])
    /\ UNCHANGED <<user, credential, session, token>>

\* The password is replaced by `next': all earlier sessions are revoked and stale.
Replaced(next) ==
    /\ version < MaxVersion
    /\ version' = Bumped(version, "user")
    /\ password' = [word |-> next, since |-> version + 1, by |-> "current"]
    /\ failed' = Cleared(failed) /\ locked' = FALSE
    /\ session' = Revoked(session)
    /\ UNCHANGED <<status, overdue, verified>>

ChangeWrite(h) ==
    /\ pc[h] = "change"
    /\ Replaced(call[h].next)
    /\ Done(h)
    /\ UNCHANGED token

\* issuePasswordResetToken, requestEmailVerification.
IssueRead(h, kind) ==
    /\ pc[h] = "idle"
    /\ \/ kind = "reset" /\ verified /\ status = "ACTIVE"
       \/ kind = "mail" /\ ~verified /\ status = "PENDING_VERIFICATION"
    /\ Become(h, "issue", [kind |-> kind])
    /\ UNCHANGED <<user, credential, session, token>>

IssueWrite(h, t) ==
    /\ pc[h] = "issue" /\ token[t] = NoToken
    /\ token' = [Spent(call[h].kind) EXCEPT ![t] = [kind |-> call[h].kind, state |-> "active"]]
    /\ Done(h)
    /\ UNCHANGED <<user, credential, session>>

\* consumePasswordResetToken.
ResetRead(h, t, next) ==
    /\ pc[h] = "idle" /\ Usable(t)
    /\ Become(h, "reset", [token |-> t, next |-> next])
    /\ UNCHANGED <<user, credential, session, token>>

ResetWrite(h) ==
    /\ pc[h] = "reset"
    /\ Replaced(call[h].next)
    /\ token' = [Spent("reset") EXCEPT ![call[h].token].state = "spent"]
    /\ Done(h)

\* consumeEmailVerificationToken; to update a deleted token is an error.
MailRead(h, t) ==
    /\ pc[h] = "idle" /\ Active(t, "mail") /\ ~verified
    /\ Become(h, "mail", [token |-> t, activate |-> status = "PENDING_VERIFICATION"])
    /\ UNCHANGED <<user, credential, session, token>>

MailWrite(h) ==
    /\ pc[h] = "mail"
    /\ IF token[call[h].token].state = "deleted" THEN UNCHANGED <<user, token>>
       ELSE /\ token' = [Spent("mail") EXCEPT ![call[h].token].state = "spent"]
            /\ verified' = TRUE
            /\ status' = IF call[h].activate /\ status = "PENDING_VERIFICATION"
                           THEN "ACTIVE" ELSE status
            /\ UNCHANGED <<overdue, version>>
    /\ Done(h)
    /\ UNCHANGED <<credential, session>>

-----------------------------------------------------------------------------
\* assertAdminUserStatusTransition.
Transitions ==
    {<<"ACTIVE", "SUSPENDED">>, <<"ACTIVE", "BANNED">>, <<"SUSPENDED", "ACTIVE">>,
     <<"SUSPENDED", "BANNED">>, <<"BANNED", "ACTIVE">>}

Operations == {"change", "verify", "delete", "restore"}

\* The status that an administrator's operation on the user, as read, will write.
Outcome ==
    [change |-> {to \in Statuses : <<status, to>> \in Transitions},
     verify |-> IF verified THEN {}
                ELSE {IF status = "PENDING_VERIFICATION" THEN "ACTIVE" ELSE status},
     delete |-> IF status = "DELETED" THEN {} ELSE {"DELETED"},
     restore |-> IF status = "DELETED" THEN {RestoredTo(verified)} ELSE {}]

\* changeStatus, verifyEmail, deleteUser and restoreUser read the user.  A last
\* holder of a system role, who is not modelled, is neither restricted nor deleted.
AdminRead(h, op) ==
    /\ pc[h] = "idle"
    /\ \E to \in Outcome[op] : Become(h, "admin", [op |-> op, to |-> to])
    /\ UNCHANGED <<user, credential, session, token>>

AdminWrites(h, op) ==
    /\ pc[h] = "admin" /\ call[h].op = op
    /\ version < MaxVersion
    /\ version' = Bumped(version, "admin")
    /\ status' = call[h].to
    /\ Done(h)
    /\ UNCHANGED credential

StatusChanged(h) ==
    /\ AdminWrites(h, "change")
    /\ DeletedStateHolds(call[h].to)
    /\ overdue' = FALSE
    /\ session' = IF call[h].to = "ACTIVE" THEN session ELSE Revoked(session)
    /\ UNCHANGED <<verified, token>>

EmailVerified(h) ==
    /\ AdminWrites(h, "verify")
    /\ DeletedStateHolds(call[h].to)
    /\ verified' = TRUE
    /\ token' = [t \in Tokens |-> IF token[t] # NoToken /\ token[t].kind = "mail"
                                    THEN [token[t] EXCEPT !.state = "deleted"] ELSE token[t]]
    /\ UNCHANGED <<overdue, session>>

UserDeleted(h) ==
    /\ AdminWrites(h, "delete")
    /\ overdue' = FALSE
    /\ session' = Revoked(session)
    /\ UNCHANGED <<verified, token>>

UserRestored(h) ==
    /\ AdminWrites(h, "restore")
    /\ overdue' = FALSE
    /\ UNCHANGED <<verified, session, token>>

\* revokeSessions of an administrator, which uses nothing it reads.
SessionsRevoked ==
    /\ version < MaxVersion
    /\ version' = Bumped(version, "admin")
    /\ session' = Revoked(session)
    /\ UNCHANGED <<status, overdue, verified, credential, token, pc, call>>

-----------------------------------------------------------------------------
Next ==
    \/ LockEnds \/ SuspensionEnds \/ SessionsRevoked
    \/ \E s \in Sessions : SessionEnds(s) \/ SessionRevoked(s)
    \/ \E kept \in Sessions \cup {NoSession} : OthersRevoked(kept)
    \/ \E t \in Tokens : TokenEnds(t)
    \/ \E h \in Handlers :
          \/ \E word \in Words : LoginRead(h, word) \/ ChangeRead(h, word)
          \/ LoginFails(h) \/ LoginSucceeds(h) \/ SessionChecked(h)
          \/ \E s \in Sessions : SessionInserted(h, s)
          \/ \E kind \in {"mail", "reset"} : IssueRead(h, kind)
          \/ \E t \in Tokens : \/ IssueWrite(h, t) \/ MailRead(h, t)
                               \/ \E word \in Words : ResetRead(h, t, word)
          \/ ChangeWrite(h) \/ ResetWrite(h) \/ MailWrite(h) \/ Abandoned(h)
          \/ \E op \in Operations : AdminRead(h, op)
          \/ StatusChanged(h) \/ EmailVerified(h) \/ UserDeleted(h) \/ UserRestored(h)

Spec == Init /\ [][Next]_vars

-----------------------------------------------------------------------------
IsCall(step, c) ==
    \/ step = "idle" /\ c = NoCall
    \/ step = "miss" /\ c \in [failed : 0..(MaxFailed - 1)]
    \/ step = "login" /\ c \in [hash : Hashes, version : 0..MaxVersion]
    \/ step \in {"proved", "session"} /\ c \in [word : Words, version : 0..MaxVersion]
    \/ step = "change" /\ c \in [next : Words]
    \/ step = "issue" /\ c \in [kind : {"mail", "reset"}]
    \/ step = "reset" /\ c \in [token : Tokens, next : Words]
    \/ step = "mail" /\ c \in [token : Tokens, activate : BOOLEAN]
    \/ step = "admin" /\ c \in [op : Operations, to : Statuses]

\* The type invariant of the account, its sessions and tokens, and the handlers.
TypeOK ==
    /\ status \in Statuses
    /\ overdue \in BOOLEAN /\ verified \in BOOLEAN /\ locked \in BOOLEAN
    /\ version \in 0..MaxVersion
    /\ password \in Hashes
    /\ failed \in 0..MaxFailed
    /\ session \in [Sessions -> SessionRows \cup {NoSession}]
    /\ token \in [Tokens -> TokenRows \cup {NoToken}]
    /\ DOMAIN pc = Handlers /\ DOMAIN call = Handlers
    /\ \A h \in Handlers : IsCall(pc[h], call[h])

\* "Session validation rejects expiry, revocation, inactive/deleted users, and
\* stale security versions" (docs/domain-model.md), for good: a session that does
\* not validate never does again, though a suspension ends by itself, a user is
\* restored, and a login may insert its session after all this has happened.
OutStaysOut ==
    [][\A s \in Sessions : session[s] # NoSession /\ ~Valid(s) => ~Valid(s)']_vars

\* "Deleted users must be restored through the dedicated restore operation"
\* (admin-user-status-policy.ts): neither a change of status checked before the
\* deletion nor a verification brings a deleted user back.
DeletedUntilRestored ==
    [][status = "DELETED" /\ status' # "DELETED" =>
           \E h \in Handlers : pc[h] = "admin" /\ call[h].op = "restore" /\ pc'[h] = "idle"]_vars
=============================================================================
