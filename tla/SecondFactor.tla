----------------------------- MODULE SecondFactor -----------------------------
(***************************************************************************)
(* The second factor of one active user: enrolment, rotation and recovery  *)
(* codes, the challenge of a login, and the sessions they assure (the      *)
(* MfaService of packages/identity).                                       *)
(*                                                                         *)
(* An operation is a transaction in two steps: its reads, and its writes   *)
(* from the first update to COMMIT.  Expiries are checked against the      *)
(* clock of the first.  A wrong code changes nothing: the failure that     *)
(* confirmLoginChallenge counts is rolled back by the error it throws.     *)
(***************************************************************************)
EXTENDS Integers

CONSTANTS
    Secrets,        \* the TOTP secrets that can be generated
    Slots,          \* the recovery codes of one batch
    Sessions,       \* user_sessions that can be inserted
    Challenges,     \* mfa_login_challenges that can be inserted
    Handlers,       \* concurrent request handlers
    MaxVersion,     \* a bound: the changes of security_version
    NoFactor, NoRotation, NoSession, NoChallenge, NoProof,
    NoCall          \* "the handler is serving nothing"

Versions == 0..MaxVersion
Codes == [batch : Nat, slot : Slots]
Proofs == Secrets \cup {NoProof} \cup Codes
FactorRows == [secret : Secrets, enabled : BOOLEAN]
RotationRows == [id : Secrets, secret : Secrets, expired : BOOLEAN]
Logins == [version : Versions, assurance : {"none", "recent"}, proof : Proofs,
           challenge : Challenges \cup {NoChallenge}]
SessionRows == [status : {"ACTIVE", "REVOKED"}, version : Versions,
                assurance : {"none", "recent", "lapsed"}, proof : Proofs,
                challenge : Challenges \cup {NoChallenge}]
ChallengeRows == [version : Versions, state : {"open", "expired", "consumed"}]

\* Names of different kinds are different.
Names ==
    /\ MaxVersion \in Nat
    /\ Sessions \cap Handlers = {}
    /\ NoFactor \notin FactorRows /\ NoRotation \notin RotationRows
    /\ NoSession \notin SessionRows
    /\ NoChallenge \notin ChallengeRows \cup Challenges
ASSUME NamesAssumption == Names

VARIABLES
    version,        \* users.security_version
    factor,         \* user_mfa_totp: the secret, and whether it is enabled
    rotation,       \* mfa_totp_rotations: the candidate; its id, the first one
    batch,          \* history: the batches of recovery codes written so far
    codes,          \* mfa_recovery_codes that are not consumed
    session,        \* user_sessions; `proof' is history: what assured it last
    challenge,      \* mfa_login_challenges
    issued,         \* history: the secrets generated so far
    pc, call        \* per handler: where its request is, and what it has read

factors == <<factor, rotation, batch, codes>>
vars == <<version, factors, session, challenge, issued, pc, call>>

-----------------------------------------------------------------------------
(* Slips that the properties must tell from the definitions below; no       *)
(* definition uses them.                                                   *)

OthersStay(kept) == session                             \* for OthersRevoked
TornApart(c) == TRUE                                    \* for Unconsumed
AnyFactor == TRUE                                       \* for Enrollable
OldCodesToo == codes \cup [batch : {batch + 1}, slot : Slots]   \* for NewCodes

-----------------------------------------------------------------------------
Become(h, step, read) ==
    /\ pc' = [pc EXCEPT ![h] = step]
    /\ call' = [call EXCEPT ![h] = read]

Done(h) == Become(h, "idle", NoCall)

Pending(f) == f # NoFactor /\ ~f.enabled
Enabled(f) == f # NoFactor /\ f.enabled

\* Only a factor that is not in force is enrolled anew.
Enrollable == ~Enabled(factor)

Active(s) == session[s] # NoSession /\ session[s].status = "ACTIVE"

\* validateSession, but for the expiries.
Valid(s) == Active(s) /\ session[s].version = version

\* hasRecentMfaAssurance.
Assured(s) == Active(s) /\ session[s].assurance = "recent"

OthersRevoked(kept) ==
    [s \in Sessions |-> IF s # kept /\ Active(s) THEN [session[s] EXCEPT !.status = "REVOKED"]
                        ELSE session[s]]

\* secureSessionsAfterMfaEnable, secureSessionsAfterMfaRotation.
Secured(kept, secret) ==
    [OthersRevoked(kept) EXCEPT ![kept].assurance = "recent", ![kept].proof = secret]

\* The recovery codes after they have been replaced.
NewCodes == [batch : {batch + 1}, slot : Slots]

\* The guard of consumeLoginChallenge.
Unconsumed(c) == challenge[c].state # "consumed"

\* The user has logged in once, before any factor.
Init ==
    /\ version = 0
    /\ factor = NoFactor /\ rotation = NoRotation
    /\ batch = 0 /\ codes = {}
    /\ \E first \in Sessions :
           session = [s \in Sessions |->
               IF s = first THEN [status |-> "ACTIVE", version |-> 0, assurance |-> "none",
                                  proof |-> NoProof, challenge |-> NoChallenge]
               ELSE NoSession]
    /\ challenge = [c \in Challenges |-> NoChallenge]
    /\ issued = {}
    /\ pc = [h \in Handlers |-> "idle"]
    /\ call = [h \in Handlers |-> NoCall]

-----------------------------------------------------------------------------
\* The clock: an assurance is no longer recent, a rotation or a challenge expires.
AssuranceLapses(s) ==
    /\ Assured(s)
    /\ session' = [session EXCEPT ![s].assurance = "lapsed"]
    /\ UNCHANGED <<version, factors, challenge, issued, pc, call>>

RotationExpires ==
    /\ rotation # NoRotation /\ ~rotation.expired
    /\ rotation' = [rotation EXCEPT !.expired = TRUE]
    /\ UNCHANGED <<version, factor, batch, codes, session, challenge, issued, pc, call>>

ChallengeExpires(c) ==
    /\ challenge[c] # NoChallenge /\ challenge[c].state = "open"
    /\ challenge' = [challenge EXCEPT ![c].state = "expired"]
    /\ UNCHANGED <<version, factors, session, issued, pc, call>>

\* Elsewhere: a session is revoked; or all of them are, but the one `kept' if there is
\* one, as the password is changed.
SessionRevoked(s) ==
    /\ Active(s)
    /\ session' = [session EXCEPT ![s].status = "REVOKED"]
    /\ UNCHANGED <<version, factors, challenge, issued, pc, call>>

PasswordChanged(kept) ==
    /\ version < MaxVersion
    /\ version' = version + 1
    /\ session' = OthersRevoked(kept)
    /\ UNCHANGED <<factors, challenge, issued, pc, call>>

-----------------------------------------------------------------------------
\* startTotpEnrollment: the reads, which end with those of upsertPendingTotp.
EnrollRead(h, secret) ==
    /\ pc[h] = "idle" /\ secret \notin issued
    /\ \E s \in Sessions : Valid(s)
    /\ Enrollable
    /\ issued' = issued \cup {secret}
    /\ Become(h, "enroll", [secret |-> secret, found |-> factor # NoFactor])
    /\ UNCHANGED <<version, factors, session, challenge>>

\* A row that was found is updated by its id, whatever has become of it; a row
\* that was not may be inserted only once.
EnrollWrite(h) ==
    /\ pc[h] = "enroll"
    /\ call[h].found \/ factor = NoFactor
    /\ factor' = [secret |-> call[h].secret, enabled |-> FALSE]
    /\ codes' = {}
    /\ Done(h)
    /\ UNCHANGED <<version, rotation, batch, session, challenge, issued>>

\* confirmTotpEnrollment with a code of the secret that is read.
ConfirmRead(h, s) ==
    /\ pc[h] = "idle" /\ Valid(s)
    /\ Pending(factor)
    /\ Become(h, "confirm", [secret |-> factor.secret, session |-> s])
    /\ UNCHANGED <<version, factors, session, challenge, issued>>

\* enableTotp goes by enabled_at alone.
ConfirmWrite(h) ==
    LET s == call[h].session IN
    /\ pc[h] = "confirm"
    /\ Pending(factor) /\ Active(s)
    /\ factor' = [factor EXCEPT !.enabled = TRUE]
    /\ codes' = NewCodes /\ batch' = batch + 1
    /\ session' = Secured(s, call[h].secret)
    /\ Done(h)
    /\ UNCHANGED <<version, rotation, challenge, issued>>

-----------------------------------------------------------------------------
\* startTotpRotation.
RotateRead(h, s, secret) ==
    /\ pc[h] = "idle" /\ secret \notin issued
    /\ Valid(s) /\ Assured(s) /\ Enabled(factor)
    /\ issued' = issued \cup {secret}
    /\ Become(h, "rotate", [secret |-> secret])
    /\ UNCHANGED <<version, factors, session, challenge>>

\* upsertPendingTotpRotation: the row keeps its id while it lasts.
RotateWrite(h) ==
    LET secret == call[h].secret IN
    /\ pc[h] = "rotate"
    /\ rotation' = [id |-> IF rotation = NoRotation THEN secret ELSE rotation.id,
                    secret |-> secret, expired |-> FALSE]
    /\ Done(h)
    /\ UNCHANGED <<version, factor, batch, codes, session, challenge, issued>>

\* confirmTotpRotation with a code of the candidate that is read.
RotatedRead(h, s) ==
    /\ pc[h] = "idle"
    /\ Valid(s) /\ Assured(s) /\ Enabled(factor)
    /\ rotation # NoRotation /\ ~rotation.expired
    /\ Become(h, "rotated", [id |-> rotation.id, secret |-> rotation.secret, session |-> s])
    /\ UNCHANGED <<version, factors, session, challenge, issued>>

\* consumePendingTotpRotation, replaceTotpAndRecoveryCodes and the sessions.
RotatedWrite(h) ==
    LET s == call[h].session IN
    /\ pc[h] = "rotated"
    /\ rotation # NoRotation /\ rotation.id = call[h].id
    /\ Enabled(factor) /\ Active(s)
    /\ rotation' = NoRotation
    /\ factor' = [factor EXCEPT !.secret = call[h].secret]
    /\ codes' = NewCodes /\ batch' = batch + 1
    /\ session' = Secured(s, call[h].secret)
    /\ Done(h)
    /\ UNCHANGED <<version, challenge, issued>>

\* cancelTotpRotation.
CancelRotation(s) ==
    /\ Valid(s) /\ Assured(s) /\ Enabled(factor)
    /\ rotation # NoRotation /\ rotation' = NoRotation
    /\ UNCHANGED <<version, factor, batch, codes, session, challenge, issued, pc, call>>

-----------------------------------------------------------------------------
\* beginLoginChallenge, after the password: the login needs no second factor, ...
LoginUnchallenged(h) ==
    /\ pc[h] = "idle"
    /\ ~Enabled(factor)
    /\ Become(h, "login", [version |-> version, assurance |-> "none", proof |-> NoProof,
                           challenge |-> NoChallenge])
    /\ UNCHANGED <<version, factors, session, challenge, issued>>

\* ... or gets a challenge.
LoginChallenged(c) ==
    /\ challenge[c] = NoChallenge
    /\ Enabled(factor)
    /\ challenge' = [challenge EXCEPT ![c] = [version |-> version, state |-> "open"]]
    /\ UNCHANGED <<version, factors, session, issued, pc, call>>

\* confirmLoginChallenge with a code of the secret that is read, or one of the
\* recovery codes.
ProveRead(h, c) ==
    /\ pc[h] = "idle"
    /\ challenge[c] # NoChallenge /\ challenge[c].state = "open"
    /\ challenge[c].version = version
    /\ Enabled(factor)
    /\ \E proof \in {factor.secret} \cup codes :
           Become(h, "prove", [version |-> version, assurance |-> "recent", proof |-> proof,
                               challenge |-> c])
    /\ UNCHANGED <<version, factors, session, challenge, issued>>

\* consumeRecoveryCode and consumeLoginChallenge, both or neither.
ProveWrite(h) ==
    LET c == call[h].challenge
        proof == call[h].proof
    IN /\ pc[h] = "prove"
       /\ proof \in Secrets \cup codes
       /\ Unconsumed(c)
       /\ codes' = codes \ {proof}
       /\ challenge' = [challenge EXCEPT ![c].state = "consumed"]
       /\ Become(h, "login", call[h])
       /\ UNCHANGED <<version, factor, rotation, batch, session, issued>>

\* createSession of SessionService.  The user may change between its check and
\* its insertion, which Accounts models; such a session is never valid.
SessionCreated(h, s) ==
    LET c == call[h] IN
    /\ pc[h] = "login" /\ c.version = version
    /\ session[s] = NoSession
    /\ session' = [session EXCEPT ![s] = [status |-> "ACTIVE", version |-> c.version,
           assurance |-> c.assurance, proof |-> c.proof, challenge |-> c.challenge]]
    /\ Done(h)
    /\ UNCHANGED <<version, factors, challenge, issued>>

\* A handler is refused or crashes: its transaction is rolled back.
Abandoned(h) ==
    /\ pc[h] # "idle"
    /\ Done(h)
    /\ UNCHANGED <<version, factors, session, challenge, issued>>

-----------------------------------------------------------------------------
Handle(h) ==
    \/ \E secret \in Secrets : \/ EnrollRead(h, secret)
                               \/ \E s \in Sessions : RotateRead(h, s, secret)
    \/ EnrollWrite(h) \/ ConfirmWrite(h) \/ RotateWrite(h) \/ RotatedWrite(h)
    \/ \E s \in Sessions : ConfirmRead(h, s) \/ RotatedRead(h, s) \/ SessionCreated(h, s)
    \/ \E c \in Challenges : ProveRead(h, c)
    \/ LoginUnchallenged(h) \/ ProveWrite(h) \/ Abandoned(h)

Next ==
    \/ RotationExpires
    \/ \E kept \in Sessions \cup {NoSession} : PasswordChanged(kept)
    \/ \E s \in Sessions : AssuranceLapses(s) \/ SessionRevoked(s) \/ CancelRotation(s)
    \/ \E c \in Challenges : ChallengeExpires(c) \/ LoginChallenged(c)
    \/ \E h \in Handlers : Handle(h)

Spec == Init /\ [][Next]_vars

-----------------------------------------------------------------------------
\* What a handler carries from one step of its request to the next.
IsCall(step, read) ==
    \/ step = "idle" /\ read = NoCall
    \/ step = "enroll" /\ read \in [secret : Secrets, found : BOOLEAN]
    \/ step = "confirm" /\ read \in [secret : Secrets, session : Sessions]
    \/ step = "rotate" /\ read \in [secret : Secrets]
    \/ step = "rotated" /\ read \in [id : Secrets, secret : Secrets, session : Sessions]
    \/ step = "prove" /\ read \in Logins /\ read.challenge \in Challenges
    \/ step = "login" /\ read \in Logins

TypeOK ==
    /\ version \in Versions
    /\ factor \in FactorRows \cup {NoFactor}
    /\ rotation \in RotationRows \cup {NoRotation}
    /\ batch \in Nat /\ codes \subseteq Codes
    /\ session \in [Sessions -> SessionRows \cup {NoSession}]
    /\ challenge \in [Challenges -> ChallengeRows \cup {NoChallenge}]
    /\ issued \subseteq Secrets
    /\ DOMAIN pc = Handlers /\ DOMAIN call = Handlers
    /\ \A h \in Handlers : IsCall(pc[h], call[h])

\* The recovery codes are of one batch, and there are none without a factor in
\* force: a batch is replaced as a whole, and no code of an earlier one is left.
CodesOfFactor ==
    codes # {} => Enabled(factor) /\ codes \subseteq [batch : {batch}, slot : Slots]

Claimants ==
    {s \in Sessions : session[s] # NoSession} \cup {h \in Handlers : pc[h] = "login"}
Claim(x) == IF x \in Sessions THEN session[x] ELSE call[x]

\* A challenge lets one login in, and so does a recovery code, however often and
\* by however many requests at once they are confirmed.
GrantedOnce ==
    \A x, y \in Claimants : x # y =>
        /\ Claim(x).challenge = NoChallenge \/ Claim(x).challenge # Claim(y).challenge
        /\ Claim(x).proof \in Secrets \cup {NoProof} \/ Claim(x).proof # Claim(y).proof
=============================================================================
