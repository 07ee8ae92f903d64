--------------------------- MODULE SecondFactorProofs ---------------------------
(* Theorems about SecondFactor for any secrets, codes, sessions, challenges  *)
(* and handlers.                                                             *)
(*                                                                           *)
(* Why a code lets one login in: what has been claimed is spent, and a new   *)
(* batch repeats no code of an old one.  Why sessions are assured: secrets   *)
(* are generated afresh and stored once, so that a rotation that is written  *)
(* always changes the secret in force, and a login that is on its way then   *)
(* is noticed.                                                               *)
EXTENDS MCSecondFactor, TLAPS

-----------------------------------------------------------------------------
\* The parts of the type invariant.
FactorTypes ==
    /\ version \in Versions
    /\ factor \in FactorRows \cup {NoFactor}
    /\ rotation \in RotationRows \cup {NoRotation}
    /\ batch \in Nat /\ codes \subseteq Codes
    /\ issued \subseteq Secrets
LoginTypes ==
    /\ session \in [Sessions -> SessionRows \cup {NoSession}]
    /\ challenge \in [Challenges -> ChallengeRows \cup {NoChallenge}]
FactorCalls ==
    /\ DOMAIN pc = Handlers /\ DOMAIN call = Handlers
    /\ \A h \in Handlers : IsCall(pc[h], call[h])

LEMMA FactorTypeParts == TypeOK <=> FactorTypes /\ LoginTypes /\ FactorCalls
BY DEF TypeOK, FactorTypes, LoginTypes, FactorCalls

\* One handler takes a step, and the others stay where they are.
LEMMA FactorCallsKept ==
    ASSUME FactorCalls, NEW h \in Handlers, NEW step, NEW read, Become(h, step, read)
    PROVE  /\ pc'[h] = step /\ call'[h] = read
           /\ \A g \in Handlers \ {h} : pc'[g] = pc[g] /\ call'[g] = call[g]
           /\ IsCall(step, read) => FactorCalls'
<1>1. pc' = [pc EXCEPT ![h] = step] /\ call' = [call EXCEPT ![h] = read]
  BY DEF Become
<1>2. /\ pc'[h] = step /\ call'[h] = read
      /\ \A g \in Handlers \ {h} : pc'[g] = pc[g] /\ call'[g] = call[g]
  BY <1>1 DEF FactorCalls
<1>3. ASSUME NEW g \in Handlers, IsCall(step, read) PROVE IsCall(pc'[g], call'[g])
  BY <1>2, <1>3 DEF FactorCalls
<1>4. ASSUME NEW g \in Handlers, IsCall(step, read) PROVE IsCall(pc[g], call[g])'
  BY <1>3, <1>4 DEF IsCall
<1> QED BY <1>1, <1>2, <1>4 DEF FactorCalls

LEMMA FactorDone ==
    ASSUME FactorCalls, NEW h \in Handlers, Done(h)
    PROVE  /\ pc'[h] = "idle"
           /\ \A g \in Handlers \ {h} : pc'[g] = pc[g] /\ call'[g] = call[g]
           /\ FactorCalls'
BY FactorCallsKept DEF Done, IsCall

\* What becomes of a session that exists: its login is forgotten by no step, and
\* only a factor takes the place of what has assured it.
Remembered(s, row) ==
    /\ row \in SessionRows \cup {NoSession}
    /\ row = NoSession <=> session[s] = NoSession
    /\ row # NoSession =>
           /\ row.version = session[s].version /\ row.challenge = session[s].challenge
           /\ row.proof = session[s].proof \/ row.proof \in Secrets
           /\ row.status = "ACTIVE" => session[s].status = "ACTIVE"

LEMMA RevokedRow ==
    ASSUME LoginTypes, NEW kept, NEW s \in Sessions
    PROVE  LET row == OthersRevoked(kept)[s] IN
           /\ Remembered(s, row)
           /\ row # NoSession => row.proof = session[s].proof
           /\ s # kept => ~(row # NoSession /\ row.status = "ACTIVE")
           /\ s = kept => row = session[s]
<1>1. OthersRevoked(kept)[s] = IF s # kept /\ Active(s) THEN [session[s] EXCEPT !.status = "REVOKED"]
                               ELSE session[s]
  BY DEF OthersRevoked
<1>2. CASE s # kept /\ Active(s)
  <2>1. session[s] \in SessionRows /\ session[s] # NoSession
    BY <1>2 DEF LoginTypes, Active
  <2>2. PICK row : row = [session[s] EXCEPT !.status = "REVOKED"]
    OBVIOUS
  <2>3. /\ row \in SessionRows /\ row # NoSession
        /\ row.version = session[s].version /\ row.challenge = session[s].challenge
        /\ row.proof = session[s].proof /\ row.status = "REVOKED"
    BY <2>1, <2>2, NamesAssumption DEF SessionRows, Names
  <2> QED BY <1>1, <1>2, <2>1, <2>2, <2>3 DEF Remembered
<1>3. CASE ~(s # kept /\ Active(s))
  BY <1>1, <1>3 DEF LoginTypes, Active, Remembered
<1> QED BY <1>2, <1>3

LEMMA SecuredRow ==
    ASSUME LoginTypes, NEW kept \in Sessions, Active(kept), NEW secret \in Secrets,
           NEW s \in Sessions
    PROVE  LET row == Secured(kept, secret)[s] IN
           /\ Remembered(s, row)
           /\ s # kept => ~(row # NoSession /\ row.status = "ACTIVE")
           /\ s = kept => row.proof = secret
<1>1. PICK others : others = OthersRevoked(kept)
  OBVIOUS
<1>2. Secured(kept, secret) =
          [[others EXCEPT ![kept].assurance = "recent"] EXCEPT ![kept].proof = secret]
  BY <1>1 DEF Secured
<1>3. DOMAIN others = Sessions
  BY <1>1 DEF OthersRevoked
<1>4. CASE s # kept
  BY <1>1, <1>2, <1>3, <1>4, RevokedRow
<1>5. CASE s = kept
  <2>1. others[s] = session[s] /\ session[s] \in SessionRows /\ session[s] # NoSession
    BY <1>1, <1>5, RevokedRow DEF Active, LoginTypes
  <2>2. PICK row : row = [[session[s] EXCEPT !.assurance = "recent"] EXCEPT !.proof = secret]
    OBVIOUS
  <2>3. Secured(kept, secret)[s] = row
    BY <1>2, <1>3, <1>5, <2>1, <2>2
  <2>4. /\ row \in SessionRows /\ row # NoSession
        /\ row.version = session[s].version /\ row.challenge = session[s].challenge
        /\ row.proof = secret /\ row.status = session[s].status
    BY <2>1, <2>2, NamesAssumption DEF SessionRows, Proofs, Names
  <2> QED BY <1>5, <2>1, <2>3, <2>4 DEF Remembered
<1> QED BY <1>4, <1>5

SessionsRemembered ==
    /\ session' = [s \in Sessions |-> session'[s]]
    /\ \A s \in Sessions : Remembered(s, session'[s])

LEMMA RememberedTypes ==
    SessionsRemembered => session' \in [Sessions -> SessionRows \cup {NoSession}]
<1> SUFFICES ASSUME SessionsRemembered, NEW f, f = session'
             PROVE  f \in [Sessions -> SessionRows \cup {NoSession}]
  OBVIOUS
<1>1. f = [s \in Sessions |-> f[s]] /\ \A s \in Sessions : f[s] \in SessionRows \cup {NoSession}
  BY DEF SessionsRemembered, Remembered
<1> QED BY <1>1

LEMMA RevokedRemembered ==
    ASSUME LoginTypes, NEW kept, session' = OthersRevoked(kept)
    PROVE  SessionsRemembered
<1>1. session' = [s \in Sessions |-> session'[s]]
  BY DEF OthersRevoked
<1> QED BY <1>1, RevokedRow DEF SessionsRemembered

LEMMA SecuredRemembered ==
    ASSUME LoginTypes, NEW kept \in Sessions, Active(kept), NEW secret \in Secrets,
           session' = Secured(kept, secret)
    PROVE  SessionsRemembered
<1>1. PICK others : others = OthersRevoked(kept) /\ others = [s \in Sessions |-> others[s]]
  BY DEF OthersRevoked
<1>2. session' = [s \in Sessions |-> session'[s]]
  BY <1>1 DEF Secured
<1> QED BY <1>2, SecuredRow DEF SessionsRemembered

LEMMA SessionsStay ==
    LoginTypes /\ session' = session => SessionsRemembered
<1> SUFFICES ASSUME LoginTypes, session' = session PROVE SessionsRemembered
  OBVIOUS
<1>1. session = [s \in Sessions |-> session[s]]
  BY DEF LoginTypes
<1> QED BY <1>1 DEF SessionsRemembered, Remembered, LoginTypes

\* One session changes in what it is not known by.
LEMMA OneRemembered ==
    ASSUME LoginTypes, NEW s \in Sessions, NEW row,
           session' = [session EXCEPT ![s] = row], Remembered(s, row)
    PROVE  SessionsRemembered
<1>1. session = [r \in Sessions |-> session[r]]
  BY DEF LoginTypes
<1>2. session' = [r \in Sessions |-> session'[r]]
  BY <1>1
<1>3. ASSUME NEW r \in Sessions PROVE Remembered(r, session'[r])
  BY <1>1 DEF Remembered, LoginTypes
<1> QED BY <1>2, <1>3 DEF SessionsRemembered

LEMMA LapseRemembered ==
    ASSUME LoginTypes, NEW s \in Sessions, AssuranceLapses(s) \/ SessionRevoked(s)
    PROVE  SessionsRemembered
<1>1. session[s] \in SessionRows /\ session[s] # NoSession
  BY DEF LoginTypes, AssuranceLapses, SessionRevoked, Assured, Active
<1>2. CASE AssuranceLapses(s)
  <2>1. PICK row : row = [session[s] EXCEPT !.assurance = "lapsed"]
    OBVIOUS
  <2>2. session' = [session EXCEPT ![s] = row]
    BY <1>2, <2>1 DEF AssuranceLapses
  <2>3. Remembered(s, row)
    BY <1>1, <2>1, NamesAssumption DEF Remembered, SessionRows, Names
  <2> QED BY <2>2, <2>3, OneRemembered
<1>3. CASE SessionRevoked(s)
  <2>1. PICK row : row = [session[s] EXCEPT !.status = "REVOKED"]
    OBVIOUS
  <2>2. session' = [session EXCEPT ![s] = row]
    BY <1>3, <2>1 DEF SessionRevoked
  <2>3. Remembered(s, row)
    BY <1>1, <2>1, NamesAssumption DEF Remembered, SessionRows, Names
  <2> QED BY <2>2, <2>3, OneRemembered
<1> QED BY <1>2, <1>3

\* Every step but the creation of a session remembers the sessions.
LEMMA StepRemembers ==
    ASSUME TypeOK, [Next]_vars
    PROVE  SessionsRemembered \/ \E h \in Handlers, s \in Sessions : SessionCreated(h, s)
<1> USE FactorTypeParts
<1>1. ASSUME NEW h \in Handlers, Handle(h), ~\E s \in Sessions : SessionCreated(h, s)
      PROVE  SessionsRemembered
  <2>1. CASE ConfirmWrite(h)
    <3>1. call[h].secret \in Secrets /\ call[h].session \in Sessions
      BY <2>1 DEF ConfirmWrite, FactorCalls, IsCall
    <3> QED BY <2>1, <3>1, SecuredRemembered DEF ConfirmWrite
  <2>2. CASE RotatedWrite(h)
    <3>1. call[h].secret \in Secrets /\ call[h].session \in Sessions
      BY <2>2 DEF RotatedWrite, FactorCalls, IsCall
    <3> QED BY <2>2, <3>1, SecuredRemembered DEF RotatedWrite
  <2>3. CASE ~ConfirmWrite(h) /\ ~RotatedWrite(h)
    <3>1. session' = session
      BY <1>1, <2>3 DEF Handle, EnrollRead, RotateRead, EnrollWrite, RotateWrite, ConfirmRead,
         RotatedRead, ProveRead, LoginUnchallenged, ProveWrite, Abandoned
    <3> QED BY <3>1, SessionsStay
  <2> QED BY <2>1, <2>2, <2>3
<1>2. ASSUME NEW kept, PasswordChanged(kept) PROVE SessionsRemembered
  BY <1>2, RevokedRemembered DEF PasswordChanged
<1>3. ASSUME NEW s \in Sessions, AssuranceLapses(s) \/ SessionRevoked(s) PROVE SessionsRemembered
  BY <1>3, LapseRemembered
<1>4. ASSUME NEW s \in Sessions, CancelRotation(s) PROVE SessionsRemembered
  BY <1>4, SessionsStay DEF CancelRotation
<1>5. ASSUME NEW c \in Challenges, ChallengeExpires(c) \/ LoginChallenged(c) PROVE SessionsRemembered
  BY <1>5, SessionsStay DEF ChallengeExpires, LoginChallenged
<1>6. CASE RotationExpires
  BY <1>6, SessionsStay DEF RotationExpires
<1>7. CASE UNCHANGED vars
  BY <1>7, SessionsStay DEF vars
<1> QED BY <1>1, <1>2, <1>3, <1>4, <1>5, <1>6, <1>7 DEF Next

LEMMA SecondFactorInit ==
    ASSUME Init
    PROVE  TypeOK
<1>1. FactorTypes
  BY NamesAssumption DEF Init, FactorTypes, Versions, Names
<1>2. LoginTypes
  <2>1. PICK row : row = [status |-> "ACTIVE", version |-> 0, assurance |-> "none",
                          proof |-> NoProof, challenge |-> NoChallenge]
    OBVIOUS
  <2>2. row \in SessionRows
    BY <2>1, NamesAssumption DEF SessionRows, Versions, Proofs, Names
  <2> QED BY <2>1, <2>2 DEF Init, LoginTypes
<1>3. FactorCalls
  BY DEF Init, FactorCalls, IsCall
<1> QED BY <1>1, <1>2, <1>3, FactorTypeParts

LEMMA NewBatch == ASSUME FactorTypes, batch' = batch + 1 PROVE batch' \in Nat /\ NewCodes \subseteq Codes
BY DEF FactorTypes, NewCodes, Codes

\* What the steps of a handler leave in its call is of its kind.
LEMMA FactorCallsStay ==
    ASSUME TypeOK, NEW h \in Handlers, Handle(h)
    PROVE  FactorCalls'
<1> USE FactorTypeParts
<1>1. ASSUME NEW secret \in Secrets, EnrollRead(h, secret) PROVE FactorCalls'
  <2>1. PICK read : read = [secret |-> secret, found |-> factor # NoFactor]
    OBVIOUS
  <2>2. IsCall("enroll", read)
    BY <2>1 DEF IsCall
  <2> QED BY <1>1, <2>1, <2>2, FactorCallsKept DEF EnrollRead
<1>2. ASSUME NEW secret \in Secrets, NEW s \in Sessions, RotateRead(h, s, secret) PROVE FactorCalls'
  <2>1. PICK read : read = [secret |-> secret]
    OBVIOUS
  <2>2. IsCall("rotate", read)
    BY <2>1 DEF IsCall
  <2> QED BY <1>2, <2>1, <2>2, FactorCallsKept DEF RotateRead
<1>3. ASSUME NEW s \in Sessions, ConfirmRead(h, s) PROVE FactorCalls'
  <2>1. PICK read : read = [secret |-> factor.secret, session |-> s]
    OBVIOUS
  <2>2. IsCall("confirm", read)
    BY <1>3, <2>1 DEF IsCall, ConfirmRead, Pending, FactorTypes, FactorRows
  <2> QED BY <1>3, <2>1, <2>2, FactorCallsKept DEF ConfirmRead
<1>4. ASSUME NEW s \in Sessions, RotatedRead(h, s) PROVE FactorCalls'
  <2>1. PICK read : read = [id |-> rotation.id, secret |-> rotation.secret, session |-> s]
    OBVIOUS
  <2>2. IsCall("rotated", read)
    BY <1>4, <2>1 DEF IsCall, RotatedRead, FactorTypes, RotationRows
  <2> QED BY <1>4, <2>1, <2>2, FactorCallsKept DEF RotatedRead
<1>5. ASSUME LoginUnchallenged(h) PROVE FactorCalls'
  <2>1. PICK read : read = [version |-> version, assurance |-> "none", proof |-> NoProof,
                            challenge |-> NoChallenge]
    OBVIOUS
  <2>2. IsCall("login", read)
    BY <2>1 DEF IsCall, Logins, Proofs, FactorTypes
  <2> QED BY <1>5, <2>1, <2>2, FactorCallsKept DEF LoginUnchallenged
<1>6. ASSUME NEW c \in Challenges, ProveRead(h, c) PROVE FactorCalls'
  <2>1. PICK proof \in {factor.secret} \cup codes :
            Become(h, "prove", [version |-> version, assurance |-> "recent", proof |-> proof,
                                challenge |-> c])
    BY <1>6 DEF ProveRead
  <2>2. PICK read : read = [version |-> version, assurance |-> "recent", proof |-> proof,
                            challenge |-> c]
    OBVIOUS
  <2>3. proof \in Proofs
    BY <1>6, <2>1 DEF Proofs, ProveRead, Enabled, FactorTypes, FactorRows
  <2>4. IsCall("prove", read)
    BY <2>2, <2>3 DEF IsCall, Logins, FactorTypes
  <2> QED BY <2>1, <2>2, <2>4, FactorCallsKept
<1>7. ASSUME ProveWrite(h) PROVE FactorCalls'
  <2>1. IsCall("login", call[h])
    BY <1>7 DEF ProveWrite, IsCall, FactorCalls
  <2> QED BY <1>7, <2>1, FactorCallsKept DEF ProveWrite
<1>8. CASE Done(h)
  BY <1>8, FactorDone
<1> QED
  BY <1>1, <1>2, <1>3, <1>4, <1>5, <1>6, <1>7, <1>8 DEF Handle, EnrollWrite, ConfirmWrite,
     RotateWrite, RotatedWrite, SessionCreated, Abandoned

LEMMA FactorTypesStay ==
    ASSUME TypeOK, [Next]_vars
    PROVE  FactorTypes'
<1> USE FactorTypeParts
<1>1. ASSUME NEW h \in Handlers, Handle(h) PROVE FactorTypes'
  <2>1. CASE EnrollWrite(h)
    BY <2>1 DEF EnrollWrite, FactorTypes, FactorRows, FactorCalls, IsCall
  <2>2. CASE ConfirmWrite(h)
    BY <2>2, NewBatch DEF ConfirmWrite, FactorTypes, FactorRows, Pending
  <2>3. CASE RotateWrite(h)
    <3>1. call[h].secret \in Secrets
      BY <2>3 DEF RotateWrite, FactorCalls, IsCall
    <3>2. (IF rotation = NoRotation THEN call[h].secret ELSE rotation.id) \in Secrets
      BY <3>1 DEF FactorTypes, RotationRows
    <3> QED BY <2>3, <3>1, <3>2 DEF RotateWrite, FactorTypes, RotationRows
  <2>4. CASE RotatedWrite(h)
    <3>1. call[h].secret \in Secrets
      BY <2>4 DEF RotatedWrite, FactorCalls, IsCall
    <3> QED BY <2>4, <3>1, NewBatch DEF RotatedWrite, FactorTypes, FactorRows, Enabled
  <2>5. CASE ProveWrite(h)
    BY <2>5 DEF ProveWrite, FactorTypes
  <2>6. CASE \E secret \in Secrets : EnrollRead(h, secret) \/ \E s \in Sessions : RotateRead(h, s, secret)
    BY <2>6 DEF EnrollRead, RotateRead, FactorTypes, factors
  <2>7. CASE LoginUnchallenged(h) \/ Abandoned(h)
    BY <2>7 DEF LoginUnchallenged, Abandoned, FactorTypes, factors
  <2>8. CASE \E s \in Sessions : ConfirmRead(h, s) \/ RotatedRead(h, s) \/ SessionCreated(h, s)
    BY <2>8 DEF ConfirmRead, RotatedRead, SessionCreated, FactorTypes, factors
  <2>9. CASE \E c \in Challenges : ProveRead(h, c)
    BY <2>9 DEF ProveRead, FactorTypes, factors
  <2> QED BY <1>1, <2>1, <2>2, <2>3, <2>4, <2>5, <2>6, <2>7, <2>8, <2>9 DEF Handle
<1>2. ASSUME NEW kept, PasswordChanged(kept) PROVE FactorTypes'
  BY <1>2, NamesAssumption DEF PasswordChanged, FactorTypes, factors, Versions, Names
<1>3. ASSUME NEW s \in Sessions, AssuranceLapses(s) \/ SessionRevoked(s) PROVE FactorTypes'
  BY <1>3 DEF AssuranceLapses, SessionRevoked, FactorTypes, factors
<1>4. ASSUME NEW s \in Sessions, CancelRotation(s) PROVE FactorTypes'
  BY <1>4 DEF CancelRotation, FactorTypes
<1>5. ASSUME NEW c \in Challenges, ChallengeExpires(c) \/ LoginChallenged(c) PROVE FactorTypes'
  BY <1>5 DEF ChallengeExpires, LoginChallenged, FactorTypes, factors
<1>6. CASE RotationExpires
  BY <1>6 DEF RotationExpires, FactorTypes, RotationRows
<1>7. CASE UNCHANGED vars
  BY <1>7 DEF vars, FactorTypes, factors
<1> QED BY <1>1, <1>2, <1>3, <1>4, <1>5, <1>6, <1>7 DEF Next

\* A challenge is never forgotten, nor is it opened again once it is consumed.
ChallengesMove ==
    /\ challenge' \in [Challenges -> ChallengeRows \cup {NoChallenge}]
    /\ \A c \in Challenges : challenge[c] # NoChallenge =>
           challenge'[c] # NoChallenge /\ (~Unconsumed(c) => ~Unconsumed(c)')

LEMMA OneChallengeMoves ==
    ASSUME LoginTypes, NEW c \in Challenges, NEW row \in ChallengeRows,
           challenge' = [challenge EXCEPT ![c] = row],
           challenge[c] # NoChallenge /\ ~Unconsumed(c) => row.state = "consumed"
    PROVE  ChallengesMove /\ challenge'[c] = row
BY NamesAssumption DEF ChallengesMove, LoginTypes, Unconsumed, Names

\* A challenge that is being proved has been found.
ChallengesFound ==
    \A h \in Handlers : pc[h] = "prove" => challenge[call[h].challenge] # NoChallenge

LEMMA StepMovesChallenges ==
    ASSUME TypeOK, ChallengesFound, [Next]_vars
    PROVE  ChallengesMove
<1> USE FactorTypeParts
<1>1. CASE challenge' = challenge
  BY <1>1 DEF ChallengesMove, LoginTypes, Unconsumed
<1>2. ASSUME NEW h \in Handlers, ProveWrite(h) PROVE ChallengesMove
  <2>1. call[h].challenge \in Challenges
    BY <1>2 DEF ProveWrite, FactorCalls, IsCall
  <2>2. CASE challenge[call[h].challenge] \in ChallengeRows
    <3>1. PICK row : row = [challenge[call[h].challenge] EXCEPT !.state = "consumed"]
      OBVIOUS
    <3>2. row \in ChallengeRows /\ row.state = "consumed"
      BY <2>2, <3>1 DEF ChallengeRows
    <3>3. challenge' = [challenge EXCEPT ![call[h].challenge] = row]
      BY <1>2, <3>1 DEF ProveWrite
    <3> QED BY <2>1, <3>2, <3>3, OneChallengeMoves
  <2>3. CASE challenge[call[h].challenge] = NoChallenge
    BY <1>2, <2>3 DEF ProveWrite, ChallengesFound
  <2> QED BY <2>1, <2>2, <2>3 DEF LoginTypes
<1>3. ASSUME NEW c \in Challenges, ChallengeExpires(c) PROVE ChallengesMove
  <2>1. PICK row : row = [challenge[c] EXCEPT !.state = "expired"]
    OBVIOUS
  <2>2. row \in ChallengeRows
    BY <1>3, <2>1 DEF ChallengeRows, ChallengeExpires, LoginTypes
  <2> QED BY <1>3, <2>1, <2>2, OneChallengeMoves DEF ChallengeExpires, Unconsumed
<1>4. ASSUME NEW c \in Challenges, LoginChallenged(c) PROVE ChallengesMove
  <2>1. PICK row : row = [version |-> version, state |-> "open"]
    OBVIOUS
  <2>2. row \in ChallengeRows
    BY <2>1 DEF ChallengeRows, FactorTypes
  <2> QED BY <1>4, <2>1, <2>2, OneChallengeMoves DEF LoginChallenged
<1> QED
  BY <1>1, <1>2, <1>3, <1>4 DEF Next, Handle, EnrollRead, RotateRead, EnrollWrite, ConfirmWrite,
     RotateWrite, RotatedWrite, ConfirmRead, RotatedRead, SessionCreated, ProveRead,
     LoginUnchallenged, Abandoned, RotationExpires, PasswordChanged, AssuranceLapses,
     SessionRevoked, CancelRotation, vars

\* Which handlers a step leaves proving a challenge, or logging in.
LoginsMove(h) ==
    \/ UNCHANGED <<pc[h], call[h]>>
    \/ pc'[h] \notin {"prove", "login"}
    \/ LoginUnchallenged(h)
    \/ \E c \in Challenges : ProveRead(h, c)
    \/ ProveWrite(h)

LEMMA StepMovesLogins ==
    ASSUME TypeOK, [Next]_vars, NEW h \in Handlers
    PROVE  LoginsMove(h)
<1> USE FactorTypeParts DEF LoginsMove
<1>1. ASSUME NEW g \in Handlers, Handle(g) PROVE LoginsMove(h)
  <2>1. CASE Done(g)
    BY <2>1, FactorDone
  <2>2. CASE \E secret \in Secrets : EnrollRead(g, secret) \/ \E s \in Sessions : RotateRead(g, s, secret)
    BY <2>2, FactorCallsKept DEF EnrollRead, RotateRead
  <2>3. CASE \E s \in Sessions : ConfirmRead(g, s) \/ RotatedRead(g, s)
    BY <2>3, FactorCallsKept DEF ConfirmRead, RotatedRead
  <2>4. CASE LoginUnchallenged(g)
    BY <2>4, FactorCallsKept DEF LoginUnchallenged
  <2>5. CASE ProveWrite(g)
    BY <2>5, FactorCallsKept DEF ProveWrite
  <2>6. ASSUME NEW c \in Challenges, ProveRead(g, c) PROVE LoginsMove(h)
    <3>1. PICK read : Become(g, "prove", read)
      BY <2>6 DEF ProveRead
    <3> QED BY <2>6, <3>1, FactorCallsKept
  <2> QED
    BY <1>1, <2>1, <2>2, <2>3, <2>4, <2>5, <2>6 DEF Handle, EnrollWrite, ConfirmWrite,
       RotateWrite, RotatedWrite, SessionCreated, Abandoned
<1>2. CASE UNCHANGED <<pc, call>>
  BY <1>2
<1> QED
  BY <1>1, <1>2 DEF Next, RotationExpires, PasswordChanged, AssuranceLapses, SessionRevoked,
     CancelRotation, ChallengeExpires, LoginChallenged, vars

LEMMA TypesStay ==
    ASSUME TypeOK, ChallengesFound, [Next]_vars
    PROVE  TypeOK' /\ ChallengesFound'
<1> USE FactorTypeParts
<1>1. FactorTypes'
  BY FactorTypesStay
<1>2. ChallengesMove
  BY StepMovesChallenges
<1>3. session' \in [Sessions -> SessionRows \cup {NoSession}]
  <2>1. ASSUME NEW h \in Handlers, NEW s \in Sessions, SessionCreated(h, s)
        PROVE  session' \in [Sessions -> SessionRows \cup {NoSession}]
    <3>1. PICK row : row = [status |-> "ACTIVE", version |-> call[h].version,
               assurance |-> call[h].assurance, proof |-> call[h].proof,
               challenge |-> call[h].challenge]
      OBVIOUS
    <3>2. row \in SessionRows
      BY <2>1, <3>1 DEF SessionCreated, FactorCalls, IsCall, Logins, SessionRows
    <3>3. session' = [session EXCEPT ![s] = row]
      BY <2>1, <3>1 DEF SessionCreated
    <3> QED BY <3>2, <3>3 DEF LoginTypes
  <2> QED BY <2>1, StepRemembers, RememberedTypes
<1>4. FactorCalls'
  <2>1. CASE \E h \in Handlers : Handle(h)
    BY <2>1, FactorCallsStay
  <2>2. CASE UNCHANGED <<pc, call>>
    BY <2>2 DEF FactorCalls, IsCall
  <2> QED
    BY <2>1, <2>2 DEF Next, RotationExpires, PasswordChanged, AssuranceLapses, SessionRevoked,
       CancelRotation, ChallengeExpires, LoginChallenged, vars
<1>5. LoginTypes'
  BY <1>2, <1>3 DEF LoginTypes, ChallengesMove
<1>6. TypeOK'
  BY <1>1, <1>4, <1>5 DEF TypeOK, FactorTypes, LoginTypes, FactorCalls
<1>7. ASSUME NEW h \in Handlers, pc'[h] = "prove" PROVE challenge'[call'[h].challenge] # NoChallenge
  <2>1. CASE UNCHANGED <<pc[h], call[h]>>
    <3>1. call[h].challenge \in Challenges /\ challenge[call[h].challenge] # NoChallenge
      BY <1>7, <2>1 DEF FactorCalls, IsCall, ChallengesFound
    <3> QED BY <1>2, <2>1, <3>1 DEF ChallengesMove
  <2>2. ASSUME NEW c \in Challenges, ProveRead(h, c)
        PROVE  challenge'[call'[h].challenge] # NoChallenge
    <3>1. PICK proof : Become(h, "prove", [version |-> version, assurance |-> "recent",
                                           proof |-> proof, challenge |-> c])
      BY <2>2 DEF ProveRead
    <3>2. call'[h].challenge = c
      BY <3>1, FactorCallsKept
    <3> QED BY <2>2, <3>2 DEF ProveRead
  <2>3. CASE LoginUnchallenged(h) \/ ProveWrite(h)
    <3>1. pc'[h] = "login"
      BY <2>3, FactorCallsKept DEF LoginUnchallenged, ProveWrite
    <3> QED BY <1>7, <3>1
  <2> QED BY <1>7, <2>1, <2>2, <2>3, StepMovesLogins DEF LoginsMove
<1> QED BY <1>6, <1>7 DEF ChallengesFound

\* What becomes of the recovery codes: some are spent, or all are dropped with a
\* factor that was not in force, or a new batch takes their place.
CodesMove ==
    \/ codes' \subseteq codes /\ batch' = batch /\ factor' = factor
    \/ codes' = {} /\ batch' = batch
    \/ codes' = NewCodes /\ batch' = batch + 1 /\ Enabled(factor')

LEMMA StepMovesCodes ==
    ASSUME TypeOK, [Next]_vars
    PROVE  CodesMove
<1> USE FactorTypeParts
<1>1. ASSUME NEW h \in Handlers, ConfirmWrite(h) PROVE CodesMove
  BY <1>1, NamesAssumption DEF ConfirmWrite, CodesMove, Pending, Enabled, FactorTypes,
     FactorRows, Names
<1>2. ASSUME NEW h \in Handlers, RotatedWrite(h) PROVE CodesMove
  <2>1. call[h].secret \in Secrets
    BY <1>2 DEF RotatedWrite, FactorCalls, IsCall
  <2> QED BY <1>2, <2>1, NamesAssumption DEF RotatedWrite, CodesMove, Enabled, FactorTypes,
             FactorRows, Names
<1>3. ASSUME NEW h \in Handlers, EnrollWrite(h) PROVE CodesMove
  BY <1>3 DEF EnrollWrite, CodesMove
<1>4. ASSUME NEW h \in Handlers, ProveWrite(h) PROVE CodesMove
  BY <1>4 DEF ProveWrite, CodesMove
<1>5. CASE UNCHANGED <<factor, batch, codes>>
  BY <1>5 DEF CodesMove
<1> QED
  BY <1>1, <1>2, <1>3, <1>4, <1>5 DEF Next, Handle, EnrollRead, RotateRead,
     RotateWrite, ConfirmRead, RotatedRead, SessionCreated, ProveRead, ChallengeExpires,
     LoginUnchallenged, Abandoned, RotationExpires, PasswordChanged, AssuranceLapses,
     SessionRevoked, CancelRotation, LoginChallenged, vars, factors

LEMMA CodesStay ==
    ASSUME TypeOK, CodesOfFactor, [Next]_vars
    PROVE  CodesOfFactor'
<1>1. CASE codes' \subseteq codes /\ batch' = batch /\ factor' = factor
  BY <1>1 DEF CodesOfFactor, Enabled
<1>2. CASE codes' = {}
  BY <1>2 DEF CodesOfFactor
<1>3. CASE codes' = NewCodes /\ batch' = batch + 1 /\ Enabled(factor')
  BY <1>3 DEF CodesOfFactor, NewCodes, Enabled
<1> QED BY <1>1, <1>2, <1>3, StepMovesCodes DEF CodesMove

\* No session, and no login on its way to one, is ahead of the user.
VersionsBehind ==
    /\ \A s \in Sessions : session[s] # NoSession => session[s].version <= version
    /\ \A h \in Handlers : pc[h] \in {"prove", "login"} => call[h].version <= version

LEMMA VersionsStay ==
    ASSUME TypeOK, VersionsBehind, [Next]_vars
    PROVE  VersionsBehind' /\ version <= version' 
<1> USE FactorTypeParts
<1>1. version \in Int /\ version' \in Int /\ version <= version'
  <2>1. version \in Int /\ version' \in Int
    BY FactorTypesStay, NamesAssumption DEF FactorTypes, Versions, Names
  <2>2. version' = version \/ version' = version + 1
    BY DEF Next, Handle, EnrollRead, RotateRead, EnrollWrite, ConfirmWrite,
     RotateWrite, RotatedWrite, ConfirmRead, RotatedRead, SessionCreated, ProveRead,
     ProveWrite, ChallengeExpires,
     LoginUnchallenged, Abandoned, RotationExpires, PasswordChanged, AssuranceLapses,
     SessionRevoked, CancelRotation, LoginChallenged, vars
  <2> QED BY <2>1, <2>2
<1>2. ASSUME NEW h \in Handlers, pc'[h] \in {"prove", "login"} PROVE call'[h].version <= version'
  <2>1. CASE pc[h] \in {"prove", "login"} /\ call'[h] = call[h]
    <3>1. call[h].version \in Int /\ call[h].version <= version
      BY <2>1, NamesAssumption DEF FactorCalls, IsCall, Logins, Versions, VersionsBehind,
         Names
    <3> QED BY <1>1, <2>1, <3>1
  <2>2. CASE ProveWrite(h)
    <3>1. pc[h] = "prove" /\ call'[h] = call[h]
      BY <2>2, FactorCallsKept DEF ProveWrite
    <3> QED BY <2>1, <3>1
  <2>3. CASE LoginUnchallenged(h)
    <3>1. call'[h].version = version
      BY <2>3, FactorCallsKept DEF LoginUnchallenged
    <3> QED BY <1>1, <3>1
  <2>4. ASSUME NEW c \in Challenges, ProveRead(h, c) PROVE call'[h].version <= version'
    <3>1. call'[h].version = version
      BY <2>4, FactorCallsKept DEF ProveRead
    <3> QED BY <1>1, <3>1
  <2> QED BY <1>2, <2>1, <2>2, <2>3, <2>4, StepMovesLogins DEF LoginsMove
<1>3. ASSUME NEW s \in Sessions, session'[s] # NoSession PROVE session'[s].version <= version'
  <2>1. CASE SessionsRemembered
    <3>1. session[s] # NoSession /\ session'[s].version = session[s].version
      BY <1>3, <2>1 DEF SessionsRemembered, Remembered
    <3>2. session[s].version \in Int /\ session[s].version <= version
      BY <3>1, NamesAssumption DEF LoginTypes, SessionRows, Versions, VersionsBehind, Names
    <3> QED BY <1>1, <3>1, <3>2
  <2>2. ASSUME NEW h \in Handlers, NEW r \in Sessions, SessionCreated(h, r)
        PROVE  session'[s].version <= version'
    <3>1. CASE r = s
      <4>1. session'[s].version = version
        BY <2>2, <3>1 DEF SessionCreated, LoginTypes
      <4> QED BY <1>1, <4>1
    <3>2. CASE r # s
      <4>1. session'[s] = session[s]
        BY <2>2, <3>2 DEF SessionCreated, LoginTypes
      <4>2. session[s].version \in Int /\ session[s].version <= version
        BY <1>3, <4>1, NamesAssumption DEF LoginTypes, SessionRows, Versions, VersionsBehind,
           Names
      <4> QED BY <1>1, <4>1, <4>2
    <3> QED BY <3>1, <3>2
  <2> QED BY <2>1, <2>2, StepRemembers
<1> QED BY <1>1, <1>2, <1>3 DEF VersionsBehind

-----------------------------------------------------------------------------
\* What has let a login in is spent: its challenge is consumed, and its recovery
\* code is not among those that are left, nor will a later batch bring it back.
Spent(claim) ==
    /\ claim.challenge # NoChallenge =>
           /\ claim.challenge \in Challenges /\ challenge[claim.challenge] # NoChallenge
           /\ ~Unconsumed(claim.challenge)
    /\ claim.proof \notin Secrets \cup {NoProof} =>
           claim.proof \in Codes \ codes /\ claim.proof.batch <= batch

ClaimsSpent == \A x \in Claimants : Spent(Claim(x))
ProvesOldCode ==
    \A h \in Handlers : pc[h] = "prove" /\ call[h].proof \notin Secrets \cup {NoProof} =>
        call[h].proof \in Codes /\ call[h].proof.batch <= batch

\* Neither the challenge nor the recovery code of two claims is the same.
Apart(a, b) ==
    /\ a.challenge = NoChallenge \/ a.challenge # b.challenge
    /\ a.proof \in Secrets \cup {NoProof} \/ a.proof # b.proof

SameClaim(a, b) ==
    b.challenge = a.challenge /\ (b.proof = a.proof \/ b.proof \in Secrets \cup {NoProof})

LEMMA GrantedApart ==
    GrantedOnce <=> \A x, y \in Claimants : x # y => Apart(Claim(x), Claim(y))
BY DEF GrantedOnce, Apart

LEMMA ApartStays ==
    ASSUME NEW a, NEW b, NEW c, NEW d, Apart(a, b), SameClaim(a, c), SameClaim(b, d)
    PROVE  Apart(c, d)
BY DEF Apart, SameClaim

LEMMA SpentStays ==
    ASSUME TypeOK, CodesMove, ChallengesMove, NEW a, NEW b, Spent(a), SameClaim(a, b)
    PROVE  Spent(b)'
<1>1. b.challenge # NoChallenge =>
          /\ b.challenge \in Challenges /\ challenge'[b.challenge] # NoChallenge
          /\ ~Unconsumed(b.challenge)'
  BY DEF Spent, SameClaim, ChallengesMove
<1>2. ASSUME b.proof \notin Secrets \cup {NoProof}
      PROVE  b.proof \in Codes \ codes' /\ b.proof.batch <= batch'
  <2>1. PICK code : code = b.proof
    OBVIOUS
  <2>2. code \in Codes \ codes /\ code.batch <= batch
    BY <1>2, <2>1 DEF SameClaim, Spent
  <2>3. batch \in Int /\ code.batch \in Int
    BY <2>2 DEF Codes, TypeOK
  <2>4. code \notin codes' /\ code.batch <= batch'
    <3>1. CASE codes' \subseteq codes /\ batch' = batch
      BY <2>2, <3>1
    <3>2. CASE codes' = {} /\ batch' = batch
      BY <2>2, <3>2
    <3>3. CASE codes' = NewCodes /\ batch' = batch + 1
      BY <2>2, <2>3, <3>3 DEF NewCodes
    <3> QED BY <3>1, <3>2, <3>3 DEF CodesMove
  <2> QED BY <2>1, <2>2, <2>4
<1> QED BY <1>1, <1>2 DEF Spent

\* Who claims after a step has claimed the same before, or has just been let in.
LEMMA ClaimantsStay ==
    ASSUME TypeOK, [Next]_vars, NEW x \in Claimants',
           x \in Handlers => ~LoginUnchallenged(x) /\ ~ProveWrite(x),
           x \in Sessions => session[x] # NoSession
    PROVE  x \in Claimants /\ SameClaim(Claim(x), Claim(x)')
<1> USE FactorTypeParts
<1>1. CASE x \in Sessions
  <2>1. session'[x] # NoSession
    BY <1>1, NamesAssumption DEF Claimants, Names
  <2>2. CASE SessionsRemembered
    BY <1>1, <2>1, <2>2 DEF SessionsRemembered, Remembered, SameClaim, Claim, Claimants
  <2>3. ASSUME NEW h \in Handlers, NEW s \in Sessions, SessionCreated(h, s)
        PROVE  session'[x] = session[x]
    BY <1>1, <2>3 DEF SessionCreated, LoginTypes
  <2>4. CASE session'[x] = session[x]
    BY <1>1, <2>1, <2>4 DEF SameClaim, Claim, Claimants
  <2> QED BY <2>2, <2>3, <2>4, StepRemembers
<1>2. CASE x \in Handlers
  <2>1. x \notin Sessions /\ pc'[x] = "login"
    BY <1>2, NamesAssumption DEF Claimants, Names
  <2>2. ASSUME NEW c \in Challenges, ProveRead(x, c) PROVE FALSE
    <3>1. PICK read : Become(x, "prove", read)
      BY <2>2 DEF ProveRead
    <3> QED BY <1>2, <2>1, <3>1, FactorCallsKept
  <2>3. UNCHANGED <<pc[x], call[x]>>
    BY <1>2, <2>1, <2>2, StepMovesLogins DEF LoginsMove
  <2> QED BY <1>2, <2>1, <2>3 DEF SameClaim, Claim, Claimants
<1> QED BY <1>1, <1>2 DEF Claimants

\* What a login was let in with before its session was inserted.
LEMMA CreatedClaims ==
    ASSUME TypeOK, NEW h \in Handlers, NEW s \in Sessions, SessionCreated(h, s)
    PROVE  /\ h \in Claimants /\ s \in Claimants' /\ s \notin Claimants /\ h \notin Claimants'
           /\ SameClaim(Claim(h), Claim(s)')
<1> USE FactorTypeParts
<1>1. h \notin Sessions /\ s \notin Handlers /\ pc[h] = "login" /\ session[s] = NoSession
  BY NamesAssumption DEF SessionCreated, Names
<1>2. PICK row : row = [status |-> "ACTIVE", version |-> call[h].version,
           assurance |-> call[h].assurance, proof |-> call[h].proof,
           challenge |-> call[h].challenge]
  OBVIOUS
<1>3. session'[s] = row
  BY <1>2 DEF SessionCreated, LoginTypes
<1>4. row # NoSession
  BY <1>1, <1>2, NamesAssumption DEF FactorCalls, IsCall, Logins, SessionRows, Names
<1>5. pc'[h] = "idle"
  BY FactorDone DEF SessionCreated
<1>6. h \in Claimants /\ s \in Claimants' /\ s \notin Claimants /\ h \notin Claimants'
  BY <1>1, <1>3, <1>4, <1>5 DEF Claimants
<1>7. Claim(h) = call[h] /\ Claim(s)' = row
  BY <1>1, <1>3 DEF Claim
<1> QED BY <1>2, <1>6, <1>7 DEF SameClaim

\* What lets a login in just now has let in no other.
LEMMA ProvedClaims ==
    ASSUME TypeOK, ClaimsSpent, ProvesOldCode, ChallengesFound, NEW h \in Handlers, ProveWrite(h)
    PROVE  /\ Claim(h)' = call[h] /\ Spent(Claim(h))'
           /\ \A x \in Claimants : Apart(call[h], Claim(x)) /\ Apart(Claim(x), call[h])
<1> USE FactorTypeParts
<1>1. /\ pc[h] = "prove" /\ call[h].challenge \in Challenges /\ Unconsumed(call[h].challenge)
      /\ challenge[call[h].challenge] \in ChallengeRows
      /\ call[h].proof \in Secrets \cup codes
  BY DEF ProveWrite, FactorCalls, IsCall, ChallengesFound, LoginTypes
<1>2. call'[h] = call[h]
  BY FactorCallsKept DEF ProveWrite
<1>3. Claim(h)' = call[h]
  BY <1>2, NamesAssumption DEF Claim, Names
<1>4. PICK login : login = call[h]
  OBVIOUS
<1>5. Spent(login)'
  <2>1. challenge'[login.challenge].state = "consumed" /\ challenge'[login.challenge] \in ChallengeRows
    BY <1>1, <1>4 DEF ProveWrite, LoginTypes, ChallengeRows
  <2>2. codes' = codes \ {login.proof} /\ batch' = batch
    BY <1>4 DEF ProveWrite
  <2>3. login.proof \notin Secrets \cup {NoProof} =>
            login.proof \in Codes \ codes' /\ login.proof.batch <= batch'
    BY <1>1, <1>4, <2>2 DEF ProvesOldCode
  <2> QED BY <1>1, <1>4, <2>1, <2>3, NamesAssumption DEF Spent, Unconsumed, Names
<1>6. ASSUME NEW x \in Claimants PROVE Apart(login, Claim(x)) /\ Apart(Claim(x), login)
  <2>1. PICK claim : claim = Claim(x)
    OBVIOUS
  <2>2. Spent(claim)
    BY <2>1 DEF ClaimsSpent
  <2> QED BY <1>1, <1>4, <2>1, <2>2 DEF Spent, Apart
<1>7. Spent(Claim(h))'
  BY <1>3, <1>4, <1>5 DEF Spent, Unconsumed
<1> QED BY <1>3, <1>4, <1>6, <1>7

LEMMA UnchallengedClaims ==
    ASSUME TypeOK, NEW h \in Handlers, LoginUnchallenged(h)
    PROVE  /\ Spent(Claim(h))'
           /\ \A claim : Apart(Claim(h)', claim) /\ Apart(claim, Claim(h)')
<1> USE FactorTypeParts
<1>1. call'[h].challenge = NoChallenge /\ call'[h].proof = NoProof /\ Claim(h)' = call'[h]
  BY FactorCallsKept, NamesAssumption DEF LoginUnchallenged, Claim, Names
<1>2. PICK login : login = call'[h]
  OBVIOUS
<1>3. Spent(login)' /\ \A claim : Apart(login, claim) /\ Apart(claim, login)
  BY <1>1, <1>2 DEF Spent, Apart
<1>4. Spent(Claim(h))'
  BY <1>1, <1>2, <1>3 DEF Spent, Unconsumed
<1> QED BY <1>1, <1>2, <1>3, <1>4


\* Who else claims, when a handler or a session makes a new claim.
LEMMA OthersStand ==
    ASSUME TypeOK, [Next]_vars, NEW h \in Handlers, NEW x \in Claimants', x # h,
           \/ LoginUnchallenged(h) \/ ProveWrite(h)
           \/ \E s \in Sessions : x # s /\ SessionCreated(h, s)
    PROVE  x \in Claimants /\ SameClaim(Claim(x), Claim(x)')
<1> USE FactorTypeParts
<1>1. CASE x \in Handlers
  <2>1. pc'[x] = pc[x]
    BY <1>1, FactorCallsKept, FactorDone DEF LoginUnchallenged, ProveWrite, SessionCreated
  <2>2. pc'[x] = "login" /\ x \notin Sessions
    BY <1>1, NamesAssumption DEF Claimants, Names
  <2>3. ~LoginUnchallenged(x) /\ ~ProveWrite(x)
    BY <2>1, <2>2 DEF LoginUnchallenged, ProveWrite
  <2> QED BY <2>2, <2>3, ClaimantsStay
<1>2. CASE x \in Sessions
  <2>1. session'[x] = session[x]
    BY <1>2 DEF LoginUnchallenged, ProveWrite, SessionCreated, LoginTypes
  <2>2. session'[x] # NoSession /\ x \notin Handlers
    BY <1>2, NamesAssumption DEF Claimants, Names
  <2> QED BY <2>1, <2>2, ClaimantsStay
<1> QED BY <1>1, <1>2 DEF Claimants

LEMMA GrantsStay ==
    ASSUME TypeOK, ChallengesFound, ClaimsSpent, ProvesOldCode, GrantedOnce, [Next]_vars
    PROVE  ClaimsSpent' /\ GrantedOnce'
<1> USE FactorTypeParts
<1>1. CodesMove /\ ChallengesMove
  BY StepMovesCodes, StepMovesChallenges
<1>2. ASSUME NEW w \in Claimants, NEW x, SameClaim(Claim(w), Claim(x)') PROVE Spent(Claim(x))'
  <2>1. PICK a, b : a = Claim(w) /\ b = Claim(x)'
    OBVIOUS
  <2>2. Spent(b)'
    BY <1>1, <1>2, <2>1, SpentStays DEF ClaimsSpent
  <2> QED BY <2>1, <2>2 DEF Spent, Unconsumed
<1>3. ASSUME NEW v \in Claimants, NEW w \in Claimants, v # w, NEW x, NEW y,
             SameClaim(Claim(v), Claim(x)'), SameClaim(Claim(w), Claim(y)')
      PROVE  Apart(Claim(x)', Claim(y)')
  BY <1>3, GrantedApart, ApartStays
<1> DEFINE Good == \A x \in Claimants' :
                      Spent(Claim(x))' /\ \A y \in Claimants' : x # y => Apart(Claim(x)', Claim(y)')
<1>4. ASSUME NEW h \in Handlers, NEW s \in Sessions, SessionCreated(h, s) PROVE Good
  <2> DEFINE Origin(x) == IF x = s THEN h ELSE x
  <2>1. ASSUME NEW x \in Claimants' PROVE Origin(x) \in Claimants /\ SameClaim(Claim(Origin(x)), Claim(x)')
    BY <1>4, CreatedClaims, OthersStand
  <2>2. ASSUME NEW x \in Claimants', NEW y \in Claimants', x # y PROVE Origin(x) # Origin(y)
    BY <1>4, <2>2, CreatedClaims
  <2> QED BY <1>2, <1>3, <2>1, <2>2
<1>5. ASSUME NEW h \in Handlers, ProveWrite(h) \/ LoginUnchallenged(h) PROVE Good
  <2>1. ASSUME NEW x \in Claimants', x # h PROVE x \in Claimants /\ SameClaim(Claim(x), Claim(x)')
    BY <1>5, <2>1, OthersStand
  <2>2. ASSUME NEW x \in Claimants', x # h
        PROVE  Apart(Claim(h)', Claim(x)') /\ Apart(Claim(x)', Claim(h)')
    <3>1. CASE LoginUnchallenged(h)
      BY <3>1, UnchallengedClaims
    <3>2. CASE ProveWrite(h)
      <4>1. Apart(Claim(h)', Claim(x)) /\ Apart(Claim(x), Claim(h)')
        BY <2>1, <2>2, <3>2, ProvedClaims
      <4>2. SameClaim(Claim(h)', Claim(h)')
        BY DEF SameClaim
      <4> QED BY <2>1, <2>2, <4>1, <4>2, ApartStays
    <3> QED BY <1>5, <3>1, <3>2
  <2>3. Spent(Claim(h))'
    BY <1>5, ProvedClaims, UnchallengedClaims
  <2> QED BY <1>2, <1>3, <2>1, <2>2, <2>3
<1>6. ASSUME \A h \in Handlers : /\ ~ProveWrite(h) /\ ~LoginUnchallenged(h)
                                 /\ \A s \in Sessions : ~SessionCreated(h, s)
      PROVE  Good
  <2>1. ASSUME NEW x \in Claimants' PROVE x \in Claimants /\ SameClaim(Claim(x), Claim(x)')
    <3>1. x \in Sessions => session[x] # NoSession
      <4>1. x \in Sessions => x \notin Handlers
        BY NamesAssumption DEF Names
      <4> QED BY <1>6, <4>1, StepRemembers DEF SessionsRemembered, Remembered, Claimants
    <3> QED BY <1>6, <3>1, ClaimantsStay
  <2> QED BY <1>2, <1>3, <2>1
<1>7. Good
  BY <1>4, <1>5, <1>6
<1> QED BY <1>7, GrantedApart DEF ClaimsSpent, GrantedOnce, Apart

LEMMA CodesProvedStay ==
    ASSUME TypeOK, CodesOfFactor, ProvesOldCode, [Next]_vars
    PROVE  ProvesOldCode'
<1> USE FactorTypeParts
<1>1. batch \in Int /\ batch' \in Int /\ batch <= batch'
  BY StepMovesCodes DEF CodesMove, FactorTypes
<1> SUFFICES ASSUME NEW h \in Handlers, pc'[h] = "prove", call'[h].proof \notin Secrets \cup {NoProof}
             PROVE  call'[h].proof \in Codes /\ call'[h].proof.batch <= batch'
  BY DEF ProvesOldCode
<1>2. CASE UNCHANGED <<pc[h], call[h]>>
  <2>1. PICK code : code = call[h].proof
    OBVIOUS
  <2>2. code \in Codes /\ code.batch <= batch
    BY <1>2, <2>1 DEF ProvesOldCode
  <2>3. code.batch \in Int
    BY <2>2 DEF Codes
  <2> QED BY <1>1, <1>2, <2>1, <2>2, <2>3
<1>3. ASSUME NEW c \in Challenges, ProveRead(h, c) PROVE call'[h].proof \in codes /\ batch' = batch
  <2>1. PICK proof \in {factor.secret} \cup codes :
            Become(h, "prove", [version |-> version, assurance |-> "recent", proof |-> proof,
                                challenge |-> c])
    BY <1>3 DEF ProveRead
  <2>2. call'[h].proof = proof
    BY <2>1, FactorCallsKept
  <2>3. factor.secret \in Secrets
    BY <1>3 DEF ProveRead, Enabled, FactorTypes, FactorRows
  <2> QED BY <1>3, <2>2, <2>3 DEF ProveRead, factors
<1>4. CASE call'[h].proof \in codes /\ batch' = batch
  <2>1. PICK code : code = call'[h].proof
    OBVIOUS
  <2>2. code \in Codes /\ code.batch = batch
    BY <1>4, <2>1 DEF CodesOfFactor, FactorTypes
  <2> QED BY <1>1, <1>4, <2>1, <2>2
<1>5. ~LoginUnchallenged(h) /\ ~ProveWrite(h)
  BY FactorCallsKept DEF LoginUnchallenged, ProveWrite
<1> QED BY <1>2, <1>3, <1>4, <1>5, StepMovesLogins DEF LoginsMove

-----------------------------------------------------------------------------
\* The secrets that are stored, or are about to be by the rotation they are of.
InUse(x) ==
    \/ factor # NoFactor /\ x = factor.secret
    \/ rotation # NoRotation /\ x \in {rotation.id, rotation.secret}
    \/ \E g \in Handlers : pc[g] = "rotated" /\ x \in {call[g].id, call[g].secret}

\* A handler that has generated a secret and not stored it yet.
Generated(h) == pc[h] \in {"enroll", "rotate"}

\* A generated secret is nobody else's.
SecretsFresh ==
    /\ \A x \in Secrets : InUse(x) => x \in issued
    /\ \A h \in Handlers : Generated(h) => call[h].secret \in issued /\ ~InUse(call[h].secret)
    /\ \A g, h \in Handlers : Generated(g) /\ Generated(h) /\ g # h =>
           call[g].secret # call[h].secret

\* A step stores what it has generated, or generates what was never issued.
SecretsMove ==
    /\ issued \subseteq issued'
    /\ \A x \in Secrets : InUse(x)' =>
           InUse(x) \/ \E h \in Handlers : Generated(h) /\ ~Generated(h)' /\ x = call[h].secret
    /\ \A h \in Handlers : Generated(h)' =>
           \/ Generated(h) /\ call'[h] = call[h]
           \/ /\ call'[h].secret \in issued' \ issued
              /\ \A g \in Handlers \ {h} : pc'[g] = pc[g] /\ call'[g] = call[g]

LEMMA FreshStays ==
    ASSUME TypeOK, TypeOK', SecretsFresh, SecretsMove
    PROVE  SecretsFresh'
<1>1. ASSUME NEW x \in Secrets, InUse(x)' PROVE x \in issued'
  BY <1>1 DEF SecretsFresh, SecretsMove
<1>2. ASSUME NEW h \in Handlers, Generated(h)' PROVE call'[h].secret \in Secrets
  BY <1>2 DEF Generated, TypeOK, IsCall
<1>3. ASSUME NEW h \in Handlers, Generated(h)', Generated(h), call'[h] = call[h]
      PROVE  call'[h].secret \in issued' /\ ~InUse(call[h].secret)'
  <2>1. PICK x : x = call[h].secret
    OBVIOUS
  <2>2. x \in Secrets /\ x \in issued /\ ~InUse(x)
    BY <1>2, <1>3, <2>1 DEF SecretsFresh
  <2>3. ASSUME NEW g \in Handlers, Generated(g), ~Generated(g)' PROVE x # call[g].secret
    BY <1>3, <2>1, <2>3 DEF SecretsFresh
  <2>4. ~InUse(x)' /\ x \in issued'
    BY <2>2, <2>3 DEF SecretsMove
  <2> QED BY <1>3, <2>1, <2>4 DEF InUse
<1>4. ASSUME NEW h \in Handlers, Generated(h)', call'[h].secret \in issued' \ issued
      PROVE  call'[h].secret \in issued' /\ ~InUse(call[h].secret)'
  <2>1. PICK x : x = call'[h].secret
    OBVIOUS
  <2>2. x \in Secrets /\ x \in issued' \ issued
    BY <1>2, <1>4, <2>1
  <2>3. ~InUse(x)'
    BY <2>2 DEF SecretsFresh, SecretsMove
  <2> QED BY <1>4, <2>1, <2>3 DEF InUse
<1>5. ASSUME NEW g \in Handlers, NEW h \in Handlers, Generated(g)', Generated(h)', g # h
      PROVE  call'[g].secret # call'[h].secret
  <2>1. CASE Generated(g) /\ call'[g] = call[g] /\ Generated(h) /\ call'[h] = call[h]
    BY <1>5, <2>1 DEF SecretsFresh
  <2>2. ASSUME NEW a \in Handlers, NEW b \in Handlers, a # b, Generated(b)',
               call'[a].secret \in issued' \ issued, pc'[b] = pc[b] /\ call'[b] = call[b]
        PROVE  call'[a].secret # call'[b].secret
    <3>1. Generated(b)
      BY <2>2 DEF Generated
    <3> QED BY <2>2, <3>1 DEF SecretsFresh
  <2> QED BY <1>5, <2>1, <2>2 DEF SecretsMove
<1> QED BY <1>1, <1>3, <1>4, <1>5 DEF SecretsFresh, SecretsMove

\* The candidate of a rotation is not the secret in force; nor is what a request
\* has read of it, as long as the rotation it has read is there.
RotationsDiffer ==
    factor # NoFactor /\ rotation # NoRotation =>
        /\ rotation.secret # factor.secret
        /\ \A h \in Handlers : pc[h] = "rotated" /\ call[h].id = rotation.id =>
               call[h].secret # factor.secret

\* A step that stores no secret.
SecretsStay ==
    /\ issued' = issued
    /\ \/ factor' = factor
       \/ factor # NoFactor /\ factor' # NoFactor /\ factor'.secret = factor.secret
    /\ \/ rotation' = rotation
       \/ rotation' = NoRotation
       \/ /\ rotation # NoRotation /\ rotation' # NoRotation
          /\ rotation'.id = rotation.id /\ rotation'.secret = rotation.secret
    /\ \A h \in Handlers : pc'[h] \in {"enroll", "rotate", "rotated"} =>
           pc'[h] = pc[h] /\ call'[h] = call[h]

LEMMA StayMoves ==
    ASSUME SecretsStay
    PROVE  SecretsMove /\ (RotationsDiffer => RotationsDiffer')
<1>1. ASSUME NEW x \in Secrets, InUse(x)' PROVE InUse(x)
  BY <1>1 DEF InUse, SecretsStay
<1>2. ASSUME NEW h \in Handlers, Generated(h)' PROVE Generated(h) /\ call'[h] = call[h]
  BY <1>2 DEF Generated, SecretsStay
<1>3. SecretsMove
  BY <1>1, <1>2 DEF SecretsMove, SecretsStay
<1>4. RotationsDiffer => RotationsDiffer'
  BY DEF RotationsDiffer, SecretsStay
<1> QED BY <1>3, <1>4

LEMMA GenerateMoves ==
    ASSUME TypeOK, NEW h \in Handlers, NEW secret \in Secrets,
           EnrollRead(h, secret) \/ \E s \in Sessions : RotateRead(h, s, secret)
    PROVE  SecretsMove /\ (RotationsDiffer => RotationsDiffer')
<1> USE FactorTypeParts
<1>1. /\ pc'[h] \in {"enroll", "rotate"} /\ call'[h].secret = secret
      /\ \A g \in Handlers \ {h} : pc'[g] = pc[g] /\ call'[g] = call[g]
  BY FactorCallsKept DEF EnrollRead, RotateRead
<1>2. /\ secret \in issued' \ issued /\ issued \subseteq issued'
      /\ factor' = factor /\ rotation' = rotation
  BY DEF EnrollRead, RotateRead, factors
<1>3. ASSUME NEW x \in Secrets, InUse(x)' PROVE InUse(x)
  BY <1>1, <1>2, <1>3 DEF InUse
<1>4. SecretsMove
  BY <1>1, <1>2, <1>3 DEF SecretsMove, Generated
<1>5. RotationsDiffer => RotationsDiffer'
  BY <1>1, <1>2 DEF RotationsDiffer
<1> QED BY <1>4, <1>5

LEMMA EnrollMoves ==
    ASSUME TypeOK, SecretsFresh, NEW h \in Handlers, EnrollWrite(h)
    PROVE  SecretsMove /\ RotationsDiffer'
<1> USE FactorTypeParts
<1>1. /\ pc[h] = "enroll" /\ pc'[h] = "idle"
      /\ \A g \in Handlers \ {h} : pc'[g] = pc[g] /\ call'[g] = call[g]
  BY FactorDone DEF EnrollWrite
<1>2. PICK x : x = call[h].secret
  OBVIOUS
<1>3. factor' = [secret |-> x, enabled |-> FALSE] /\ rotation' = rotation /\ issued' = issued
  BY <1>2 DEF EnrollWrite
<1>4. factor'.secret = x
  BY <1>3
<1>5. ASSUME NEW y \in Secrets, InUse(y)' PROVE InUse(y) \/ y = x
  BY <1>1, <1>3, <1>4, <1>5 DEF InUse
<1>6. SecretsMove
  BY <1>1, <1>2, <1>3, <1>5 DEF SecretsMove, Generated
<1>7. ~InUse(x)
  BY <1>1, <1>2 DEF SecretsFresh, Generated
<1>8. RotationsDiffer'
  BY <1>1, <1>3, <1>4, <1>7 DEF RotationsDiffer, InUse
<1> QED BY <1>6, <1>8

LEMMA RotateMoves ==
    ASSUME TypeOK, SecretsFresh, NEW h \in Handlers, RotateWrite(h)
    PROVE  SecretsMove /\ (RotationsDiffer => RotationsDiffer')
<1> USE FactorTypeParts
<1>1. /\ pc[h] = "rotate" /\ pc'[h] = "idle"
      /\ \A g \in Handlers \ {h} : pc'[g] = pc[g] /\ call'[g] = call[g]
  BY FactorDone DEF RotateWrite
<1>2. PICK x, id : x = call[h].secret /\ id = IF rotation = NoRotation THEN x ELSE rotation.id
  OBVIOUS
<1>3. rotation' = [id |-> id, secret |-> x, expired |-> FALSE] /\ factor' = factor /\ issued' = issued
  BY <1>2 DEF RotateWrite
<1>4. rotation'.secret = x /\ rotation'.id = id
  BY <1>3
<1>5. ASSUME NEW y \in Secrets, InUse(y)' PROVE InUse(y) \/ y = x
  BY <1>1, <1>2, <1>3, <1>4, <1>5 DEF InUse
<1>6. SecretsMove
  BY <1>1, <1>2, <1>3, <1>5 DEF SecretsMove, Generated
<1>7. ~InUse(x)
  BY <1>1, <1>2 DEF SecretsFresh, Generated
<1>8. ASSUME RotationsDiffer, factor # NoFactor
      PROVE  /\ x # factor.secret
             /\ \A g \in Handlers \ {h} : pc[g] = "rotated" /\ call[g].id = id =>
                    call[g].secret # factor.secret
  BY <1>2, <1>7, <1>8 DEF RotationsDiffer, InUse
<1>9. RotationsDiffer => RotationsDiffer'
  BY <1>1, <1>3, <1>4, <1>8 DEF RotationsDiffer
<1> QED BY <1>6, <1>9

LEMMA RotatedReadMoves ==
    ASSUME TypeOK, NEW h \in Handlers, NEW s \in Sessions, RotatedRead(h, s)
    PROVE  SecretsMove /\ (RotationsDiffer => RotationsDiffer')
<1> USE FactorTypeParts
<1>1. /\ pc'[h] = "rotated" /\ call'[h].id = rotation.id /\ call'[h].secret = rotation.secret
      /\ \A g \in Handlers \ {h} : pc'[g] = pc[g] /\ call'[g] = call[g]
  BY FactorCallsKept DEF RotatedRead
<1>2. pc[h] = "idle" /\ rotation # NoRotation /\ factor' = factor /\ rotation' = rotation /\ issued' = issued
  BY DEF RotatedRead, factors
<1>3. ASSUME NEW x \in Secrets, InUse(x)' PROVE InUse(x)
  BY <1>1, <1>2, <1>3 DEF InUse
<1>4. SecretsMove
  BY <1>1, <1>2, <1>3 DEF SecretsMove, Generated
<1>5. RotationsDiffer => RotationsDiffer'
  BY <1>1, <1>2 DEF RotationsDiffer
<1> QED BY <1>4, <1>5

LEMMA RotatedMoves ==
    ASSUME TypeOK, NEW h \in Handlers, RotatedWrite(h)
    PROVE  SecretsMove /\ RotationsDiffer'
<1> USE FactorTypeParts
<1>1. /\ pc[h] = "rotated" /\ pc'[h] = "idle"
      /\ \A g \in Handlers \ {h} : pc'[g] = pc[g] /\ call'[g] = call[g]
  BY FactorDone DEF RotatedWrite
<1>2. PICK x : x = call[h].secret
  OBVIOUS
<1>3. factor # NoFactor /\ factor' = [factor EXCEPT !.secret = x] /\ rotation' = NoRotation /\ issued' = issued
  BY <1>2 DEF RotatedWrite, Enabled
<1>4. factor'.secret = x
  BY <1>3 DEF FactorTypes, FactorRows
<1>5. ASSUME NEW y \in Secrets, InUse(y)' PROVE InUse(y)
  BY <1>1, <1>2, <1>3, <1>4, <1>5 DEF InUse
<1>6. SecretsMove
  BY <1>1, <1>3, <1>5 DEF SecretsMove, Generated
<1>7. RotationsDiffer'
  BY <1>3 DEF RotationsDiffer
<1> QED BY <1>6, <1>7

LEMMA SecretsKept ==
    ASSUME TypeOK, TypeOK', SecretsFresh, RotationsDiffer, [Next]_vars
    PROVE  SecretsFresh' /\ RotationsDiffer'
<1> USE FactorTypeParts
<1>1. ASSUME NEW h \in Handlers, Handle(h) PROVE SecretsMove /\ RotationsDiffer'
  <2>1. CASE ConfirmWrite(h)
    <3>1. factor # NoFactor /\ factor' # NoFactor /\ factor'.secret = factor.secret
      BY <2>1, NamesAssumption DEF ConfirmWrite, Pending, FactorTypes, FactorRows, Names
    <3>2. SecretsStay
      BY <2>1, <3>1, FactorDone DEF ConfirmWrite, SecretsStay
    <3> QED BY <3>2, StayMoves
  <2>2. CASE Abandoned(h)
    <3>1. SecretsStay
      BY <2>2, FactorDone DEF Abandoned, SecretsStay, factors
    <3> QED BY <3>1, StayMoves
  <2>3. ASSUME NEW s \in Sessions, SessionCreated(h, s) PROVE SecretsMove /\ RotationsDiffer'
    <3>1. SecretsStay
      BY <2>3, FactorDone DEF SessionCreated, SecretsStay, factors
    <3> QED BY <3>1, StayMoves
  <2>4. CASE LoginUnchallenged(h) \/ ProveWrite(h)
    <3>1. SecretsStay
      BY <2>4, FactorCallsKept DEF LoginUnchallenged, ProveWrite, SecretsStay, factors
    <3> QED BY <3>1, StayMoves
  <2>5. ASSUME NEW c \in Challenges, ProveRead(h, c) PROVE SecretsMove /\ RotationsDiffer'
    <3>1. PICK read : Become(h, "prove", read)
      BY <2>5 DEF ProveRead
    <3>2. SecretsStay
      BY <2>5, <3>1, FactorCallsKept DEF ProveRead, SecretsStay, factors
    <3> QED BY <3>2, StayMoves
  <2>6. ASSUME NEW s \in Sessions, ConfirmRead(h, s) PROVE SecretsMove /\ RotationsDiffer'
    <3>1. SecretsStay
      BY <2>6, FactorCallsKept DEF ConfirmRead, SecretsStay, factors
    <3> QED BY <3>1, StayMoves
  <2> QED
    BY <1>1, <2>1, <2>2, <2>3, <2>4, <2>5, <2>6, GenerateMoves, EnrollMoves, RotateMoves,
       RotatedReadMoves, RotatedMoves DEF Handle
<1>2. ASSUME ~\E h \in Handlers : Handle(h) PROVE SecretsMove /\ RotationsDiffer'
  <2>1. CASE RotationExpires
    <3>1. rotation' # NoRotation /\ rotation'.id = rotation.id /\ rotation'.secret = rotation.secret
      BY <2>1, NamesAssumption DEF RotationExpires, FactorTypes, RotationRows, Names
    <3>2. SecretsStay
      BY <2>1, <3>1 DEF RotationExpires, SecretsStay
    <3> QED BY <3>2, StayMoves
  <2>2. CASE ~RotationExpires
    <3>1. SecretsStay
      BY <1>2, <2>2 DEF Next, PasswordChanged, AssuranceLapses, SessionRevoked, CancelRotation,
         ChallengeExpires, LoginChallenged, vars, factors, SecretsStay
    <3> QED BY <3>1, StayMoves
  <2> QED BY <2>1, <2>2
<1> QED BY <1>1, <1>2, FreshStays

-----------------------------------------------------------------------------
\* What holds until an enrolment is started while another is being confirmed:
\* nobody enrols while a factor is in force or being confirmed; the secret that
\* is being confirmed is the stored one, and the one in force was shown.
Undisturbed ==
    ~restarted =>
        /\ \A g, h \in Handlers : ~(pc[g] = "enroll" /\ pc[h] = "confirm")
        /\ Enabled(factor) => factor.secret \in shown /\ \A h \in Handlers : pc[h] # "enroll"
        /\ \A h \in Handlers :
               /\ pc[h] = "confirm" /\ Pending(factor) => call[h].secret = factor.secret
               /\ pc[h] \in {"confirm", "rotated"} => call[h].secret \in shown

FactorMove ==
    factor' = factor \/ \E h \in Handlers : EnrollWrite(h) \/ ConfirmWrite(h) \/ RotatedWrite(h)

LEMMA StepMovesFactor == [Next]_vars => FactorMove
BY DEF FactorMove, Next, Handle, EnrollRead, RotateRead, RotateWrite, ConfirmRead, RotatedRead,
   SessionCreated, ProveRead, ProveWrite, LoginUnchallenged, Abandoned, RotationExpires,
   PasswordChanged, AssuranceLapses, SessionRevoked, CancelRotation, ChallengeExpires,
   LoginChallenged, vars, factors

\* Who starts to enrol or to confirm.
LEMMA StepMovesEnrolling ==
    ASSUME TypeOK, [Next]_vars, NEW h \in Handlers, pc'[h] \in {"enroll", "confirm"}
    PROVE  \/ pc'[h] = pc[h] /\ call'[h] = call[h]
           \/ pc'[h] = "enroll" /\ ~Enabled(factor) /\ factor' = factor
           \/ pc'[h] = "confirm" /\ call'[h].secret = factor.secret /\ factor' = factor
<1> USE FactorTypeParts
<1>1. ASSUME NEW g \in Handlers, Handle(g), ~(pc'[h] = pc[h] /\ call'[h] = call[h])
      PROVE  \/ \E secret \in Secrets : EnrollRead(h, secret)
             \/ \E s \in Sessions : ConfirmRead(h, s)
  <2>1. CASE Done(g)
    BY <1>1, <2>1, FactorDone
  <2>2. CASE \E s \in Sessions : RotatedRead(g, s) \/ ConfirmRead(g, s)
    BY <1>1, <2>2, FactorCallsKept DEF RotatedRead, ConfirmRead
  <2>3. CASE \E secret \in Secrets : EnrollRead(g, secret) \/ \E s \in Sessions : RotateRead(g, s, secret)
    BY <1>1, <2>3, FactorCallsKept DEF EnrollRead, RotateRead
  <2>4. CASE LoginUnchallenged(g) \/ ProveWrite(g)
    BY <1>1, <2>4, FactorCallsKept DEF LoginUnchallenged, ProveWrite
  <2>5. ASSUME NEW c \in Challenges, ProveRead(g, c) PROVE FALSE
    <3>1. PICK read : Become(g, "prove", read)
      BY <2>5 DEF ProveRead
    <3> QED BY <1>1, <3>1, FactorCallsKept
  <2> QED
    BY <1>1, <2>1, <2>2, <2>3, <2>4, <2>5 DEF Handle, EnrollWrite, ConfirmWrite, RotateWrite,
       RotatedWrite, SessionCreated, Abandoned
<1>2. ASSUME NEW secret \in Secrets, EnrollRead(h, secret)
      PROVE  pc'[h] = "enroll" /\ ~Enabled(factor) /\ factor' = factor
  BY <1>2, FactorCallsKept DEF EnrollRead, Enrollable, factors
<1>3. ASSUME NEW s \in Sessions, ConfirmRead(h, s)
      PROVE  pc'[h] = "confirm" /\ call'[h].secret = factor.secret /\ factor' = factor
  BY <1>3, FactorCallsKept DEF ConfirmRead, factors
<1>4. CASE \E g \in Handlers : Handle(g)
  BY <1>1, <1>2, <1>3, <1>4
<1>5. CASE pc' = pc /\ call' = call
  BY <1>5
<1> QED
  BY <1>4, <1>5 DEF Next, RotationExpires, PasswordChanged, AssuranceLapses, SessionRevoked,
     CancelRotation, ChallengeExpires, LoginChallenged, vars

\* The secret of a factor that comes into force is one that was confirmed.
LEMMA ForceIsShown ==
    ASSUME TypeOK, Undisturbed, ~restarted, NEW h \in Handlers, ConfirmWrite(h) \/ RotatedWrite(h)
    PROVE  /\ factor' # NoFactor /\ factor'.secret = call[h].secret /\ call[h].secret \in shown
           /\ \A g \in Handlers : pc[g] # "enroll" /\ pc'[g] # "enroll"
<1> USE FactorTypeParts
<1>1. /\ pc'[h] = "idle"
      /\ \A g \in Handlers \ {h} : pc'[g] = pc[g] /\ call'[g] = call[g]
  BY FactorDone DEF ConfirmWrite, RotatedWrite
<1>2. CASE ConfirmWrite(h)
  <2>1. factor' # NoFactor /\ factor'.secret = factor.secret
    BY <1>2, NamesAssumption DEF ConfirmWrite, Pending, FactorTypes, FactorRows, Names
  <2> QED BY <1>1, <1>2, <2>1 DEF ConfirmWrite, Undisturbed
<1>3. CASE RotatedWrite(h)
  <2>1. call[h].secret \in Secrets
    BY <1>3 DEF RotatedWrite, FactorCalls, IsCall
  <2>2. factor' # NoFactor /\ factor'.secret = call[h].secret
    BY <1>3, <2>1, NamesAssumption DEF RotatedWrite, Enabled, FactorTypes, FactorRows, Names
  <2> QED BY <1>1, <1>3, <2>2 DEF RotatedWrite, Undisturbed
<1> QED BY <1>2, <1>3

LEMMA UndisturbedStays ==
    ASSUME TypeOK, TypeOK', Undisturbed, MCNext, ~restarted'
    PROVE  /\ Undisturbed'
           /\ Enabled(factor) => Enabled(factor')
           /\ Enabled(factor') => factor'.secret \in shown'
<1> USE FactorTypeParts
<1>1. ~restarted /\ Next /\ \A g, h \in Handlers : ~(pc'[g] = "enroll" /\ pc'[h] = "confirm")
  BY DEF MCNext
<1>2. \A x \in Secrets : x \in shown => x \in shown'
  BY DEF MCNext
<1>3. ASSUME NEW h \in Handlers, pc'[h] \in {"confirm", "rotated"} PROVE call'[h].secret \in shown'
  <2>1. call'[h].secret \in Secrets
    BY <1>3 DEF TypeOK, IsCall
  <2> QED BY <1>3, <2>1 DEF MCNext
<1>4. Enabled(factor) => Enabled(factor')
  <2>1. ASSUME NEW h \in Handlers, EnrollWrite(h) PROVE ~Enabled(factor)
    BY <1>1, <2>1 DEF EnrollWrite, Undisturbed
  <2>2. ASSUME NEW h \in Handlers, ConfirmWrite(h) PROVE ~Enabled(factor)
    BY <2>2 DEF ConfirmWrite, Pending, Enabled
  <2>3. ASSUME NEW h \in Handlers, RotatedWrite(h) PROVE Enabled(factor')
    <3>1. call[h].secret \in Secrets
      BY <2>3 DEF RotatedWrite, FactorCalls, IsCall
    <3> QED BY <2>3, <3>1, NamesAssumption DEF RotatedWrite, Enabled, FactorTypes, FactorRows,
               Names
  <2> QED BY <1>1, <2>1, <2>2, <2>3, StepMovesFactor DEF FactorMove
<1>5. ASSUME Enabled(factor')
      PROVE  factor'.secret \in shown' /\ \A h \in Handlers : pc'[h] # "enroll"
  <2>1. factor'.secret \in Secrets
    BY <1>5 DEF Enabled, TypeOK, FactorRows
  <2>2. CASE factor' = factor
    BY <1>1, <1>2, <1>5, <2>1, <2>2, StepMovesEnrolling DEF Undisturbed
  <2>3. ASSUME NEW h \in Handlers, EnrollWrite(h) PROVE FALSE
    <3>1. ~factor'.enabled
      BY <2>3 DEF EnrollWrite
    <3> QED BY <1>5, <3>1 DEF Enabled
  <2>4. ASSUME NEW h \in Handlers, ConfirmWrite(h) \/ RotatedWrite(h)
        PROVE  factor'.secret \in shown' /\ \A g \in Handlers : pc'[g] # "enroll"
    BY <1>1, <1>2, <2>1, <2>4, ForceIsShown
  <2> QED BY <1>1, <2>2, <2>3, <2>4, StepMovesFactor DEF FactorMove
<1>6. ASSUME NEW h \in Handlers, pc'[h] = "confirm", Pending(factor')
      PROVE  call'[h].secret = factor'.secret
  <2>1. CASE factor' = factor
    BY <1>1, <1>6, <2>1, StepMovesEnrolling DEF Undisturbed
  <2>2. ASSUME NEW g \in Handlers, EnrollWrite(g) PROVE FALSE
    <3>1. pc[g] = "enroll" /\ pc'[g] = "idle" /\ \A f \in Handlers \ {g} : pc'[f] = pc[f]
      BY <2>2, FactorDone DEF EnrollWrite
    <3> QED BY <1>1, <1>6, <3>1 DEF Undisturbed
  <2>3. ASSUME NEW g \in Handlers, ConfirmWrite(g) PROVE FALSE
    <3>1. factor'.enabled
      BY <2>3 DEF ConfirmWrite, Pending, FactorTypes, FactorRows
    <3> QED BY <1>6, <3>1 DEF Pending
  <2>4. ASSUME NEW g \in Handlers, RotatedWrite(g) PROVE FALSE
    <3>1. factor'.enabled
      BY <2>4 DEF RotatedWrite, Enabled, FactorTypes, FactorRows
    <3> QED BY <1>6, <3>1 DEF Pending
  <2> QED BY <1>1, <2>1, <2>2, <2>3, <2>4, StepMovesFactor DEF FactorMove
<1> QED BY <1>1, <1>3, <1>4, <1>5, <1>6 DEF Undisturbed

-----------------------------------------------------------------------------
\* What assures a session of the factor in force.
Assuring == {factor.secret} \cup [batch : {batch}, slot : Slots]

\* Every session that validates, and every login on its way that could become
\* one, is assured by the factor in force.
LoginsAssured ==
    Enabled(factor) /\ ~crossed /\ ~restarted =>
        /\ \A s \in Sessions : Valid(s) => session[s].proof \in Assuring
        /\ \A h \in Handlers : pc[h] \in {"prove", "login"} /\ call[h].version = version =>
               call[h].proof \in Assuring

\* As a factor comes into force, every session but the one that assures it ends.
LEMMA ForceAssures ==
    ASSUME TypeOK, Undisturbed, RotationsDiffer, MCNext, ~restarted', ~crossed',
           NEW h \in Handlers, ConfirmWrite(h) \/ RotatedWrite(h), Enabled(factor')
    PROVE  LoginsAssured'
<1> USE FactorTypeParts
<1>1. ~restarted
  BY DEF MCNext
<1>2. factor' # factor
  <2>1. CASE ConfirmWrite(h)
    BY <2>1 DEF ConfirmWrite, Pending, Enabled
  <2>2. CASE RotatedWrite(h)
    BY <1>1, <2>2, ForceIsShown DEF RotatedWrite, Enabled, RotationsDiffer
  <2> QED BY <2>1, <2>2
<1>3. ASSUME NEW g \in Handlers PROVE pc'[g] \notin {"prove", "login"}
  <2>1. pc'[h] = "idle" /\ \A f \in Handlers \ {h} : pc'[f] = pc[f]
    BY FactorDone DEF ConfirmWrite, RotatedWrite
  <2>2. ~LoggingIn(g)
    BY <1>2 DEF MCNext
  <2> QED BY <2>1, <2>2 DEF LoggingIn
<1>4. ASSUME NEW s \in Sessions, Valid(s)' PROVE session'[s].proof = factor'.secret
  <2>1. call[h].session \in Sessions /\ call[h].secret \in Secrets /\ Active(call[h].session)
    BY DEF ConfirmWrite, RotatedWrite, FactorCalls, IsCall
  <2>2. session' = Secured(call[h].session, call[h].secret)
    BY DEF ConfirmWrite, RotatedWrite
  <2>3. s = call[h].session /\ session'[s].proof = call[h].secret
    BY <1>4, <2>1, <2>2, SecuredRow DEF Valid, Active
  <2> QED BY <1>1, <2>3, ForceIsShown
<1> QED BY <1>3, <1>4 DEF LoginsAssured, Assuring

\* A step that brings no factor into force leaves what assured a session.
LEMMA OthersAssured ==
    ASSUME TypeOK, CodesOfFactor, VersionsBehind, LoginsAssured, [Next]_vars, Enabled(factor),
           ~crossed, ~restarted, factor' = factor, batch' = batch,
           \A h \in Handlers : ~ConfirmWrite(h) /\ ~RotatedWrite(h)
    PROVE  /\ \A s \in Sessions : Valid(s)' => session'[s].proof \in Assuring
           /\ \A h \in Handlers : pc'[h] \in {"prove", "login"} /\ call'[h].version = version' =>
                  call'[h].proof \in Assuring
<1> USE FactorTypeParts
<1>1. version \in Int
  BY NamesAssumption DEF FactorTypes, Versions, Names
<1>2. version' = version \/ \E kept : PasswordChanged(kept)
  BY DEF Next, Handle, EnrollRead, RotateRead, EnrollWrite, ConfirmWrite, RotateWrite,
     RotatedWrite, ConfirmRead, RotatedRead, SessionCreated, ProveRead, ProveWrite,
     ChallengeExpires, LoginUnchallenged, Abandoned, RotationExpires, AssuranceLapses,
     SessionRevoked, CancelRotation, LoginChallenged, vars
<1>3. ASSUME NEW s \in Sessions, Valid(s)' PROVE session'[s].proof \in Assuring
  <2>1. ASSUME NEW kept, PasswordChanged(kept) PROVE FALSE
    <3>1. session[s] # NoSession /\ session'[s].version = session[s].version
      BY <1>3, <2>1, RevokedRow DEF PasswordChanged, Valid, Active, Remembered
    <3>2. session[s].version \in Int /\ session[s].version <= version
      BY <3>1, NamesAssumption DEF LoginTypes, SessionRows, Versions, VersionsBehind, Names
    <3> QED BY <1>1, <1>3, <2>1, <3>1, <3>2 DEF PasswordChanged, Valid
  <2>2. ASSUME NEW h \in Handlers, NEW r \in Sessions, SessionCreated(h, r)
        PROVE  session'[s].proof \in Assuring
    <3>1. CASE r = s
      <4>1. pc[h] = "login" /\ call[h].version = version /\ session'[s].proof = call[h].proof
        BY <2>2, <3>1 DEF SessionCreated, LoginTypes
      <4> QED BY <4>1 DEF LoginsAssured
    <3>2. CASE r # s
      BY <1>3, <2>2, <3>2 DEF SessionCreated, LoginTypes, LoginsAssured, Valid, Active
    <3> QED BY <3>1, <3>2
  <2>3. ASSUME NEW r \in Sessions, AssuranceLapses(r) \/ SessionRevoked(r)
        PROVE  session'[s].proof \in Assuring
    <3>1. /\ session'[s] # NoSession /\ session[s].status = "ACTIVE" 
          /\ session'[s].version = session[s].version
          /\ session'[s].proof = session[s].proof
      <4>1. CASE r # s
        BY <1>3, <2>3, <4>1 DEF AssuranceLapses, SessionRevoked, LoginTypes, Valid, Active
      <4>2. CASE r = s
        <5>1. session[s] \in SessionRows
          BY <2>3, <4>2 DEF AssuranceLapses, SessionRevoked, Assured, Active, LoginTypes
        <5>2. CASE AssuranceLapses(r)
          BY <1>3, <4>2, <5>1, <5>2 DEF AssuranceLapses, LoginTypes, SessionRows, Valid, Active, Assured
        <5>3. CASE SessionRevoked(r)
          <6>1. session'[s].status = "REVOKED"
            BY <4>2, <5>1, <5>3 DEF SessionRevoked, LoginTypes, SessionRows
          <6> QED BY <1>3, <6>1 DEF Valid, Active
        <5> QED BY <2>3, <5>2, <5>3
      <4> QED BY <4>1, <4>2
    <3>2. Valid(s)
      BY <1>3, <2>3, <3>1, LapseRemembered DEF Valid, Active, AssuranceLapses, SessionRevoked,
         SessionsRemembered, Remembered
    <3> QED BY <3>1, <3>2 DEF LoginsAssured
  <2>4. CASE session' = session /\ version' = version
    BY <1>3, <2>4 DEF LoginsAssured, Valid, Active
  <2> QED
    BY <1>2, <2>1, <2>2, <2>3, <2>4 DEF Next, Handle, EnrollRead, RotateRead, EnrollWrite,
       RotateWrite, ConfirmRead, RotatedRead, ProveRead, ProveWrite, ChallengeExpires,
       LoginUnchallenged, Abandoned, RotationExpires, CancelRotation, LoginChallenged, vars
<1>4. ASSUME NEW h \in Handlers, pc'[h] \in {"prove", "login"}, call'[h].version = version'
      PROVE  call'[h].proof \in Assuring
  <2>1. CASE pc[h] \in {"prove", "login"} /\ call'[h] = call[h]
    <3>1. call[h].version \in Int /\ call[h].version <= version
      BY <2>1, NamesAssumption DEF FactorCalls, IsCall, Logins, Versions, VersionsBehind,
         Names
    <3>2. version' = version
      BY <1>1, <1>2, <1>4, <2>1, <3>1 DEF PasswordChanged
    <3> QED BY <1>4, <2>1, <3>2 DEF LoginsAssured
  <2>2. CASE ProveWrite(h)
    <3>1. pc[h] = "prove" /\ call'[h] = call[h]
      BY <2>2, FactorCallsKept DEF ProveWrite
    <3> QED BY <2>1, <3>1
  <2>3. ASSUME NEW c \in Challenges, ProveRead(h, c) PROVE call'[h].proof \in Assuring
    <3>1. PICK proof \in {factor.secret} \cup codes :
              Become(h, "prove", [version |-> version, assurance |-> "recent", proof |-> proof,
                                  challenge |-> c])
      BY <2>3 DEF ProveRead
    <3>2. call'[h].proof = proof
      BY <3>1, FactorCallsKept
    <3> QED BY <3>1, <3>2 DEF CodesOfFactor, Assuring
  <2>4. ~LoginUnchallenged(h)
    BY DEF LoginUnchallenged
  <2> QED BY <1>4, <2>1, <2>2, <2>3, <2>4, StepMovesLogins DEF LoginsMove
<1> QED BY <1>3, <1>4

LEMMA AssuredStays ==
    ASSUME TypeOK, TypeOK', CodesOfFactor, VersionsBehind, Undisturbed, RotationsDiffer,
           LoginsAssured, MCNext
    PROVE  LoginsAssured'
<1> SUFFICES ASSUME Enabled(factor'), ~crossed', ~restarted' PROVE LoginsAssured'
  BY DEF LoginsAssured, Enabled
<1>1. ~crossed /\ ~restarted /\ Next
  BY DEF MCNext
<1>2. CASE \E h \in Handlers : ConfirmWrite(h) \/ RotatedWrite(h)
  BY <1>2, ForceAssures
<1>3. CASE \A h \in Handlers : ~ConfirmWrite(h) /\ ~RotatedWrite(h)
  <2>1. ASSUME NEW h \in Handlers, EnrollWrite(h) PROVE FALSE
    <3>1. ~factor'.enabled
      BY <2>1 DEF EnrollWrite
    <3> QED BY <3>1 DEF Enabled
  <2>2. factor' = factor
    BY <1>1, <1>3, <2>1, StepMovesFactor DEF FactorMove
  <2>3. batch' = batch
    BY <1>1, <1>3, <2>1 DEF Next, Handle, EnrollRead, RotateRead, RotateWrite, ConfirmRead,
       RotatedRead, SessionCreated, ProveRead, ProveWrite, LoginUnchallenged, Abandoned,
       RotationExpires, PasswordChanged, AssuranceLapses, SessionRevoked, CancelRotation,
       ChallengeExpires, LoginChallenged, factors
  <2>4. Enabled(factor) /\ Assuring' = Assuring
    BY <2>2, <2>3 DEF Assuring, Enabled
  <2> QED BY <1>1, <1>3, <2>2, <2>3, <2>4, OthersAssured DEF LoginsAssured
<1> QED BY <1>2, <1>3

-----------------------------------------------------------------------------
\* The inductive invariant: of every history, and of the one MCSpec adds.
FactorInv ==
    /\ TypeOK /\ ChallengesFound
    /\ CodesOfFactor /\ VersionsBehind
    /\ ClaimsSpent /\ ProvesOldCode /\ GrantedOnce
    /\ SecretsFresh /\ RotationsDiffer

FactorMCInv == FactorInv /\ Undisturbed /\ LoginsAssured

LEMMA FactorInitially == ASSUME MCInit PROVE FactorMCInv
<1>1. TypeOK
  BY SecondFactorInit DEF MCInit
<1>2. CodesOfFactor /\ ChallengesFound /\ ProvesOldCode /\ SecretsFresh /\ RotationsDiffer /\ Undisturbed /\ LoginsAssured
  BY DEF MCInit, Init, CodesOfFactor, ChallengesFound, ProvesOldCode, SecretsFresh, RotationsDiffer,
     Undisturbed, LoginsAssured, InUse, Generated, Enabled
<1>3. PICK first \in Sessions :
          session = [s \in Sessions |->
              IF s = first THEN [status |-> "ACTIVE", version |-> 0, assurance |-> "none",
                                 proof |-> NoProof, challenge |-> NoChallenge]
              ELSE NoSession]
  BY DEF MCInit, Init
<1>4. PICK row : row = [status |-> "ACTIVE", version |-> 0, assurance |-> "none",
                        proof |-> NoProof, challenge |-> NoChallenge]
  OBVIOUS
<1>5. \A x \in Claimants : x = first /\ Claim(x) = row
  BY <1>3, <1>4 DEF Claimants, Claim, MCInit, Init
<1>6. VersionsBehind
  BY <1>3, <1>4 DEF VersionsBehind, MCInit, Init
<1>7. ClaimsSpent /\ GrantedOnce
  BY <1>4, <1>5 DEF ClaimsSpent, Spent, GrantedOnce
<1> QED BY <1>1, <1>2, <1>6, <1>7 DEF FactorMCInv, FactorInv

LEMMA FactorInvStays == ASSUME FactorInv, [Next]_vars PROVE FactorInv'
<1>1. TypeOK' /\ ChallengesFound'
  BY TypesStay DEF FactorInv
<1> QED
  BY <1>1, CodesStay, VersionsStay, GrantsStay, CodesProvedStay, SecretsKept DEF FactorInv

LEMMA FactorMCInvStays ==
    ASSUME FactorMCInv, [MCNext]_<<vars, crossed, restarted, shown>>
    PROVE  FactorMCInv'
<1>1. CASE MCNext
  <2>1. [Next]_vars /\ FactorInv
    BY <1>1 DEF MCNext, FactorMCInv
  <2>2. FactorInv'
    BY <2>1, FactorInvStays
  <2>3. LoginsAssured'
    BY <1>1, <2>2, AssuredStays DEF FactorMCInv, FactorInv
  <2>4. Undisturbed'
    <3>1. CASE restarted'
      BY <3>1 DEF Undisturbed
    <3>2. CASE ~restarted'
      BY <1>1, <2>2, <3>2, UndisturbedStays DEF FactorMCInv, FactorInv
    <3> QED BY <3>1, <3>2
  <2> QED BY <2>2, <2>3, <2>4 DEF FactorMCInv
<1>2. CASE UNCHANGED <<vars, crossed, restarted, shown>>
  <2>1. FactorInv'
    <3>1. [Next]_vars
      BY <1>2
    <3> QED BY <3>1, FactorInvStays DEF FactorMCInv
  <2>2. Undisturbed' /\ LoginsAssured'
    BY <1>2 DEF FactorMCInv, Undisturbed, LoginsAssured, vars, factors, Enabled, Pending, Valid,
       Active, Assuring
  <2> QED BY <2>1, <2>2 DEF FactorMCInv
<1> QED BY <1>1, <1>2

LEMMA FactorSafe == MCSpec => []FactorMCInv
<1>1. MCInit => FactorMCInv
  BY FactorInitially
<1>2. FactorMCInv /\ [MCNext]_<<vars, crossed, restarted, shown>> => FactorMCInv'
  BY FactorMCInvStays
<1> QED BY <1>1, <1>2, PTL DEF MCSpec

\* The rows and the calls of the second factor keep their types, for any secrets,
\* codes, sessions, challenges and handlers.
THEOREM TypeCorrect == MCSpec => []TypeOK
<1>1. FactorMCInv => TypeOK
  BY DEF FactorMCInv, FactorInv
<1> QED BY <1>1, FactorSafe, PTL

\* The recovery codes that are left are of the last batch, and there are none
\* without a factor in force, however enrolment, confirmation, rotation and the
\* spending of codes interleave.
THEOREM RecoveryCodesOfFactor == MCSpec => []CodesOfFactor
<1>1. FactorMCInv => CodesOfFactor
  BY DEF FactorMCInv, FactorInv
<1> QED BY <1>1, FactorSafe, PTL

\* A challenge, and a recovery code, lets one login in, by however many requests
\* at once it is confirmed, also while the codes are being replaced.
THEOREM ChallengesGrantOnce == MCSpec => []GrantedOnce
<1>1. FactorMCInv => GrantedOnce
  BY DEF FactorMCInv, FactorInv
<1> QED BY <1>1, FactorSafe, PTL

\* With a factor in force every session that validates was last assured by its
\* secret or one of its recovery codes, unless a login was on its way as it came
\* into force.
THEOREM SessionsAreAssured == MCSpec => []AssuredByFactor
<1>1. FactorMCInv => AssuredByFactor
  BY DEF FactorMCInv, LoginsAssured, AssuredByFactor, Assuring
<1> QED BY <1>1, FactorSafe, PTL

\* A factor in force stays in force, and its user has shown a code of its secret,
\* unless an enrolment was started while another was being confirmed.
THEOREM FactorsAreConfirmed == MCSpec => ConfirmedForGood
<1> DEFINE Confirmed == ~restarted' => /\ Enabled(factor) => Enabled(factor')
                                       /\ Enabled(factor') => factor'.secret \in shown'
<1>1. FactorMCInv /\ FactorMCInv' /\ [MCNext]_<<vars, crossed, restarted, shown>>
          => [Confirmed]_<<vars, crossed, restarted, shown>>
  BY UndisturbedStays DEF FactorMCInv, FactorInv
<1> QED BY <1>1, FactorSafe, PTL DEF MCSpec, ConfirmedForGood
===============================================================================
