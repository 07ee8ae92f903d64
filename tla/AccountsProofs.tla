---------------------------- MODULE AccountsProofs ----------------------------
(* Theorems about Accounts for any passwords, sessions, tokens and handlers. *)
(*                                                                           *)
(* Why a session that is out stays out: no session, and no login on its way  *)
(* to one, is ahead of the user's security version, and while the user may   *)
(* not be served none is even with it; so whatever serves the user again,    *)
(* with a new version or without, leaves them all behind.                    *)
EXTENDS MCAccounts, TLAPS

-----------------------------------------------------------------------------
\* The parts of the type invariant.
UserTypes ==
    /\ status \in Statuses /\ overdue \in BOOLEAN /\ verified \in BOOLEAN
    /\ version \in 0..MaxVersion
CredentialTypes == password \in Hashes /\ failed \in 0..MaxFailed /\ locked \in BOOLEAN
SessionTypes == session \in [Sessions -> SessionRows \cup {NoSession}]
TokenTypes == token \in [Tokens -> TokenRows \cup {NoToken}]
CallTypes ==
    /\ DOMAIN pc = Handlers /\ DOMAIN call = Handlers
    /\ \A h \in Handlers : IsCall(pc[h], call[h])

\* A request that is to consume a token has found it, and no token goes away.
TokensFound ==
    \A h \in Handlers : pc[h] \in {"reset", "mail"} => token[call[h].token] # NoToken

LEMMA TypeParts ==
    TypeOK <=> UserTypes /\ CredentialTypes /\ SessionTypes /\ TokenTypes /\ CallTypes
BY DEF TypeOK, UserTypes, CredentialTypes, SessionTypes, TokenTypes, CallTypes

\* A handler that takes a well-formed step keeps the calls well formed.
LEMMA BecomeTypes ==
    ASSUME CallTypes, NEW h \in Handlers, NEW step, NEW read, IsCall(step, read),
           Become(h, step, read)
    PROVE  CallTypes'
<1>1. pc' = [pc EXCEPT ![h] = step] /\ call' = [call EXCEPT ![h] = read]
  BY DEF Become
<1>2. ASSUME NEW g \in Handlers PROVE IsCall(pc'[g], call'[g])
  BY <1>1 DEF CallTypes
<1>3. ASSUME NEW g \in Handlers PROVE IsCall(pc[g], call[g])'
  BY <1>2 DEF IsCall
<1> QED BY <1>1, <1>3 DEF CallTypes

LEMMA DoneTypes ==
    ASSUME CallTypes, NEW h \in Handlers, Done(h)
    PROVE  CallTypes'
<1>1. IsCall("idle", NoCall)
  BY DEF IsCall
<1> QED BY <1>1, BecomeTypes DEF Done

LEMMA RevokedTypes ==
    SessionTypes => Revoked(session) \in [Sessions -> SessionRows \cup {NoSession}]
BY DEF SessionTypes, Revoked, SessionRows

LEMMA SpentTypes ==
    ASSUME TokenTypes, NEW kind
    PROVE  Spent(kind) \in [Tokens -> TokenRows \cup {NoToken}]
<1>1. ASSUME NEW t \in Tokens, Active(t, kind)
      PROVE  [token[t] EXCEPT !.state = "spent"] \in TokenRows
  BY <1>1 DEF TokenTypes, TokenRows, Active
<1> QED BY <1>1 DEF Spent, TokenTypes

LEMMA ConsumedTypes ==
    ASSUME TokenTypes, NEW kind, NEW t \in Tokens, token[t] # NoToken
    PROVE  [Spent(kind) EXCEPT ![t].state = "spent"] \in [Tokens -> TokenRows \cup {NoToken}]
<1> DEFINE spent == Spent(kind)
<1>1. spent \in [Tokens -> TokenRows \cup {NoToken}]
  BY SpentTypes
<1>2. spent[t] \in TokenRows
  <2>1. ASSUME Active(t, kind)
        PROVE  [token[t] EXCEPT !.state = "spent"] \in TokenRows
    BY DEF TokenTypes, TokenRows
  <2> QED BY <2>1 DEF Spent, TokenTypes
<1>3. [spent[t] EXCEPT !.state = "spent"] \in TokenRows
  BY <1>2 DEF TokenRows
<1> HIDE DEF spent
<1>4. [spent EXCEPT ![t] = [spent[t] EXCEPT !.state = "spent"]]
          \in [Tokens -> TokenRows \cup {NoToken}]
  BY <1>1, <1>3
<1> QED BY <1>4 DEF spent

LEMMA NoFailures == Cleared(failed) \in 0..MaxFailed
BY MaxFailedAssumption DEF Cleared

\* What a running request has read, step by step.
LEMMA CallShape ==
    ASSUME CallTypes, NEW h \in Handlers
    PROVE  /\ pc[h] = "miss" => call[h].failed \in 0..(MaxFailed - 1)
           /\ pc[h] = "login" => call[h].hash \in Hashes /\ call[h].version \in 0..MaxVersion
           /\ pc[h] \in {"proved", "session"} =>
                  call[h].word \in Words /\ call[h].version \in 0..MaxVersion
           /\ pc[h] = "change" => call[h].next \in Words
           /\ pc[h] = "issue" => call[h].kind \in {"mail", "reset"}
           /\ pc[h] = "reset" => call[h].token \in Tokens /\ call[h].next \in Words
           /\ pc[h] = "mail" => call[h].token \in Tokens
           /\ pc[h] = "admin" => call[h].op \in Operations /\ call[h].to \in Statuses
BY DEF CallTypes, IsCall

-----------------------------------------------------------------------------
(* The types, one lemma for the actions of each part of the specification.  *)

LEMMA ClockTypes ==
    ASSUME TypeOK,
           \/ LockEnds \/ SuspensionEnds
           \/ \E s \in Sessions : SessionEnds(s)
           \/ \E t \in Tokens : TokenEnds(t)
    PROVE  TypeOK'
<1> USE TypeParts
<1>1. CASE LockEnds
  BY <1>1 DEF LockEnds, TypeOK, user
<1>2. CASE SuspensionEnds
  BY <1>2 DEF SuspensionEnds, TypeOK, credential
<1>3. ASSUME NEW s \in Sessions, SessionEnds(s) PROVE TypeOK'
  <2>1. session[s] \in SessionRows
    BY <1>3 DEF SessionEnds, TypeOK
  <2>2. [session[s] EXCEPT !.over = TRUE] \in SessionRows
    BY <2>1 DEF SessionRows
  <2>3. session' = [session EXCEPT ![s] = [session[s] EXCEPT !.over = TRUE]]
    BY <1>3 DEF SessionEnds
  <2>4. session' \in [Sessions -> SessionRows \cup {NoSession}]
    BY <2>2, <2>3 DEF TypeOK
  <2> QED BY <1>3, <2>4 DEF SessionEnds, TypeOK, user, credential
<1>4. ASSUME NEW t \in Tokens, TokenEnds(t) PROVE TypeOK'
  <2>1. token[t] \in TokenRows
    BY <1>4 DEF TokenEnds, TypeOK
  <2>2. [token[t] EXCEPT !.state = "spent"] \in TokenRows
    BY <2>1 DEF TokenRows
  <2>3. token' = [token EXCEPT ![t] = [token[t] EXCEPT !.state = "spent"]]
    BY <1>4 DEF TokenEnds
  <2>4. token' \in [Tokens -> TokenRows \cup {NoToken}]
    BY <2>2, <2>3 DEF TypeOK
  <2> QED BY <1>4, <2>4 DEF TokenEnds, TypeOK, user, credential
<1> QED BY <1>1, <1>2, <1>3, <1>4

LEMMA OutcomeTypes ==
    ASSUME UserTypes, NEW op \in Operations, NEW to \in Outcome[op]
    PROVE  to \in Statuses
<1>1. CASE op = "change"
  BY <1>1 DEF Outcome
<1>2. CASE op = "verify"
  <2>1. to \in {IF status = "PENDING_VERIFICATION" THEN "ACTIVE" ELSE status}
    BY <1>2 DEF Outcome
  <2> QED BY <2>1 DEF UserTypes, Statuses
<1>3. CASE op = "delete"
  <2>1. to \in {"DELETED"}
    BY <1>3 DEF Outcome
  <2> QED BY <2>1 DEF Statuses
<1>4. CASE op = "restore"
  <2>1. to \in {RestoredTo(verified)}
    BY <1>4 DEF Outcome
  <2> QED BY <2>1 DEF RestoredTo, Statuses
<1> QED BY <1>1, <1>2, <1>3, <1>4 DEF Operations

\* The operations that only read, or that only move a handler on.
LEMMA ReadTypes ==
    ASSUME TypeOK, NEW h \in Handlers,
           \/ SessionChecked(h) \/ Abandoned(h)
           \/ \E word \in Words : ChangeRead(h, word)
           \/ \E kind \in {"mail", "reset"} : IssueRead(h, kind)
           \/ \E t \in Tokens : \/ MailRead(h, t)
                                \/ \E word \in Words : ResetRead(h, t, word)
           \/ \E op \in Operations : AdminRead(h, op)
    PROVE  TypeOK'
<1>0. UserTypes /\ CredentialTypes /\ SessionTypes /\ TokenTypes /\ CallTypes
  BY TypeParts
<1>1. UNCHANGED <<user, credential, session, token>>
  BY DEF SessionChecked, Abandoned, ChangeRead, IssueRead, MailRead, ResetRead, AdminRead
<1>2. ASSUME SessionChecked(h) PROVE CallTypes'
  <2>1. CASE Done(h)
    BY <1>0, <2>1, DoneTypes
  <2>2. CASE Become(h, "session", [word |-> call[h].word, version |-> version])
    <3>1. IsCall("session", [word |-> call[h].word, version |-> version])
      BY <1>0, <1>2, CallShape DEF SessionChecked, UserTypes, IsCall
    <3> QED BY <1>0, <2>2, <3>1, BecomeTypes
  <2> QED BY <1>2, <2>1, <2>2 DEF SessionChecked
<1>3. ASSUME Abandoned(h) PROVE CallTypes'
  BY <1>0, <1>3, DoneTypes DEF Abandoned
<1>4. ASSUME NEW word \in Words, ChangeRead(h, word) PROVE CallTypes'
  <2>1. IsCall("change", [next |-> word])
    BY DEF IsCall
  <2> QED BY <1>0, <1>4, <2>1, BecomeTypes DEF ChangeRead
<1>5. ASSUME NEW kind \in {"mail", "reset"}, IssueRead(h, kind) PROVE CallTypes'
  <2>1. IsCall("issue", [kind |-> kind])
    BY DEF IsCall
  <2> QED BY <1>0, <1>5, <2>1, BecomeTypes DEF IssueRead
<1>6. ASSUME NEW t \in Tokens, MailRead(h, t) PROVE CallTypes'
  <2>0. (status = "PENDING_VERIFICATION") \in BOOLEAN
    OBVIOUS
  <2>1. IsCall("mail", [token |-> t, activate |-> status = "PENDING_VERIFICATION"])
    BY <2>0 DEF IsCall
  <2> QED BY <1>0, <1>6, <2>1, BecomeTypes DEF MailRead
<1>7. ASSUME NEW t \in Tokens, NEW word \in Words, ResetRead(h, t, word) PROVE CallTypes'
  <2>1. IsCall("reset", [token |-> t, next |-> word])
    BY DEF IsCall
  <2> QED BY <1>0, <1>7, <2>1, BecomeTypes DEF ResetRead
<1>8. ASSUME NEW op \in Operations, AdminRead(h, op) PROVE CallTypes'
  <2>1. PICK to \in Outcome[op] : Become(h, "admin", [op |-> op, to |-> to])
    BY <1>8 DEF AdminRead
  <2>2. to \in Statuses
    BY <1>0, <2>1, OutcomeTypes
  <2>3. IsCall("admin", [op |-> op, to |-> to])
    BY <2>2 DEF IsCall
  <2> QED BY <1>0, <2>1, <2>3, BecomeTypes
<1>9. CallTypes'
  BY <1>2, <1>3, <1>4, <1>5, <1>6, <1>7, <1>8
<1> QED BY <1>1, <1>9 DEF TypeOK, CallTypes, user, credential

LEMMA LoginTypes ==
    ASSUME TypeOK, NEW h \in Handlers,
           \/ \E word \in Words : LoginRead(h, word)
           \/ LoginFails(h) \/ LoginSucceeds(h)
           \/ \E s \in Sessions : SessionInserted(h, s)
    PROVE  TypeOK'
<1>0. UserTypes /\ CredentialTypes /\ SessionTypes /\ TokenTypes /\ CallTypes
  BY TypeParts
<1>1. ASSUME NEW word \in Words, LoginRead(h, word) PROVE TypeOK'
  <2>1. UserTypes'
    BY <1>0, <1>1 DEF LoginRead, UserTypes, Statuses
  <2>2. CallTypes'
    <3>1. CASE Become(h, "miss", [failed |-> failed]) /\ failed < MaxFailed
      <4>1. IsCall("miss", [failed |-> failed])
        BY <1>0, <3>1, MaxFailedAssumption DEF IsCall, CredentialTypes
      <4> QED BY <1>0, <3>1, <4>1, BecomeTypes
    <3>2. CASE Become(h, "login", [hash |-> password, version |-> version])
      <4>1. IsCall("login", [hash |-> password, version |-> version])
        BY <1>0 DEF IsCall, CredentialTypes, UserTypes
      <4> QED BY <1>0, <3>2, <4>1, BecomeTypes
    <3>3. CASE UNCHANGED <<pc, call>>
      BY <1>0, <3>3 DEF CallTypes, IsCall
    <3> QED BY <1>1, <3>1, <3>2, <3>3 DEF LoginRead
  <2>3. CredentialTypes' /\ SessionTypes' /\ TokenTypes'
    BY <1>0, <1>1 DEF LoginRead, CredentialTypes, SessionTypes, TokenTypes, credential
  <2> QED BY <2>1, <2>2, <2>3, TypeParts DEF TypeOK, UserTypes, CredentialTypes, SessionTypes,
             TokenTypes, CallTypes
<1>2. CASE LoginFails(h)
  <2>1. call[h].failed \in 0..(MaxFailed - 1)
    BY <1>0, <1>2, CallShape DEF LoginFails
  <2>2. failed' \in 0..MaxFailed /\ locked' \in BOOLEAN
    BY <1>2, <2>1, MaxFailedAssumption DEF LoginFails
  <2>3. CallTypes'
    BY <1>0, <1>2, DoneTypes DEF LoginFails
  <2> QED BY <1>2, <2>2, <2>3 DEF LoginFails, TypeOK, CallTypes, user
<1>3. CASE LoginSucceeds(h)
  <2>1. call[h].hash \in Hashes /\ call[h].version \in 0..MaxVersion
    BY <1>0, <1>3, CallShape DEF LoginSucceeds
  <2>2. [call[h].hash EXCEPT !.by = h] \in Hashes /\ call[h].hash.word \in Words
    BY <2>1 DEF Hashes, Makers
  <2>3. password' \in Hashes
    BY <1>0, <1>3, <2>2 DEF LoginSucceeds, CredentialTypes
  <2>6. failed' \in 0..MaxFailed /\ locked' \in BOOLEAN
    BY <1>3, NoFailures DEF LoginSucceeds
  <2>4. IsCall("proved", [word |-> call[h].hash.word, version |-> call[h].version])
    BY <2>1, <2>2 DEF IsCall
  <2>5. CallTypes'
    BY <1>0, <1>3, <2>4, BecomeTypes DEF LoginSucceeds
  <2> QED BY <1>3, <2>3, <2>5, <2>6 DEF LoginSucceeds, TypeOK, CallTypes, user
<1>4. ASSUME NEW s \in Sessions, SessionInserted(h, s) PROVE TypeOK'
  <2> DEFINE row == [version |-> call[h].version, status |-> "ACTIVE", over |-> FALSE,
                     proved |-> call[h].word]
  <2>1. row \in SessionRows
    BY <1>0, <1>4, CallShape DEF SessionInserted, SessionRows
  <2>2. session' = [session EXCEPT ![s] = row]
    BY <1>4 DEF SessionInserted
  <2>3. session' \in [Sessions -> SessionRows \cup {NoSession}]
    BY <1>0, <2>1, <2>2 DEF SessionTypes
  <2>4. CallTypes'
    BY <1>0, <1>4, DoneTypes DEF SessionInserted
  <2> QED BY <1>4, <2>3, <2>4 DEF SessionInserted, TypeOK, CallTypes, user, credential
<1> QED BY <1>1, <1>2, <1>3, <1>4

LEMMA PasswordTypes ==
    ASSUME TypeOK, TokensFound, NEW h \in Handlers,
           ChangeWrite(h) \/ ResetWrite(h)
    PROVE  TypeOK'
<1>0. UserTypes /\ CredentialTypes /\ SessionTypes /\ TokenTypes /\ CallTypes
  BY TypeParts
<1>1. CallTypes'
  BY <1>0, DoneTypes DEF ChangeWrite, ResetWrite
<1>2. ASSUME NEW next \in Words, Replaced(next)
      PROVE  UserTypes' /\ CredentialTypes' /\ SessionTypes'
  <2>1. version \in 0..MaxVersion /\ version < MaxVersion
    BY <1>0, <1>2 DEF UserTypes, Replaced
  <2>2. version' \in 0..MaxVersion /\ version + 1 \in 0..MaxVersion
    BY <1>2, <2>1, MaxVersionAssumption DEF Replaced, Bumped
  <2>3. UserTypes'
    BY <1>0, <1>2, <2>2 DEF UserTypes, Replaced
  <2>4. [word |-> next, since |-> version + 1, by |-> "current"] \in Hashes
    BY <2>2 DEF Hashes, Makers
  <2>5. CredentialTypes'
    BY <1>2, <2>4, NoFailures DEF Replaced, CredentialTypes
  <2>6. SessionTypes'
    BY <1>0, <1>2, RevokedTypes DEF Replaced, SessionTypes
  <2> QED BY <2>3, <2>5, <2>6
<1>3. CASE ChangeWrite(h)
  <2>1. call[h].next \in Words
    BY <1>0, <1>3, CallShape DEF ChangeWrite
  <2> QED BY <1>1, <1>2, <1>3, <2>1 DEF ChangeWrite, TypeOK, UserTypes, CredentialTypes,
         SessionTypes, CallTypes
<1>4. CASE ResetWrite(h)
  <2>1. call[h].next \in Words /\ call[h].token \in Tokens
    BY <1>0, <1>4, CallShape DEF ResetWrite
  <2>2. UserTypes' /\ CredentialTypes' /\ SessionTypes'
    BY <1>2, <1>4, <2>1 DEF ResetWrite
  <2>3. TokenTypes'
    <3>1. token[call[h].token] # NoToken
      BY <1>4 DEF ResetWrite, TokensFound
    <3> QED BY <1>0, <1>4, <2>1, <3>1, ConsumedTypes DEF ResetWrite, TokenTypes
  <2> QED BY <1>1, <2>2, <2>3 DEF TypeOK, UserTypes, CredentialTypes, SessionTypes,
         TokenTypes, CallTypes
<1> QED BY <1>3, <1>4

LEMMA TokenOperationTypes ==
    ASSUME TypeOK, TokensFound, NEW h \in Handlers,
           MailWrite(h) \/ \E t \in Tokens : IssueWrite(h, t)
    PROVE  TypeOK'
<1>0. UserTypes /\ CredentialTypes /\ SessionTypes /\ TokenTypes /\ CallTypes
  BY TypeParts
<1>1. CallTypes'
  BY <1>0, DoneTypes DEF MailWrite, IssueWrite
<1>2. ASSUME NEW t \in Tokens, IssueWrite(h, t) PROVE TypeOK'
  <2> DEFINE row == [kind |-> call[h].kind, state |-> "active"]
  <2>1. row \in TokenRows
    BY <1>0, <1>2, CallShape DEF IssueWrite, TokenRows
  <2>2. Spent(call[h].kind) \in [Tokens -> TokenRows \cup {NoToken}]
    BY <1>0, SpentTypes
  <2>3. token' = [Spent(call[h].kind) EXCEPT ![t] = row]
    BY <1>2 DEF IssueWrite
  <2>4. token' \in [Tokens -> TokenRows \cup {NoToken}]
    BY <2>1, <2>2, <2>3
  <2> QED BY <1>1, <1>2, <2>4 DEF IssueWrite, TypeOK, CallTypes, user, credential
<1>3. CASE MailWrite(h)
  <2>1. call[h].token \in Tokens
    BY <1>0, <1>3, CallShape DEF MailWrite
  <2>2. UserTypes'
    BY <1>0, <1>3 DEF MailWrite, UserTypes, Statuses, user
  <2>3. TokenTypes'
    <3>1. token[call[h].token] # NoToken
      BY <1>3 DEF MailWrite, TokensFound
    <3>2. CASE UNCHANGED token
      BY <1>0, <3>2 DEF TokenTypes
    <3>3. CASE token' = [Spent("mail") EXCEPT ![call[h].token].state = "spent"]
      BY <1>0, <2>1, <3>1, <3>3, ConsumedTypes DEF TokenTypes
    <3> QED BY <1>3, <3>2, <3>3 DEF MailWrite
  <2> QED BY <1>1, <1>3, <2>2, <2>3 DEF MailWrite, TypeOK, UserTypes, TokenTypes, CallTypes,
         credential
<1> QED BY <1>2, <1>3

LEMMA AdminTypes ==
    ASSUME TypeOK, NEW h \in Handlers,
           StatusChanged(h) \/ EmailVerified(h) \/ UserDeleted(h) \/ UserRestored(h)
    PROVE  TypeOK'
<1>0. UserTypes /\ CredentialTypes /\ SessionTypes /\ TokenTypes /\ CallTypes
  BY TypeParts
<1>1. PICK op \in Operations : AdminWrites(h, op)
  BY DEF StatusChanged, EmailVerified, UserDeleted, UserRestored, Operations
<1>2. CallTypes'
  BY <1>0, <1>1, DoneTypes DEF AdminWrites
<1>3. call[h].to \in Statuses
  BY <1>0, <1>1, CallShape DEF AdminWrites
<1>4. status' \in Statuses /\ UNCHANGED credential
  BY <1>1, <1>3 DEF AdminWrites
<1>5. version' \in 0..MaxVersion
  <2>1. version \in 0..MaxVersion /\ version < MaxVersion /\ version' = version + 1
    BY <1>0, <1>1 DEF AdminWrites, UserTypes, Bumped
  <2> QED BY <2>1, MaxVersionAssumption
<1>6. overdue' \in BOOLEAN /\ verified' \in BOOLEAN
  BY <1>0 DEF StatusChanged, EmailVerified, UserDeleted, UserRestored, UserTypes
<1>7. SessionTypes'
  <2>1. session' = session \/ session' = Revoked(session)
    BY DEF StatusChanged, EmailVerified, UserDeleted, UserRestored
  <2> QED BY <1>0, <2>1, RevokedTypes DEF SessionTypes
<1>8. TokenTypes'
  <2>1. CASE UNCHANGED token
    BY <1>0, <2>1 DEF TokenTypes
  <2>2. CASE EmailVerified(h)
    <3>1. ASSUME NEW t \in Tokens, token[t] # NoToken
          PROVE  [token[t] EXCEPT !.state = "deleted"] \in TokenRows
      BY <1>0, <3>1 DEF TokenTypes, TokenRows
    <3> QED BY <1>0, <2>2, <3>1 DEF EmailVerified, TokenTypes
  <2> QED BY <2>1, <2>2 DEF StatusChanged, UserDeleted, UserRestored
<1> QED BY <1>2, <1>4, <1>5, <1>6, <1>7, <1>8 DEF TypeOK, credential, CallTypes, SessionTypes,
       TokenTypes

LEMMA RevocationTypes ==
    ASSUME TypeOK,
           \/ SessionsRevoked
           \/ \E s \in Sessions : SessionRevoked(s)
           \/ \E kept \in Sessions \cup {NoSession} : OthersRevoked(kept)
    PROVE  TypeOK'
<1>0. UserTypes /\ CredentialTypes /\ SessionTypes /\ TokenTypes /\ CallTypes
  BY TypeParts
<1>1. CASE SessionsRevoked
  <2>1. version \in 0..MaxVersion /\ version < MaxVersion /\ version' = version + 1
    BY <1>0, <1>1 DEF SessionsRevoked, UserTypes, Bumped
  <2>2. version' \in 0..MaxVersion
    BY <2>1, MaxVersionAssumption
  <2>3. SessionTypes'
    BY <1>0, <1>1, RevokedTypes DEF SessionsRevoked, SessionTypes
  <2> QED BY <1>1, <2>2, <2>3 DEF SessionsRevoked, TypeOK, SessionTypes, credential
<1>2. ASSUME NEW s \in Sessions, SessionRevoked(s) PROVE TypeOK'
  <2>1. session[s] \in SessionRows
    BY <1>0, <1>2 DEF SessionRevoked, SessionTypes
  <2>2. [session[s] EXCEPT !.status = "REVOKED"] \in SessionRows
    BY <2>1 DEF SessionRows
  <2>3. session' = [session EXCEPT ![s] = [session[s] EXCEPT !.status = "REVOKED"]]
    BY <1>2 DEF SessionRevoked
  <2>4. session' \in [Sessions -> SessionRows \cup {NoSession}]
    BY <1>0, <2>2, <2>3 DEF SessionTypes
  <2> QED BY <1>2, <2>4 DEF SessionRevoked, TypeOK, user, credential
<1>3. ASSUME NEW kept \in Sessions \cup {NoSession}, OthersRevoked(kept) PROVE TypeOK'
  <2>1. session' \in [Sessions -> SessionRows \cup {NoSession}]
    BY <1>0, <1>3, RevokedTypes DEF OthersRevoked, SessionTypes
  <2> QED BY <1>3, <2>1 DEF OthersRevoked, TypeOK, user, credential
<1> QED BY <1>1, <1>2, <1>3

-----------------------------------------------------------------------------
\* Which steps lead a handler to the consumption of a token, and to an
\* administrator's operation.
LEMMA OtherSteps ==
    ASSUME Next
    PROVE  \/ UNCHANGED <<pc, call>>
           \/ \E h \in Handlers :
                 \/ \E t \in Tokens : MailRead(h, t) \/ \E word \in Words : ResetRead(h, t, word)
                 \/ \E op \in Operations : AdminRead(h, op)
                 \/ \E step, read : /\ Become(h, step, read)
                                    /\ step \notin {"reset", "mail", "admin"}
<1> DEFINE Elsewhere(h) ==
             \E step, read : Become(h, step, read) /\ step \notin {"reset", "mail", "admin"}
<1>1. ASSUME NEW h \in Handlers,
             \/ \E word \in Words : LoginRead(h, word) \/ ChangeRead(h, word)
             \/ \E kind \in {"mail", "reset"} : IssueRead(h, kind)
             \/ SessionChecked(h) \/ LoginSucceeds(h)
      PROVE  UNCHANGED <<pc, call>> \/ Elsewhere(h)
  <2>1. ASSUME NEW step \in {"idle", "miss", "login", "proved", "session", "change", "issue"},
               NEW read, Become(h, step, read)
        PROVE  Elsewhere(h)
    BY <2>1
  <2> HIDE DEF Elsewhere
  <2>2. ASSUME NEW word \in Words, LoginRead(h, word)
        PROVE  UNCHANGED <<pc, call>> \/ Elsewhere(h)
    BY <2>1, <2>2 DEF LoginRead
  <2>3. ASSUME NEW word \in Words, ChangeRead(h, word) PROVE Elsewhere(h)
    BY <2>1, <2>3 DEF ChangeRead
  <2>4. ASSUME NEW kind \in {"mail", "reset"}, IssueRead(h, kind) PROVE Elsewhere(h)
    BY <2>1, <2>4 DEF IssueRead
  <2>5. ASSUME SessionChecked(h) PROVE Elsewhere(h)
    BY <2>1, <2>5 DEF SessionChecked, Done
  <2>6. ASSUME LoginSucceeds(h) PROVE Elsewhere(h)
    BY <2>1, <2>6 DEF LoginSucceeds
  <2> QED BY <1>1, <2>2, <2>3, <2>4, <2>5, <2>6
<1>2. ASSUME NEW h \in Handlers, Done(h)
      PROVE  \E step, read : Become(h, step, read) /\ step \notin {"reset", "mail", "admin"}
  BY <1>2 DEF Done
<1>3. ASSUME NEW h \in Handlers,
             \/ LoginFails(h) \/ \E s \in Sessions : SessionInserted(h, s)
             \/ \E t \in Tokens : IssueWrite(h, t)
             \/ ChangeWrite(h) \/ ResetWrite(h) \/ MailWrite(h) \/ Abandoned(h)
             \/ StatusChanged(h) \/ EmailVerified(h) \/ UserDeleted(h) \/ UserRestored(h)
      PROVE  Done(h)
  BY <1>3 DEF LoginFails, SessionInserted, IssueWrite, ChangeWrite, ResetWrite, MailWrite,
     Abandoned, AdminWrites, StatusChanged, EmailVerified, UserDeleted, UserRestored
<1>4. ASSUME \/ LockEnds \/ SuspensionEnds \/ SessionsRevoked
             \/ \E s \in Sessions : SessionEnds(s) \/ SessionRevoked(s)
             \/ \E kept \in Sessions \cup {NoSession} : OthersRevoked(kept)
             \/ \E t \in Tokens : TokenEnds(t)
      PROVE  UNCHANGED <<pc, call>>
  BY <1>4 DEF LockEnds, SuspensionEnds, SessionsRevoked, SessionEnds, SessionRevoked,
     OthersRevoked, TokenEnds
<1> QED BY <1>1, <1>2, <1>3, <1>4 DEF Next

LEMMA NextKeepsTokens ==
    ASSUME TypeOK, TokensFound, Next
    PROVE  TokensFound'
<1>0. TokenTypes /\ CallTypes
  BY TypeParts
<1>1. ASSUME NEW t \in Tokens, token[t] # NoToken PROVE token'[t] # NoToken
  <2>1. token[t] \in TokenRows
    BY <1>0, <1>1 DEF TokenTypes
  <2>2. ASSUME NEW state \in {"active", "spent", "deleted"}
        PROVE  [token[t] EXCEPT !.state = state] # NoToken
    <3>1. [token[t] EXCEPT !.state = state] \in TokenRows
      BY <2>1 DEF TokenRows
    <3> QED BY <3>1, NoTokenAssumption
  <2>3. ASSUME NEW kind PROVE Spent(kind)[t] # NoToken
    BY <1>1, <2>2 DEF Spent
  <2>4. CASE UNCHANGED token
    BY <1>1, <2>4
  <2>5. ASSUME NEW u \in Tokens, TokenEnds(u) PROVE token'[t] # NoToken
    BY <1>0, <1>1, <2>2, <2>5 DEF TokenEnds, TokenTypes
  <2>6. ASSUME NEW h \in Handlers, NEW u \in Tokens, IssueWrite(h, u)
        PROVE  token'[t] # NoToken
    <3>1. t # u
      BY <1>1, <2>6 DEF IssueWrite
    <3>2. token'[t] = Spent(call[h].kind)[t]
      BY <2>6, <3>1, SpentTypes, <1>0 DEF IssueWrite
    <3> QED BY <2>3, <3>2
  <2>7. ASSUME NEW h \in Handlers, NEW kind, NEW u \in Tokens,
               token' = [Spent(kind) EXCEPT ![u].state = "spent"]
        PROVE  token'[t] # NoToken
    <3>1. CASE t = u
      <4>1. token[u] # NoToken
        BY <1>1, <3>1
      <4>2. token'[t] \in TokenRows \/ token'[t] = NoToken
        BY <1>0, <2>7, <4>1, ConsumedTypes
      <4>3. Spent(kind)[t] \in TokenRows
        BY <1>0, <2>3, SpentTypes
      <4>4. [Spent(kind)[t] EXCEPT !.state = "spent"] \in TokenRows
        BY <4>3 DEF TokenRows
      <4>5. token'[t] = [Spent(kind)[t] EXCEPT !.state = "spent"]
        BY <1>0, <2>7, <3>1, SpentTypes
      <4> QED BY <4>4, <4>5, NoTokenAssumption
    <3>2. CASE t # u
      <4>1. token'[t] = Spent(kind)[t]
        BY <1>0, <2>7, <3>2, SpentTypes
      <4> QED BY <2>3, <4>1
    <3> QED BY <3>1, <3>2
  <2>8. ASSUME NEW h \in Handlers, MailWrite(h) \/ ResetWrite(h) PROVE token'[t] # NoToken
    <3>1. call[h].token \in Tokens
      BY <1>0, <2>8, CallShape DEF MailWrite, ResetWrite
    <3> QED BY <2>4, <2>7, <2>8, <3>1 DEF MailWrite, ResetWrite
  <2>9. ASSUME NEW h \in Handlers, EmailVerified(h) PROVE token'[t] # NoToken
    BY <1>1, <2>2, <2>9 DEF EmailVerified
  <2> QED BY <2>4, <2>5, <2>6, <2>8, <2>9 DEF Next, LockEnds, SuspensionEnds, SessionsRevoked,
         SessionEnds, SessionRevoked, OthersRevoked, LoginRead, ChangeRead, LoginFails,
         LoginSucceeds, SessionChecked, SessionInserted, IssueRead, MailRead, ResetRead,
         ChangeWrite, Abandoned, AdminRead, StatusChanged, UserDeleted, UserRestored
<1>2. ASSUME NEW h \in Handlers, pc'[h] \in {"reset", "mail"}
      PROVE  call'[h].token \in Tokens /\ token[call'[h].token] # NoToken
  <2>1. CASE pc'[h] = pc[h] /\ call'[h] = call[h]
    BY <1>0, <1>2, <2>1, CallShape DEF TokensFound
  <2>2. ASSUME NEW g \in Handlers, NEW t \in Tokens, MailRead(g, t)
        PROVE  \/ pc'[h] = pc[h] /\ call'[h] = call[h]
               \/ call'[h].token = t /\ token[t] # NoToken
    BY <1>0, <2>2 DEF MailRead, Become, Active, CallTypes
  <2>3. ASSUME NEW g \in Handlers, NEW t \in Tokens, NEW word, ResetRead(g, t, word)
        PROVE  \/ pc'[h] = pc[h] /\ call'[h] = call[h]
               \/ call'[h].token = t /\ token[t] # NoToken
    BY <1>0, <2>3 DEF ResetRead, Become, Usable, Active, CallTypes
  <2>4. ASSUME NEW g \in Handlers, NEW step, NEW read, Become(g, step, read),
               step \notin {"reset", "mail"}
        PROVE  pc'[h] = pc[h] /\ call'[h] = call[h]
    BY <1>0, <1>2, <2>4 DEF Become, CallTypes
  <2>5. CASE UNCHANGED <<pc, call>>
    BY <2>1, <2>5
  <2>6. \/ UNCHANGED <<pc, call>>
        \/ \E g \in Handlers :
              \/ \E t \in Tokens : MailRead(g, t) \/ \E word \in Words : ResetRead(g, t, word)
              \/ \E step, read : Become(g, step, read) /\ step \notin {"reset", "mail"}
    <3>1. ASSUME NEW g \in Handlers, NEW op \in Operations, AdminRead(g, op)
          PROVE  \E step, read : Become(g, step, read) /\ step \notin {"reset", "mail"}
      <4>1. PICK to \in Outcome[op] : Become(g, "admin", [op |-> op, to |-> to])
        BY <3>1 DEF AdminRead
      <4> QED BY <4>1
    <3>2. ASSUME NEW g \in Handlers, NEW step, NEW read, Become(g, step, read),
                 step \notin {"reset", "mail", "admin"}
          PROVE  \E st, rd : Become(g, st, rd) /\ st \notin {"reset", "mail"}
      BY <3>2
    <3> QED BY <3>1, <3>2, OtherSteps
  <2>7. CASE \E g \in Handlers : \E step, read :
                Become(g, step, read) /\ step \notin {"reset", "mail"}
    BY <2>1, <2>4, <2>7
  <2>8. CASE \E g \in Handlers : \E t \in Tokens :
                MailRead(g, t) \/ \E word \in Words : ResetRead(g, t, word)
    BY <2>1, <2>2, <2>3, <2>8
  <2> QED BY <2>5, <2>6, <2>7, <2>8
<1> QED BY <1>1, <1>2 DEF TokensFound

LEMMA NextKeepsTypes == TypeOK /\ TokensFound /\ [Next]_vars => TypeOK' /\ TokensFound'
<1>1. ASSUME TypeOK, TokensFound, UNCHANGED vars PROVE TypeOK' /\ TokensFound'
  BY <1>1 DEF TypeOK, TokensFound, vars, user, credential
<1>2. ASSUME TypeOK, TokensFound, Next PROVE TypeOK' /\ TokensFound'
  BY <1>2, ClockTypes, ReadTypes, LoginTypes, PasswordTypes, TokenOperationTypes, AdminTypes,
     RevocationTypes, NextKeepsTokens DEF Next
<1> QED BY <1>1, <1>2

LEMMA InitTypes == Init => TypeOK /\ TokensFound
<1> SUFFICES ASSUME Init PROVE TypeOK /\ TokensFound
  OBVIOUS
<1>1. UserTypes /\ SessionTypes
  <2>1. version = 0 /\ status = "PENDING_VERIFICATION"
    BY DEF Init
  <2>3. version \in 0..MaxVersion /\ status \in Statuses
    BY <2>1, MaxVersionAssumption DEF Statuses
  <2>4. overdue \in BOOLEAN /\ verified \in BOOLEAN
    BY Zenon DEF Init
  <2>2. UserTypes
    BY <2>3, <2>4 DEF UserTypes
  <2> QED BY <2>2 DEF Init, SessionTypes
<1>2. CredentialTypes
  <2>1. password \in Hashes
    BY FirstWordAssumption, MaxVersionAssumption DEF Init, Hashes, Makers
  <2>2. failed \in 0..MaxFailed /\ locked \in BOOLEAN
    <3>1. failed = 0
      BY DEF Init
    <3>2. failed \in 0..MaxFailed
      BY <3>1, MaxFailedAssumption
    <3>3. locked \in BOOLEAN
      BY Zenon DEF Init
    <3> QED BY <3>2, <3>3
  <2> QED BY <2>1, <2>2 DEF CredentialTypes
<1>3. TokenTypes
  BY DEF Init, TokenTypes, TokenRows
<1>4. CallTypes /\ TokensFound
  BY DEF Init, CallTypes, IsCall, TokensFound
<1> QED BY <1>1, <1>2, <1>3, <1>4, TypeParts

\* The rows of the user, the sessions and the tokens, and what the running
\* requests have read, keep their types; no more failures are counted than lock
\* the account.
THEOREM TypeCorrect == Spec => []TypeOK
BY InitTypes, NextKeepsTypes, PTL DEF Spec

-----------------------------------------------------------------------------
(* Sessions against security versions.                                      *)

\* A login on its way to a session, from the password to the insertion.
Carries(h) == pc[h] \in {"login", "proved", "session"}

\* A version is not ahead of the user's, and even with it only while the user
\* is served.
Behind(v) == v <= version /\ (v = version => status = "ACTIVE")

AllBehind ==
    /\ \A s \in Sessions : session[s] # NoSession => Behind(session[s].version)
    /\ \A h \in Handlers : Carries(h) => Behind(call[h].version)

\* A deletion that was read writes nothing but a deletion.
DeletionsDelete ==
    \A h \in Handlers : pc[h] = "admin" /\ call[h].op = "delete" => call[h].to = "DELETED"

\* The inductive invariant.
Inv == TypeOK /\ TokensFound /\ AllBehind /\ DeletionsDelete

\* What a step may make of the user: a new version, or one who is still served.
UserMove ==
    \/ version' = version + 1
    \/ version' = version /\ (status = "ACTIVE" => status' = "ACTIVE")

\* What a step may make of a session: what is out of it is out for good, and a
\* new one comes from a login.
SessionMove(s) ==
    \/ /\ session[s] # NoSession /\ session'[s] # NoSession
       /\ session'[s].version = session[s].version
       /\ session'[s].proved = session[s].proved
       /\ session[s].status = "REVOKED" => session'[s].status = "REVOKED"
       /\ session[s].over => session'[s].over
    \/ session[s] = NoSession /\ session'[s] = NoSession
    \/ session[s] = NoSession /\ \E h \in Handlers :
           /\ Carries(h) /\ pc[h] = "session"
           /\ session'[s].version = call[h].version
           /\ session'[s].proved = call[h].word

\* What a step may make of a login.
CallMove(h) ==
    Carries(h)' =>
        \/ Carries(h) /\ call'[h].version = call[h].version
        \/ call'[h].version = version' /\ status' = "ACTIVE"

LEMMA UserMoves ==
    ASSUME TypeOK, Next
    PROVE  UserMove
<1>1. CASE UNCHANGED <<version, status>>
  BY <1>1 DEF UserMove
<1>2. CASE SessionsRevoked
  BY <1>2 DEF SessionsRevoked, UserMove, Bumped
<1>3. ASSUME NEW h \in Handlers, NEW word \in Words, LoginRead(h, word) PROVE UserMove
  BY <1>3 DEF LoginRead, UserMove
<1>4. ASSUME NEW next, Replaced(next) PROVE UserMove
  BY <1>4 DEF Replaced, UserMove, Bumped
<1>5. ASSUME NEW h \in Handlers, MailWrite(h) PROVE UserMove
  BY <1>5 DEF MailWrite, UserMove, user
<1>6. ASSUME NEW h \in Handlers, NEW op, AdminWrites(h, op) PROVE UserMove
  BY <1>6 DEF AdminWrites, UserMove, Bumped
<1>7. ASSUME NEW h \in Handlers, ChangeWrite(h) \/ ResetWrite(h) PROVE UserMove
  BY <1>4, <1>7 DEF ChangeWrite, ResetWrite
<1> QED BY <1>1, <1>2, <1>3, <1>5, <1>6, <1>7 DEF Next, LockEnds, SuspensionEnds, SessionEnds,
       SessionRevoked, OthersRevoked, TokenEnds, ChangeRead, LoginFails, LoginSucceeds,
       SessionChecked, SessionInserted, IssueRead, IssueWrite, MailRead, ResetRead, Abandoned,
       AdminRead, StatusChanged, EmailVerified, UserDeleted, UserRestored, user

LEMMA RevokedMoves ==
    ASSUME TypeOK, NEW s \in Sessions, session'[s] = Revoked(session)[s]
    PROVE  SessionMove(s)
<1>1. CASE session[s] = NoSession
  BY <1>1 DEF Revoked, SessionMove
<1>2. CASE session[s] # NoSession
  <2>1. session[s] \in SessionRows
    BY <1>2 DEF TypeOK
  <2>2. session'[s] = [session[s] EXCEPT !.status = "REVOKED"]
    BY <1>2 DEF Revoked
  <2>3. /\ session'[s] \in SessionRows /\ session'[s].status = "REVOKED"
        /\ session'[s].version = session[s].version /\ session'[s].over = session[s].over
        /\ session'[s].proved = session[s].proved
    BY <2>1, <2>2 DEF SessionRows
  <2> QED BY <1>2, <2>3, NoSessionAssumption DEF SessionMove
<1> QED BY <1>1, <1>2

LEMMA SessionMoves ==
    ASSUME TypeOK, Next, NEW s \in Sessions
    PROVE  SessionMove(s)
<1>1. ASSUME session'[s] = session[s] PROVE SessionMove(s)
  BY <1>1 DEF SessionMove
<1>2. ASSUME session' = Revoked(session) PROVE SessionMove(s)
  BY <1>2, RevokedMoves
<1>3. ASSUME NEW u \in Sessions, SessionEnds(u) PROVE SessionMove(s)
  <2>1. CASE s # u
    BY <1>1, <1>3, <2>1 DEF SessionEnds, TypeOK
  <2>2. CASE s = u
    <3>1. session[s] \in SessionRows
      BY <1>3, <2>2 DEF SessionEnds, TypeOK
    <3>2. session'[s] = [session[s] EXCEPT !.over = TRUE]
      BY <1>3, <2>2 DEF SessionEnds, TypeOK
    <3>3. /\ session'[s] \in SessionRows /\ session'[s].status = session[s].status
          /\ session'[s].version = session[s].version
          /\ session'[s].proved = session[s].proved
      BY <3>1, <3>2 DEF SessionRows
    <3>4. ~session[s].over
      BY <1>3, <2>2 DEF SessionEnds
    <3> QED BY <3>1, <3>3, <3>4, NoSessionAssumption DEF SessionMove
  <2> QED BY <2>1, <2>2
<1>4. ASSUME NEW u \in Sessions, SessionRevoked(u) PROVE SessionMove(s)
  <2>1. CASE s # u
    BY <1>1, <1>4, <2>1 DEF SessionRevoked, TypeOK
  <2>2. CASE s = u
    <3>1. session'[s] = [session[s] EXCEPT !.status = "REVOKED"] /\ session[s] # NoSession
      BY <1>4, <2>2 DEF SessionRevoked, TypeOK
    <3>2. session'[s] = Revoked(session)[s]
      BY <3>1 DEF Revoked
    <3> QED BY <3>2, RevokedMoves
  <2> QED BY <2>1, <2>2
<1>5. ASSUME NEW kept, OthersRevoked(kept) PROVE SessionMove(s)
  BY <1>1, <1>5, RevokedMoves DEF OthersRevoked
<1>6. ASSUME NEW h \in Handlers, NEW u \in Sessions, SessionInserted(h, u)
      PROVE  SessionMove(s)
  <2>1. CASE s # u
    BY <1>1, <1>6, <2>1 DEF SessionInserted, TypeOK
  <2>2. CASE s = u
    BY <1>6, <2>2 DEF SessionInserted, TypeOK, SessionMove, Carries
  <2> QED BY <2>1, <2>2
<1>7. ASSUME NEW h \in Handlers, ChangeWrite(h) \/ ResetWrite(h) PROVE SessionMove(s)
  BY <1>1, <1>2, <1>7 DEF ChangeWrite, ResetWrite, Replaced
<1>8. ASSUME NEW h \in Handlers,
             StatusChanged(h) \/ EmailVerified(h) \/ UserDeleted(h) \/ UserRestored(h)
      PROVE  SessionMove(s)
  BY <1>1, <1>2, <1>8 DEF StatusChanged, EmailVerified, UserDeleted, UserRestored
<1> QED BY <1>1, <1>2, <1>3, <1>4, <1>5, <1>6, <1>7, <1>8 DEF Next, LockEnds, SuspensionEnds,
       SessionsRevoked, TokenEnds, LoginRead, ChangeRead, LoginFails, LoginSucceeds,
       SessionChecked, IssueRead, IssueWrite, MailRead, ResetRead, MailWrite, Abandoned,
       AdminRead

LEMMA CallMoves ==
    ASSUME TypeOK, Next, NEW h \in Handlers
    PROVE  CallMove(h)
<1>0. DOMAIN pc = Handlers /\ DOMAIN call = Handlers
  BY DEF TypeOK
<1>1. ASSUME pc'[h] = pc[h], call'[h] = call[h] PROVE CallMove(h)
  BY <1>1 DEF CallMove, Carries
<1>2. ASSUME pc'[h] \notin {"login", "proved", "session"} PROVE CallMove(h)
  BY <1>2 DEF CallMove, Carries
<1>3. ASSUME NEW g \in Handlers, NEW read,
             NEW step \in {"idle", "miss", "change", "issue", "reset", "mail", "admin"},
             Become(g, step, read)
      PROVE  CallMove(h)
  BY <1>0, <1>1, <1>2, <1>3 DEF Become
<1>4. ASSUME NEW g \in Handlers, NEW word \in Words, LoginRead(g, word) PROVE CallMove(h)
  <2>1. ASSUME Become(g, "login", [hash |-> password, version |-> version]),
               status' = "ACTIVE", version' = version
        PROVE  CallMove(h)
    <3>1. CASE g = h
      BY <1>0, <2>1, <3>1 DEF Become, CallMove
    <3>2. CASE g # h
      BY <1>0, <1>1, <2>1, <3>2 DEF Become
    <3> QED BY <3>1, <3>2
  <2>2. CASE UNCHANGED <<pc, call>>
    BY <1>1, <2>2
  <2> QED BY <1>3, <1>4, <2>1, <2>2 DEF LoginRead
<1>5. ASSUME NEW g \in Handlers, LoginSucceeds(g) PROVE CallMove(h)
  <2>1. pc[g] = "login" /\ Become(g, "proved", [word |-> call[g].hash.word,
                                               version |-> call[g].version])
    BY <1>5 DEF LoginSucceeds
  <2>2. CASE g = h
    BY <1>0, <2>1, <2>2 DEF Become, CallMove, Carries
  <2>3. CASE g # h
    BY <1>0, <1>1, <2>1, <2>3 DEF Become
  <2> QED BY <2>2, <2>3
<1>6. ASSUME NEW g \in Handlers, SessionChecked(g) PROVE CallMove(h)
  <2>1. ASSUME Become(g, "session", [word |-> call[g].word, version |-> version]),
               Current(call[g].version)
        PROVE  CallMove(h)
    <3>1. status' = "ACTIVE" /\ version' = version
      BY <1>6, <2>1 DEF SessionChecked, Current, user
    <3>2. CASE g = h
      BY <1>0, <2>1, <3>1, <3>2 DEF Become, CallMove
    <3>3. CASE g # h
      BY <1>0, <1>1, <2>1, <3>3 DEF Become
    <3> QED BY <3>2, <3>3
  <2> QED BY <1>3, <1>6, <2>1 DEF SessionChecked, Done
<1>7. ASSUME NEW g \in Handlers,
             \/ LoginFails(g) \/ \E s \in Sessions : SessionInserted(g, s)
             \/ \E t \in Tokens : IssueWrite(g, t)
             \/ ChangeWrite(g) \/ ResetWrite(g) \/ MailWrite(g) \/ Abandoned(g)
             \/ StatusChanged(g) \/ EmailVerified(g) \/ UserDeleted(g) \/ UserRestored(g)
      PROVE  CallMove(h)
  <2>1. Done(g)
    BY <1>7 DEF LoginFails, SessionInserted, IssueWrite, ChangeWrite, ResetWrite, MailWrite,
       Abandoned, AdminWrites, StatusChanged, EmailVerified, UserDeleted, UserRestored
  <2> QED BY <1>3, <2>1 DEF Done
<1>8. ASSUME NEW g \in Handlers,
             \/ \E word \in Words : ChangeRead(g, word)
             \/ \E kind \in {"mail", "reset"} : IssueRead(g, kind)
             \/ \E op \in Operations : AdminRead(g, op)
             \/ \E t \in Tokens : \/ MailRead(g, t)
                                  \/ \E word \in Words : ResetRead(g, t, word)
      PROVE  CallMove(h)
  <2>1. \E step \in {"change", "issue", "reset", "mail", "admin"} : \E read : Become(g, step, read)
    <3>1. ASSUME NEW word \in Words, ChangeRead(g, word)
          PROVE  \E read : Become(g, "change", read)
      BY <3>1 DEF ChangeRead
    <3>2. ASSUME NEW kind \in {"mail", "reset"}, IssueRead(g, kind)
          PROVE  \E read : Become(g, "issue", read)
      BY <3>2 DEF IssueRead
    <3>3. ASSUME NEW op \in Operations, AdminRead(g, op)
          PROVE  \E read : Become(g, "admin", read)
      BY <3>3 DEF AdminRead
    <3>4. ASSUME NEW t \in Tokens, MailRead(g, t)
          PROVE  \E read : Become(g, "mail", read)
      BY <3>4 DEF MailRead
    <3>5. ASSUME NEW t \in Tokens, NEW word \in Words, ResetRead(g, t, word)
          PROVE  \E read : Become(g, "reset", read)
      BY <3>5 DEF ResetRead
    <3> QED BY <1>8, <3>1, <3>2, <3>3, <3>4, <3>5
  <2> QED BY <1>3, <2>1
<1>9. ASSUME UNCHANGED <<pc, call>> PROVE CallMove(h)
  BY <1>1, <1>9
<1> QED BY <1>4, <1>5, <1>6, <1>7, <1>8, <1>9 DEF Next, LockEnds, SuspensionEnds,
       SessionsRevoked, SessionEnds, SessionRevoked, OthersRevoked, TokenEnds

\* What is behind stays behind, whatever becomes of the user.
LEMMA BehindStays ==
    ASSUME TypeOK, UserMove, NEW v \in Nat, Behind(v)
    PROVE  v <= version' /\ (v = version' => status' = "ACTIVE")
BY DEF TypeOK, UserMove, Behind

LEMMA NextKeepsBehind ==
    ASSUME TypeOK, AllBehind, Next
    PROVE  AllBehind'
<1>1. UserMove /\ TypeOK /\ version \in Nat /\ version' \in Nat
  BY UserMoves DEF TypeOK, UserMove
<1>2. ASSUME NEW h \in Handlers, Carries(h) PROVE call[h].version \in Nat
  BY <1>2 DEF TypeOK, IsCall, Carries
<1>3. ASSUME NEW s \in Sessions, session'[s] # NoSession PROVE Behind(session[s].version)'
  <2>1. CASE session[s] # NoSession
    <3>1. session[s].version \in Nat
      BY <2>1 DEF TypeOK, SessionRows
    <3>2. session'[s].version = session[s].version /\ Behind(session[s].version)
      BY <2>1, SessionMoves DEF SessionMove, AllBehind
    <3>3. LET v == session[s].version IN v <= version' /\ (v = version' => status' = "ACTIVE")
      BY <1>1, <3>1, <3>2, BehindStays
    <3> QED BY <3>2, <3>3 DEF Behind
  <2>2. CASE session[s] = NoSession
    <3>1. PICK h \in Handlers : Carries(h) /\ session'[s].version = call[h].version
      BY <1>3, <2>2, SessionMoves DEF SessionMove
    <3>2. Behind(call[h].version) /\ call[h].version \in Nat
      BY <1>2, <3>1 DEF AllBehind
    <3>3. LET v == call[h].version IN v <= version' /\ (v = version' => status' = "ACTIVE")
      BY <1>1, <3>2, BehindStays
    <3> QED BY <3>1, <3>3 DEF Behind
  <2> QED BY <2>1, <2>2
<1>4. ASSUME NEW h \in Handlers, Carries(h)' PROVE Behind(call[h].version)'
  <2>1. CASE Carries(h) /\ call'[h].version = call[h].version
    <3>1. Behind(call[h].version) /\ call[h].version \in Nat
      BY <1>2, <2>1 DEF AllBehind
    <3>2. LET v == call[h].version IN v <= version' /\ (v = version' => status' = "ACTIVE")
      BY <1>1, <3>1, BehindStays
    <3> QED BY <2>1, <3>2 DEF Behind
  <2>2. CASE call'[h].version = version' /\ status' = "ACTIVE"
    BY <1>1, <2>2 DEF Behind
  <2> QED BY <1>4, <2>1, <2>2, CallMoves DEF CallMove
<1> QED BY <1>3, <1>4 DEF AllBehind

\* A session that is out is revoked, over, behind, or that of a user who is not
\* served; whichever it is, the step does not let it in.
LEMMA OutRemains ==
    ASSUME TypeOK, AllBehind, Next, NEW s \in Sessions, session[s] # NoSession, ~Valid(s)
    PROVE  ~Valid(s)'
<1> SUFFICES ASSUME Valid(s)' PROVE FALSE
  OBVIOUS
<1>1. session[s] \in SessionRows /\ session[s].version \in Nat
  BY DEF TypeOK, SessionRows
<1>2. /\ session'[s].status = "ACTIVE" /\ ~session'[s].over
      /\ status' = "ACTIVE" /\ session'[s].version = version'
  BY DEF Valid, Current
<1>3. /\ session'[s].version = session[s].version
      /\ session[s].status = "REVOKED" => session'[s].status = "REVOKED"
      /\ session[s].over => session'[s].over
  BY SessionMoves DEF SessionMove
<1>4. session[s].status = "ACTIVE" /\ ~session[s].over
  BY <1>1, <1>2, <1>3 DEF SessionRows
<1>5. session[s].version # version \/ status # "ACTIVE"
  BY <1>4 DEF Valid, Current
<1>6. Behind(session[s].version)
  BY DEF AllBehind
<1>7. session[s].version = version' /\ version \in Nat
  BY <1>2, <1>3 DEF TypeOK
<1>8. version' # version + 1
  BY <1>1, <1>6, <1>7 DEF Behind
<1>9. version' = version
  BY <1>8, UserMoves DEF UserMove
<1> QED BY <1>5, <1>6, <1>7, <1>9 DEF Behind

-----------------------------------------------------------------------------
(* Deletion.                                                                *)

\* Only one step makes a handler an administrator's.
LEMMA AdminOrElse ==
    ASSUME Next
    PROVE  \/ UNCHANGED <<pc, call>>
           \/ \E h \in Handlers :
                 \/ \E op \in Operations : AdminRead(h, op)
                 \/ \E step, read : Become(h, step, read) /\ step # "admin"
<1>1. ASSUME NEW h \in Handlers,
             \E t \in Tokens : MailRead(h, t) \/ \E word \in Words : ResetRead(h, t, word)
      PROVE  \E step, read : Become(h, step, read) /\ step # "admin"
  <2>1. ASSUME NEW t \in Tokens, MailRead(h, t) PROVE \E read : Become(h, "mail", read)
    BY <2>1 DEF MailRead
  <2>2. ASSUME NEW t \in Tokens, NEW word \in Words, ResetRead(h, t, word)
        PROVE  \E read : Become(h, "reset", read)
    BY <2>2 DEF ResetRead
  <2> QED BY <1>1, <2>1, <2>2
<1> QED BY <1>1, OtherSteps

LEMMA NextKeepsDeletions ==
    ASSUME TypeOK, DeletionsDelete, Next
    PROVE  DeletionsDelete'
<1>0. DOMAIN pc = Handlers /\ DOMAIN call = Handlers
  BY DEF TypeOK
<1> SUFFICES ASSUME NEW h \in Handlers, pc'[h] = "admin", call'[h].op = "delete"
             PROVE  call'[h].to = "DELETED"
  BY DEF DeletionsDelete
<1>1. ASSUME pc'[h] = pc[h], call'[h] = call[h] PROVE call'[h].to = "DELETED"
  BY <1>1 DEF DeletionsDelete
<1>2. ASSUME NEW g \in Handlers, NEW step, NEW read, Become(g, step, read), step # "admin"
      PROVE  call'[h].to = "DELETED"
  BY <1>0, <1>1, <1>2 DEF Become
<1>3. ASSUME NEW g \in Handlers, NEW op \in Operations, AdminRead(g, op)
      PROVE  call'[h].to = "DELETED"
  <2>1. PICK to \in Outcome[op] : Become(g, "admin", [op |-> op, to |-> to])
    BY <1>3 DEF AdminRead
  <2>2. CASE g # h
    BY <1>0, <1>1, <2>1, <2>2 DEF Become
  <2>3. CASE g = h
    <3>1. op = "delete" /\ call'[h].to = to
      BY <1>0, <2>1, <2>3 DEF Become
    <3>2. to \in IF status = "DELETED" THEN {} ELSE {"DELETED"}
      BY <2>1, <3>1 DEF Outcome
    <3> QED BY <3>1, <3>2
  <2> QED BY <2>2, <2>3
<1>4. ASSUME NEW g \in Handlers, Done(g) PROVE call'[h].to = "DELETED"
  BY <1>2, <1>4 DEF Done
<1>5. ASSUME UNCHANGED <<pc, call>> PROVE call'[h].to = "DELETED"
  BY <1>1, <1>5
<1> QED BY <1>2, <1>3, <1>5, AdminOrElse

LEMMA DeletedRemains ==
    ASSUME TypeOK, DeletionsDelete, Next, status = "DELETED", status' # "DELETED"
    PROVE  \E h \in Handlers : pc[h] = "admin" /\ call[h].op = "restore" /\ pc'[h] = "idle"
<1>1. status' # status
  OBVIOUS
<1>2. ASSUME NEW h \in Handlers, NEW word \in Words, LoginRead(h, word) PROVE FALSE
  BY <1>1, <1>2 DEF LoginRead
<1>3. ASSUME NEW h \in Handlers, ChangeWrite(h) \/ ResetWrite(h) PROVE FALSE
  BY <1>1, <1>3 DEF ChangeWrite, ResetWrite, Replaced
<1>4. ASSUME NEW h \in Handlers, MailWrite(h) PROVE FALSE
  BY <1>1, <1>4 DEF MailWrite, user
<1>5. ASSUME NEW h \in Handlers, StatusChanged(h) \/ EmailVerified(h) PROVE FALSE
  BY <1>5 DEF StatusChanged, EmailVerified, AdminWrites, DeletedStateHolds
<1>6. ASSUME NEW h \in Handlers, UserDeleted(h) PROVE FALSE
  BY <1>6 DEF UserDeleted, AdminWrites, DeletionsDelete
<1>7. ASSUME NEW h \in Handlers, UserRestored(h)
      PROVE  pc[h] = "admin" /\ call[h].op = "restore" /\ pc'[h] = "idle"
  BY <1>7 DEF UserRestored, AdminWrites, Done, Become, TypeOK
<1> QED BY <1>1, <1>2, <1>3, <1>4, <1>5, <1>6, <1>7 DEF Next, LockEnds, SuspensionEnds,
       SessionsRevoked, SessionEnds, SessionRevoked, OthersRevoked, TokenEnds, ChangeRead,
       LoginFails, LoginSucceeds, SessionChecked, SessionInserted, IssueRead, IssueWrite,
       MailRead, ResetRead, Abandoned, AdminRead, user

-----------------------------------------------------------------------------
LEMMA InitInv == Init => Inv
<1> SUFFICES ASSUME Init PROVE Inv
  OBVIOUS
<1>1. AllBehind /\ DeletionsDelete
  BY DEF Init, AllBehind, DeletionsDelete, Carries
<1> QED BY <1>1, InitTypes DEF Inv

LEMMA NextKeepsInv == Inv /\ [Next]_vars => Inv'
<1>1. ASSUME Inv, UNCHANGED vars PROVE AllBehind' /\ DeletionsDelete'
  BY <1>1 DEF Inv, AllBehind, DeletionsDelete, Behind, Carries, vars, user
<1>2. ASSUME Inv, Next PROVE AllBehind' /\ DeletionsDelete'
  BY <1>2, NextKeepsBehind, NextKeepsDeletions DEF Inv
<1> QED BY <1>1, <1>2, NextKeepsTypes DEF Inv

LEMMA AlwaysInv == Spec => []Inv
BY InitInv, NextKeepsInv, PTL DEF Spec

-----------------------------------------------------------------------------
(* What a request has read, while nothing overtakes it (MCAccounts).        *)

\* What becomes of a handler: it stands still, or reads, or goes on to a step
\* of its own, or to one that none of the following is about.
HandlerMove(h) ==
    \/ pc'[h] = pc[h] /\ call'[h] = call[h]
    \/ pc'[h] \in {"idle", "miss", "change", "issue"}
    \/ /\ pc'[h] = "login" /\ call'[h].hash = password
       /\ UNCHANGED credential
    \/ /\ pc'[h] = "proved" /\ LoginSucceeds(h)
       /\ call'[h].word = call[h].hash.word /\ call'[h].version = call[h].version
    \/ /\ pc'[h] = "session" /\ pc[h] = "proved"
       /\ Current(call[h].version) /\ call'[h].word = call[h].word
       /\ UNCHANGED <<user, credential>>
    \/ /\ pc'[h] = "reset" /\ Usable(call'[h].token)
       /\ UNCHANGED token
    \/ /\ pc'[h] = "mail" /\ ~verified
       /\ call'[h].activate <=> status = "PENDING_VERIFICATION"
       /\ UNCHANGED user
    \/ /\ pc'[h] = "admin" /\ call'[h].op \in Operations /\ call'[h].to \in Outcome[call'[h].op]
       /\ UNCHANGED user

LEMMA HandlerMoves ==
    ASSUME TypeOK, Next, NEW h \in Handlers
    PROVE  HandlerMove(h)
<1>0. DOMAIN pc = Handlers /\ DOMAIN call = Handlers
  BY DEF TypeOK
<1>1. ASSUME UNCHANGED <<pc, call>> PROVE HandlerMove(h)
  BY <1>1 DEF HandlerMove
<1>2. ASSUME NEW g \in Handlers, NEW step, NEW read, Become(g, step, read), g # h
      PROVE  HandlerMove(h)
  BY <1>0, <1>2 DEF Become, HandlerMove
<1>3. ASSUME NEW step, NEW read, Become(h, step, read)
      PROVE  pc'[h] = step /\ call'[h] = read
  BY <1>0, <1>3 DEF Become
<1>4. ASSUME NEW g \in Handlers, NEW read, NEW step \in {"idle", "miss", "change", "issue"},
             Become(g, step, read)
      PROVE  HandlerMove(h)
  BY <1>2, <1>3, <1>4 DEF HandlerMove
<1>5. ASSUME NEW g \in Handlers, NEW word \in Words, LoginRead(g, word) PROVE HandlerMove(h)
  <2>1. PICK read : read = [hash |-> password, version |-> version]
    OBVIOUS
  <2>2. CASE Become(g, "login", read) /\ g = h
    BY <1>3, <1>5, <2>1, <2>2 DEF LoginRead, HandlerMove
  <2> QED BY <1>1, <1>2, <1>4, <1>5, <2>1, <2>2 DEF LoginRead
<1>6. ASSUME NEW g \in Handlers, LoginSucceeds(g) PROVE HandlerMove(h)
  <2>1. PICK read : read = [word |-> call[g].hash.word, version |-> call[g].version]
    OBVIOUS
  <2>2. Become(g, "proved", read)
    BY <1>6, <2>1 DEF LoginSucceeds
  <2>3. CASE g = h
    BY <1>3, <1>6, <2>1, <2>2, <2>3 DEF HandlerMove
  <2> QED BY <1>2, <2>2, <2>3
<1>7. ASSUME NEW g \in Handlers, SessionChecked(g) PROVE HandlerMove(h)
  <2>1. PICK read : read = [word |-> call[g].word, version |-> version]
    OBVIOUS
  <2>2. CASE Become(g, "session", read) /\ Current(call[g].version) /\ g = h
    BY <1>3, <1>7, <2>1, <2>2 DEF HandlerMove, SessionChecked
  <2> QED BY <1>2, <1>4, <1>7, <2>1, <2>2 DEF SessionChecked, Done
<1>8. ASSUME NEW g \in Handlers, NEW t \in Tokens, NEW word \in Words, ResetRead(g, t, word)
      PROVE  HandlerMove(h)
  <2>1. PICK read : read = [token |-> t, next |-> word]
    OBVIOUS
  <2>2. Become(g, "reset", read)
    BY <1>8, <2>1 DEF ResetRead
  <2>3. CASE g = h
    BY <1>3, <1>8, <2>1, <2>2, <2>3 DEF HandlerMove, ResetRead
  <2> QED BY <1>2, <2>2, <2>3
<1>9. ASSUME NEW g \in Handlers, NEW t \in Tokens, MailRead(g, t) PROVE HandlerMove(h)
  <2>1. PICK read : read = [token |-> t, activate |-> status = "PENDING_VERIFICATION"]
    OBVIOUS
  <2>2. Become(g, "mail", read)
    BY <1>9, <2>1 DEF MailRead
  <2>3. CASE g = h
    <3>1. pc'[h] = "mail" /\ call'[h] = read
      BY <1>3, <2>2, <2>3
    <3>2. read.activate = (status = "PENDING_VERIFICATION")
      BY <2>1
    <3>3. call'[h].activate <=> status = "PENDING_VERIFICATION"
      BY <3>1, <3>2
    <3>4. ~verified /\ UNCHANGED user
      BY <1>9 DEF MailRead
    <3> QED BY <3>1, <3>3, <3>4 DEF HandlerMove
  <2> QED BY <1>2, <2>2, <2>3
<1>10. ASSUME NEW g \in Handlers, NEW op \in Operations, AdminRead(g, op) PROVE HandlerMove(h)
  <2>1. PICK to \in Outcome[op] : Become(g, "admin", [op |-> op, to |-> to])
    BY <1>10 DEF AdminRead
  <2>2. PICK read : read = [op |-> op, to |-> to]
    OBVIOUS
  <2>3. CASE g = h
    BY <1>3, <1>10, <2>1, <2>2, <2>3 DEF HandlerMove, AdminRead
  <2> QED BY <1>2, <2>1, <2>3
<1>11. ASSUME NEW g \in Handlers,
              \/ \E word \in Words : ChangeRead(g, word)
              \/ \E kind \in {"mail", "reset"} : IssueRead(g, kind)
       PROVE  HandlerMove(h)
  <2>1. ASSUME NEW word \in Words, ChangeRead(g, word) PROVE HandlerMove(h)
    BY <1>4, <2>1 DEF ChangeRead
  <2>2. ASSUME NEW kind \in {"mail", "reset"}, IssueRead(g, kind) PROVE HandlerMove(h)
    BY <1>4, <2>2 DEF IssueRead
  <2> QED BY <1>11, <2>1, <2>2
<1>12. ASSUME NEW g \in Handlers,
              \/ LoginFails(g) \/ \E s \in Sessions : SessionInserted(g, s)
              \/ \E t \in Tokens : IssueWrite(g, t)
              \/ ChangeWrite(g) \/ ResetWrite(g) \/ MailWrite(g) \/ Abandoned(g)
              \/ StatusChanged(g) \/ EmailVerified(g) \/ UserDeleted(g) \/ UserRestored(g)
       PROVE  HandlerMove(h)
  <2>1. Done(g)
    BY <1>12 DEF LoginFails, SessionInserted, IssueWrite, ChangeWrite, ResetWrite, MailWrite,
       Abandoned, AdminWrites, StatusChanged, EmailVerified, UserDeleted, UserRestored
  <2> QED BY <1>4, <2>1 DEF Done
<1> QED BY <1>1, <1>5, <1>6, <1>7, <1>8, <1>9, <1>10, <1>11, <1>12 DEF Next, LockEnds,
       SuspensionEnds, SessionsRevoked, SessionEnds, SessionRevoked, OthersRevoked, TokenEnds

-----------------------------------------------------------------------------
(* Why a valid session has proved the password that is stored: a replaced   *)
(* password comes with a version that no session and no login has yet, so a  *)
(* login it overtakes gets no session; and a hash that is written back is of *)
(* the password that is there.                                              *)

Knows(v, word) == v = version => word = password.word

WhoKnows ==
    ~writtenBack =>
        /\ \A s \in Sessions : session[s] # NoSession => Knows(session[s].version, session[s].proved)
        /\ \A h \in Handlers :
              /\ pc[h] = "login" => Knows(call[h].version, call[h].hash.word)
              /\ pc[h] \in {"proved", "session"} => Knows(call[h].version, call[h].word)

\* A login that does not write back another password leaves the word that is stored.
LEMMA LoginKeepsWord ==
    ASSUME TypeOK, NEW h \in Handlers, LoginSucceeds(h), ~WritesBack(h)
    PROVE  password'.word = password.word /\ version' = version
<1>1. Ends(h, "login")
  BY DEF LoginSucceeds, Become, Ends, TypeOK
<1>2. password' = password \/ call[h].hash.word = password.word
  BY <1>1 DEF WritesBack
<1>3. [call[h].hash EXCEPT !.by = h].word = call[h].hash.word
  BY CallShape, TypeParts DEF LoginSucceeds, Hashes
<1> QED BY <1>2, <1>3 DEF LoginSucceeds, user

\* The word is the one that was there, or the version is a new one.
LEMMA WordOrVersion ==
    ASSUME TypeOK, MCNext, ~writtenBack'
    PROVE  \/ password'.word = password.word /\ version' = version
           \/ version' = version + 1
<1>0. Next /\ \A h \in Handlers : ~WritesBack(h)
  BY DEF MCNext
<1>1. CASE UNCHANGED credential
  BY <1>0, <1>1, UserMoves DEF UserMove, credential
<1>2. ASSUME NEW h \in Handlers, LoginFails(h)
      PROVE  password'.word = password.word /\ version' = version
  BY <1>2 DEF LoginFails, user
<1>3. ASSUME NEW h \in Handlers, LoginSucceeds(h)
      PROVE  password'.word = password.word /\ version' = version
  BY <1>0, <1>3, LoginKeepsWord
<1>4. ASSUME NEW h \in Handlers, ChangeWrite(h) \/ ResetWrite(h) PROVE version' = version + 1
  BY <1>4 DEF ChangeWrite, ResetWrite, Replaced, Bumped
<1>5. CASE LockEnds
  BY <1>5 DEF LockEnds, user
<1> QED BY <1>0, <1>1, <1>2, <1>3, <1>4, <1>5 DEF Next, SuspensionEnds, SessionsRevoked,
       SessionEnds, SessionRevoked, OthersRevoked, TokenEnds, LoginRead, ChangeRead,
       SessionChecked, SessionInserted, IssueRead, IssueWrite, MailRead, ResetRead, MailWrite,
       Abandoned, AdminRead, StatusChanged, EmailVerified, UserDeleted, UserRestored, AdminWrites

LEMMA NextKeepsKnowledge ==
    ASSUME Inv, WhoKnows, MCNext, ~writtenBack'
    PROVE  WhoKnows'
<1>0. TypeOK /\ AllBehind /\ Next /\ ~writtenBack
  BY DEF Inv, MCNext
<1>1. version \in Int /\ version' \in Int
  BY <1>0, UserMoves DEF TypeOK, UserMove
<1>2. ASSUME NEW v \in Int, NEW word, v <= version, Knows(v, word) PROVE Knows(v, word)'
  BY <1>0, <1>1, <1>2, WordOrVersion DEF Knows
<1>3. ASSUME NEW s \in Sessions, session'[s] # NoSession
      PROVE  Knows(session[s].version, session[s].proved)'
  <2>1. CASE session[s] # NoSession
    <3>1. session'[s].version = session[s].version /\ session'[s].proved = session[s].proved
      BY <1>0, <1>3, <2>1, SessionMoves DEF SessionMove
    <3>2. session[s].version \in Int /\ session[s].version <= version
      BY <1>0, <2>1 DEF TypeOK, SessionRows, AllBehind, Behind
    <3>3. Knows(session[s].version, session[s].proved)
      BY <1>0, <2>1 DEF WhoKnows
    <3>4. PICK v, word : v = session[s].version /\ word = session[s].proved
      OBVIOUS
    <3>5. Knows(v, word)'
      BY <1>2, <3>2, <3>3, <3>4
    <3> QED BY <3>1, <3>4, <3>5 DEF Knows
  <2>2. CASE session[s] = NoSession
    <3>1. PICK h \in Handlers :
              /\ Carries(h) /\ pc[h] = "session" /\ session'[s].version = call[h].version
              /\ session'[s].proved = call[h].word
      BY <1>0, <1>3, <2>2, SessionMoves DEF SessionMove
    <3>2. call[h].version \in Int /\ call[h].version <= version
      BY <1>0, <3>1 DEF TypeOK, IsCall, AllBehind, Behind
    <3>3. Knows(call[h].version, call[h].word)
      BY <1>0, <3>1 DEF WhoKnows
    <3>4. PICK v, word : v = call[h].version /\ word = call[h].word
      BY <3>2
    <3>5. Knows(v, word)'
      BY <1>2, <3>2, <3>3, <3>4
    <3> QED BY <3>1, <3>4, <3>5 DEF Knows
  <2> QED BY <2>1, <2>2
<1>4. ASSUME NEW h \in Handlers, pc'[h] = "login"
      PROVE  Knows(call[h].version, call[h].hash.word)'
  <2>1. CASE pc'[h] = pc[h] /\ call'[h] = call[h]
    <3>1. call[h].version \in Int /\ call[h].version <= version
      BY <1>0, <1>4, <2>1, CallShape, TypeParts DEF AllBehind, Behind, Carries
    <3>2. Knows(call[h].version, call[h].hash.word)
      BY <1>0, <1>4, <2>1 DEF WhoKnows
    <3>3. PICK v, word : v = call[h].version /\ word = call[h].hash.word
      BY <3>1
    <3>4. Knows(v, word)'
      BY <1>2, <3>1, <3>2, <3>3
    <3> QED BY <2>1, <3>3, <3>4 DEF Knows
  <2>2. CASE call'[h].hash = password /\ UNCHANGED credential
    BY <2>2 DEF Knows, credential
  <2> QED BY <1>0, <1>4, <2>1, <2>2, HandlerMoves DEF HandlerMove
<1>5. ASSUME NEW h \in Handlers, pc'[h] \in {"proved", "session"}
      PROVE  Knows(call[h].version, call[h].word)'
  <2>1. CASE pc'[h] = pc[h] /\ call'[h] = call[h]
    <3>1. call[h].version \in Int /\ call[h].version <= version
      BY <1>0, <1>5, <2>1 DEF TypeOK, IsCall, AllBehind, Behind, Carries
    <3>2. Knows(call[h].version, call[h].word)
      BY <1>0, <1>5, <2>1 DEF WhoKnows
    <3>3. PICK v, word : v = call[h].version /\ word = call[h].word
      BY <3>1
    <3>4. Knows(v, word)'
      BY <1>2, <3>1, <3>2, <3>3
    <3> QED BY <2>1, <3>3, <3>4 DEF Knows
  <2>2. CASE /\ LoginSucceeds(h)
             /\ call'[h].word = call[h].hash.word /\ call'[h].version = call[h].version
    <3>1. Knows(call[h].version, call[h].hash.word)
      BY <1>0, <2>2 DEF LoginSucceeds, WhoKnows
    <3>2. password'.word = password.word /\ version' = version
      BY <1>0, <2>2, LoginKeepsWord DEF MCNext
    <3> QED BY <2>2, <3>1, <3>2 DEF Knows
  <2>3. CASE /\ pc[h] = "proved" /\ Current(call[h].version)
             /\ call'[h].word = call[h].word /\ UNCHANGED <<user, credential>>
    <3>1. call[h].word = password.word
      BY <1>0, <2>3 DEF Current, WhoKnows, Knows
    <3> QED BY <2>3, <3>1 DEF Knows, credential
  <2> QED BY <1>0, <1>5, <2>1, <2>2, <2>3, HandlerMoves DEF HandlerMove
<1> QED BY <1>3, <1>4, <1>5 DEF WhoKnows

-----------------------------------------------------------------------------
(* Why a user is pending as long as the e-mail is not verified: what a      *)
(* request on its way will write agrees with the e-mail, whatever comes in   *)
(* between, but for the e-mail a restoration has read and for the restored   *)
(* user a verification has not seen.                                        *)

PendingFollows == status # "DELETED" => (status = "PENDING_VERIFICATION" <=> ~verified)

\* What an administrator's operation may still write.
MayWrite(op, to) ==
    /\ op = "change" => verified /\ to \notin {"PENDING_VERIFICATION", "DELETED"}
    /\ op = "verify" => to # "PENDING_VERIFICATION"
    /\ op = "delete" => to = "DELETED"
    /\ op = "restore" => to = RestoredTo(verified)

WhoVerifies ==
    ~overlapped =>
        /\ PendingFollows
        /\ \A h \in Handlers :
              /\ pc[h] = "mail" /\ status = "PENDING_VERIFICATION" => call[h].activate
              /\ pc[h] = "admin" => MayWrite(call[h].op, call[h].to)

LEMMA Outcomes ==
    ASSUME PendingFollows, NEW op \in Operations, NEW to \in Outcome[op]
    PROVE  MayWrite(op, to)
<1>1. op = "change" => to \in {new \in Statuses : <<status, new>> \in Transitions}
  BY DEF Outcome
<1>2. op = "verify" => to \in {IF status = "PENDING_VERIFICATION" THEN "ACTIVE" ELSE status}
  BY DEF Outcome
<1>3. op = "delete" => to \in {"DELETED"}
  BY DEF Outcome
<1>4. op = "restore" => status = "DELETED" /\ to \in {RestoredTo(verified)}
  BY DEF Outcome
<1>5. op = "change" => verified /\ to \notin {"PENDING_VERIFICATION", "DELETED"}
  BY <1>1 DEF PendingFollows, Transitions
<1> QED BY <1>2, <1>3, <1>4, <1>5 DEF MayWrite

LEMMA VerifiedStays ==
    ASSUME Next, verified
    PROVE  verified'
BY DEF Next, LockEnds, SuspensionEnds, SessionsRevoked, SessionEnds, SessionRevoked,
   OthersRevoked, TokenEnds, LoginRead, ChangeRead, LoginFails, LoginSucceeds, SessionChecked,
   SessionInserted, IssueRead, IssueWrite, MailRead, ResetRead, Replaced, ChangeWrite,
   ResetWrite, MailWrite, Abandoned, AdminRead, StatusChanged, EmailVerified, UserDeleted,
   UserRestored, user

\* A user becomes pending only by a restoration.
LEMMA NextKeepsPending ==
    ASSUME TypeOK, WhoVerifies, ~overlapped, Next
    PROVE  /\ PendingFollows'
           /\ status' = "PENDING_VERIFICATION" => status \in {"PENDING_VERIFICATION", "DELETED"}
<1> DEFINE Kept == /\ PendingFollows'
                   /\ status' = "PENDING_VERIFICATION" =>
                          status \in {"PENDING_VERIFICATION", "DELETED"}
<1>0. PendingFollows
  BY DEF WhoVerifies
<1>1. CASE UNCHANGED <<status, verified>>
  BY <1>0, <1>1 DEF PendingFollows
<1>2. ASSUME NEW h \in Handlers, NEW word \in Words, LoginRead(h, word) PROVE Kept
  BY <1>0, <1>2 DEF LoginRead, PendingFollows
<1>3. ASSUME NEW h \in Handlers, MailWrite(h) PROVE Kept
  <2>1. status = "PENDING_VERIFICATION" => call[h].activate
    BY <1>3 DEF MailWrite, WhoVerifies
  <2>2. CASE verified' = TRUE /\ status' = IF call[h].activate /\ status = "PENDING_VERIFICATION"
                                             THEN "ACTIVE" ELSE status
    BY <2>1, <2>2 DEF PendingFollows
  <2> QED BY <1>1, <1>3, <2>2 DEF MailWrite, user
<1>4. ASSUME NEW h \in Handlers, NEW op \in Operations, AdminWrites(h, op)
      PROVE  status' = call[h].to /\ MayWrite(op, call[h].to)
  BY <1>4 DEF AdminWrites, WhoVerifies
<1>5. ASSUME NEW h \in Handlers, StatusChanged(h) PROVE Kept
  <2>1. verified /\ verified' = verified /\ status' \notin {"PENDING_VERIFICATION", "DELETED"}
    BY <1>4, <1>5 DEF StatusChanged, Operations, MayWrite
  <2> QED BY <2>1 DEF PendingFollows
<1>6. ASSUME NEW h \in Handlers, EmailVerified(h) PROVE Kept
  <2>1. verified' = TRUE /\ status' # "PENDING_VERIFICATION"
    BY <1>4, <1>6 DEF EmailVerified, Operations, MayWrite
  <2> QED BY <2>1 DEF PendingFollows
<1>7. ASSUME NEW h \in Handlers, UserDeleted(h) PROVE Kept
  <2>1. status' = "DELETED"
    BY <1>4, <1>7 DEF UserDeleted, Operations, MayWrite
  <2> QED BY <2>1 DEF PendingFollows
<1>8. ASSUME NEW h \in Handlers, UserRestored(h) PROVE Kept
  <2>1. status' = RestoredTo(verified) /\ verified' = verified
    BY <1>4, <1>8 DEF UserRestored, Operations, MayWrite
  <2> QED BY <1>0, <2>1 DEF PendingFollows, RestoredTo
<1> QED BY <1>1, <1>2, <1>3, <1>5, <1>6, <1>7, <1>8 DEF Next, LockEnds, SuspensionEnds,
       SessionsRevoked, SessionEnds, SessionRevoked, OthersRevoked, TokenEnds, ChangeRead,
       LoginFails, LoginSucceeds, SessionChecked, SessionInserted, IssueRead, IssueWrite,
       MailRead, ResetRead, Replaced, ChangeWrite, ResetWrite, Abandoned, AdminRead, user

LEMMA NextKeepsVerifiers ==
    ASSUME Inv, WhoVerifies, MCNext, ~overlapped'
    PROVE  WhoVerifies'
<1>0. /\ TypeOK /\ Next /\ ~overlapped /\ PendingFollows
      /\ \A h \in Handlers : ~Overlap(h)
  BY DEF Inv, MCNext, WhoVerifies
<1>1. verified \in BOOLEAN /\ verified' \in BOOLEAN
  BY <1>0, NextKeepsInv DEF Inv, TypeOK
<1>2. ASSUME NEW h \in Handlers, pc'[h] = "mail", status' = "PENDING_VERIFICATION"
      PROVE  call'[h].activate
  <2>1. CASE pc'[h] = pc[h] /\ call'[h] = call[h]
    <3>1. status # "DELETED"
      BY <1>0, <1>2, <2>1 DEF Overlap, Overtaken
    <3>2. status = "PENDING_VERIFICATION"
      BY <1>0, <1>2, <3>1, NextKeepsPending
    <3> QED BY <1>0, <1>2, <2>1, <3>2 DEF WhoVerifies
  <2>2. CASE (call'[h].activate <=> status = "PENDING_VERIFICATION") /\ UNCHANGED user
    BY <1>2, <2>2 DEF user
  <2> QED BY <1>0, <1>2, <2>1, <2>2, HandlerMoves DEF HandlerMove
<1>3. ASSUME NEW h \in Handlers, pc'[h] = "admin"
      PROVE  MayWrite(call[h].op, call[h].to)'
  <2>1. CASE pc'[h] = pc[h] /\ call'[h] = call[h]
    <3>1. MayWrite(call[h].op, call[h].to)
      BY <1>0, <1>3, <2>1 DEF WhoVerifies
    <3>2. call[h].op = "restore" => verified' = verified
      BY <1>0, <1>3, <2>1 DEF Overlap, Overtaken
    <3>3. verified => verified'
      BY <1>0, VerifiedStays
    <3> QED BY <2>1, <3>1, <3>2, <3>3 DEF MayWrite, RestoredTo
  <2>2. CASE /\ call'[h].op \in Operations /\ call'[h].to \in Outcome[call'[h].op]
             /\ UNCHANGED user
    <3>1. PICK op \in Operations : op = call'[h].op
      BY <2>2
    <3>2. PICK to \in Outcome[op] : to = call'[h].to
      BY <2>2, <3>1
    <3>3. MayWrite(op, to)
      BY <1>0, Outcomes
    <3> QED BY <2>2, <3>1, <3>2, <3>3 DEF MayWrite, RestoredTo, user
  <2> QED BY <1>0, <1>3, <2>1, <2>2, HandlerMoves DEF HandlerMove
<1> QED BY <1>0, <1>2, <1>3, NextKeepsPending DEF WhoVerifies

-----------------------------------------------------------------------------
(* Why a reset consumes its token: a token that is spent is usable never    *)
(* again, so whoever still holds a used token had found it usable before.   *)

\* A token that was active is no more.
Settled(t) == token[t] # NoToken /\ token[t].state # "active"

WhoResets ==
    \A t \in used :
        /\ t \in Tokens /\ Settled(t)
        /\ \A h \in Handlers : pc[h] = "reset" /\ call[h].token = t => t \in doubled

LEMMA SettledStays ==
    ASSUME TypeOK, Next, NEW t \in Tokens, Settled(t)
    PROVE  Settled(t)'
<1>1. token[t] \in TokenRows
  BY DEF TypeOK, Settled
<1>2. ASSUME NEW row, NEW state \in {"spent", "deleted"}, row = [token[t] EXCEPT !.state = state]
      PROVE  row # NoToken /\ row.state # "active"
  <2>1. row \in TokenRows /\ row.state = state
    BY <1>1, <1>2 DEF TokenRows
  <2> QED BY <2>1, NoTokenAssumption
<1>3. ASSUME NEW kind PROVE Spent(kind)[t] = token[t]
  BY DEF Spent, Settled, Active
<1>4. CASE token'[t] = token[t]
  BY <1>4 DEF Settled
<1>5. ASSUME NEW u \in Tokens, TokenEnds(u) PROVE Settled(t)'
  BY <1>4, <1>5 DEF TokenEnds, Settled, TypeOK
<1>6. ASSUME NEW h \in Handlers, NEW u \in Tokens, IssueWrite(h, u) PROVE Settled(t)'
  <2>1. Spent(call[h].kind) \in [Tokens -> TokenRows \cup {NoToken}]
    BY SpentTypes, TypeParts
  <2> QED BY <1>3, <1>4, <1>6, <2>1 DEF IssueWrite, Settled
<1>7. ASSUME NEW kind, NEW u \in Tokens, token' = [Spent(kind) EXCEPT ![u].state = "spent"]
      PROVE  Settled(t)'
  <2>1. Spent(kind) \in [Tokens -> TokenRows \cup {NoToken}]
    BY SpentTypes, TypeParts
  <2>2. CASE t # u
    BY <1>3, <1>4, <1>7, <2>1, <2>2
  <2>3. CASE t = u
    <3>1. token'[t] = [token[t] EXCEPT !.state = "spent"]
      BY <1>3, <1>7, <2>1, <2>3
    <3> QED BY <1>2, <3>1 DEF Settled
  <2> QED BY <2>2, <2>3
<1>8. ASSUME NEW h \in Handlers, MailWrite(h) \/ ResetWrite(h) PROVE Settled(t)'
  <2>1. call[h].token \in Tokens
    BY <1>8, CallShape, TypeParts DEF MailWrite, ResetWrite
  <2> QED BY <1>4, <1>7, <1>8, <2>1 DEF MailWrite, ResetWrite
<1>9. ASSUME NEW h \in Handlers, EmailVerified(h) PROVE Settled(t)'
  <2>1. token'[t] = token[t] \/ token'[t] = [token[t] EXCEPT !.state = "deleted"]
    BY <1>9 DEF EmailVerified
  <2> QED BY <1>2, <1>4, <2>1 DEF Settled
<1> QED BY <1>4, <1>5, <1>6, <1>8, <1>9 DEF Next, LockEnds, SuspensionEnds, SessionsRevoked,
       SessionEnds, SessionRevoked, OthersRevoked, LoginRead, ChangeRead, LoginFails,
       LoginSucceeds, SessionChecked, SessionInserted, IssueRead, MailRead, ResetRead,
       ChangeWrite, Abandoned, AdminRead, StatusChanged, UserDeleted, UserRestored

\* A reset that ends with another password has written it, and spent its token.
LEMMA ResetEnds ==
    ASSUME TypeOK, TokensFound, Next, NEW h \in Handlers, Ends(h, "reset"),
           password'.since # password.since
    PROVE  \E t \in Tokens : t = call[h].token /\ Settled(t)'
<1>0. DOMAIN pc = Handlers /\ DOMAIN call = Handlers
  BY DEF TypeOK
<1>1. ASSUME NEW g \in Handlers, NEW step, NEW read, Become(g, step, read) PROVE g = h
  BY <1>0, <1>1 DEF Become, Ends
<1>2. ASSUME UNCHANGED password \/ UNCHANGED <<pc, call>> PROVE FALSE
  BY <1>2 DEF Ends
<1>3. ASSUME NEW g \in Handlers, ChangeWrite(g) \/ LoginSucceeds(g) PROVE FALSE
  <2>1. g = h
    BY <1>1, <1>3 DEF ChangeWrite, LoginSucceeds, Done
  <2> QED BY <1>3, <2>1 DEF ChangeWrite, LoginSucceeds, Ends
<1>4. PICK g \in Handlers : ResetWrite(g)
  BY <1>2, <1>3 DEF Next, LockEnds, SuspensionEnds, SessionsRevoked, SessionEnds, SessionRevoked,
     OthersRevoked, TokenEnds, LoginRead, ChangeRead, LoginFails, SessionChecked,
     SessionInserted, IssueRead, IssueWrite, MailRead, ResetRead, MailWrite, Abandoned,
     AdminRead, StatusChanged, EmailVerified, UserDeleted, UserRestored, AdminWrites, credential
<1>5. g = h
  BY <1>1, <1>4 DEF ResetWrite, Done
<1>6. call[h].token \in Tokens
  BY <1>4, <1>5, CallShape, TypeParts DEF ResetWrite
<1>7. PICK t \in Tokens : t = call[h].token
  BY <1>6
<1>8. token' = [Spent("reset") EXCEPT ![t].state = "spent"] /\ token[t] # NoToken
  BY <1>4, <1>5, <1>7 DEF ResetWrite, TokensFound
<1>9. token[t] \in TokenRows
  BY <1>8 DEF TypeOK
<1>10. Spent("reset")[t] \in TokenRows
  <2>1. [token[t] EXCEPT !.state = "spent"] \in TokenRows
    BY <1>9 DEF TokenRows
  <2> QED BY <1>9, <2>1 DEF Spent
<1>11. token'[t] = [Spent("reset")[t] EXCEPT !.state = "spent"]
  BY <1>8, SpentTypes, TypeParts
<1>12. token'[t] \in TokenRows /\ token'[t].state = "spent"
  BY <1>10, <1>11 DEF TokenRows
<1> QED BY <1>7, <1>12, NoTokenAssumption DEF Settled

LEMMA NextKeepsResets ==
    ASSUME Inv, WhoResets, MCNext
    PROVE  WhoResets'
<1>0. TypeOK /\ TokensFound /\ Next
  BY DEF Inv, MCNext
<1>1. ASSUME NEW t \in Tokens, Settled(t)', t \notin used \/ Settled(t),
             NEW h \in Handlers, pc'[h] = "reset", call'[h].token = t
      PROVE  pc[h] = "reset" /\ call[h].token = t
  <2>1. CASE Usable(call'[h].token) /\ UNCHANGED token
    BY <1>1, <2>1 DEF Usable, Active, Settled
  <2> QED BY <1>0, <1>1, <2>1, HandlerMoves DEF HandlerMove
<1>2. ASSUME NEW t \in used' PROVE t \in Tokens /\ Settled(t)'
  <2>1. t \in used \/ \E h \in Handlers : t \in Tokens /\ ResetsWith(h, t)
    BY <1>2 DEF MCNext
  <2>2. CASE t \in used
    BY <1>0, <2>2, SettledStays DEF WhoResets
  <2>3. ASSUME NEW h \in Handlers, t \in Tokens, ResetsWith(h, t) PROVE Settled(t)'
    <3>1. PICK u \in Tokens : u = call[h].token /\ Settled(u)'
      BY <1>0, <2>3, ResetEnds DEF ResetsWith
    <3> QED BY <2>3, <3>1 DEF ResetsWith
  <2> QED BY <2>1, <2>2, <2>3
<1>3. ASSUME NEW t \in used', NEW h \in Handlers, pc'[h] = "reset", call'[h].token = t
      PROVE  t \in doubled'
  <2>1. pc[h] = "reset" /\ call[h].token = t /\ t \in Tokens
    BY <1>1, <1>2, <1>3 DEF WhoResets
  <2>2. CASE t \in used
    BY <2>1, <2>2 DEF WhoResets, MCNext
  <2>3. CASE t \notin used
    <3>1. PICK g \in Handlers : ResetsWith(g, t)
      BY <1>3, <2>3 DEF MCNext
    <3>2. Overtaken("reset", h)
      BY <1>3, <2>1 DEF Overtaken
    <3> QED BY <2>1, <3>1, <3>2 DEF MCNext
  <2> QED BY <2>2, <2>3
<1> QED BY <1>2, <1>3 DEF WhoResets

-----------------------------------------------------------------------------
MCInv == Inv /\ WhoKnows /\ WhoVerifies /\ WhoResets

LEMMA MCInitInv == MCInit => MCInv
<1> SUFFICES ASSUME MCInit PROVE MCInv
  OBVIOUS
<1>1. Inv /\ used = {}
  BY InitInv DEF MCInit
<1>2. /\ \A h \in Handlers : pc[h] = "idle"
      /\ \A s \in Sessions : session[s] = NoSession
      /\ status = "PENDING_VERIFICATION" /\ verified = FALSE
  BY DEF MCInit, Init
<1> QED BY <1>1, <1>2 DEF MCInv, WhoKnows, WhoVerifies, WhoResets, PendingFollows

LEMMA MCKeeps == MCInv /\ [MCNext]_<<vars, history>> => MCInv'
<1>1. ASSUME MCInv, MCNext PROVE MCInv'
  <2>1. Inv'
    BY <1>1, NextKeepsInv DEF MCInv, MCNext
  <2>2. WhoKnows'
    <3>1. CASE writtenBack'
      BY <3>1 DEF WhoKnows
    <3> QED BY <1>1, <3>1, NextKeepsKnowledge DEF MCInv
  <2>3. WhoVerifies'
    <3>1. CASE overlapped'
      BY <3>1 DEF WhoVerifies
    <3> QED BY <1>1, <3>1, NextKeepsVerifiers DEF MCInv
  <2>4. WhoResets'
    BY <1>1, NextKeepsResets DEF MCInv
  <2> QED BY <2>1, <2>2, <2>3, <2>4 DEF MCInv
<1>2. ASSUME MCInv, UNCHANGED <<vars, history>> PROVE MCInv'
  <2>1. Inv'
    BY <1>2, NextKeepsInv DEF MCInv
  <2> QED BY <1>2, <2>1 DEF MCInv, WhoKnows, WhoVerifies, WhoResets, Knows, PendingFollows,
         MayWrite, RestoredTo, Settled, vars, user, credential, history
<1> QED BY <1>1, <1>2

\* A session that does not validate never does again: through logins and
\* password changes that overlap it, a suspension that ends by itself, and a
\* deletion that is taken back, for any number of sessions and handlers.
THEOREM OutForGood == Spec => OutStaysOut
<1>1. ASSUME Inv, [Next]_vars, NEW s \in Sessions, session[s] # NoSession, ~Valid(s)
      PROVE  ~Valid(s)'
  <2>1. CASE UNCHANGED vars
    BY <1>1, <2>1 DEF vars, user, Valid, Current
  <2>2. CASE Next
    BY <1>1, <2>2, OutRemains DEF Inv
  <2> QED BY <1>1, <2>1, <2>2
<1>2. Inv /\ [Next]_vars =>
          [\A s \in Sessions : session[s] # NoSession /\ ~Valid(s) => ~Valid(s)']_vars
  BY <1>1
<1> QED BY <1>2, AlwaysInv, PTL DEF Spec, OutStaysOut

\* A deleted user is brought back by a restoration and by nothing else: neither
\* by an operation that was checked before the deletion, nor by a verification
\* of the e-mail, nor by the end of a suspension.
THEOREM OnlyRestored == Spec => DeletedUntilRestored
<1>1. ASSUME Inv, Next, status = "DELETED" /\ status' # "DELETED"
      PROVE  \E h \in Handlers : pc[h] = "admin" /\ call[h].op = "restore" /\ pc'[h] = "idle"
  BY <1>1, DeletedRemains DEF Inv
<1>2. Inv /\ [Next]_vars =>
          [status = "DELETED" /\ status' # "DELETED" =>
           \E h \in Handlers : pc[h] = "admin" /\ call[h].op = "restore" /\ pc'[h] = "idle"]_vars
  BY <1>1
<1> QED BY <1>2, AlwaysInv, PTL DEF Spec, DeletedUntilRestored

\* Whoever has a session that is valid has proved the password that is stored,
\* through any logins, changes, resets, deletions and suspensions that overlap,
\* unless a login has written back the hash of a password that had been replaced
\* since it was read.
THEOREM SessionsKnowPassword == MCSpec => []ValidKnowsPassword
<1>1. MCInv => ValidKnowsPassword
  BY DEF MCInv, ValidKnowsPassword, Valid, Current, WhoKnows, Knows
<1> QED BY <1>1, MCInitInv, MCKeeps, PTL DEF MCSpec

\* A user who is not deleted is pending exactly as long as the e-mail is not
\* verified, however verifications, administrators' operations and logins overlap,
\* unless a verification and a restoration did.
THEOREM PendingUntilVerified == MCSpec => []PendingIsUnverified
<1>1. MCInv => PendingIsUnverified
  BY DEF MCInv, PendingIsUnverified, WhoVerifies, PendingFollows
<1> QED BY <1>1, MCInitInv, MCKeeps, PTL DEF MCSpec

\* No token replaces the password twice, for any number of tokens and of resets,
\* issues and expiries that overlap, unless two resets had found this very token
\* usable when the first of them was written.
THEOREM TokensUsedOnce == MCSpec => SingleUse
<1> DEFINE Once == \A h \in Handlers, t \in Tokens :
                       ResetsWith(h, t) => t \notin used \/ t \in doubled
<1>1. MCInv => Once
  BY DEF MCInv, WhoResets, ResetsWith, Ends
<1> QED BY <1>1, MCInitInv, MCKeeps, PTL DEF MCSpec, SingleUse
===============================================================================
