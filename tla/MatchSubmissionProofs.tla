------------------------ MODULE MatchSubmissionProofs ------------------------
(***************************************************************************)
(* Proofs about MatchSubmission, for any number of rows and handlers, and  *)
(* whether or not a stored payload keeps the order of its keys.            *)
(***************************************************************************)
EXTENDS MCMatchSubmission, TLAPS

RowOf(r, p) == r \in Rows /\ submission[r] # NoRow /\ submission[r].by = p

\* What a handler has read is no news: the version is not ahead, a match with
\* the same version can still be submitted to, and the rows are stored.
Seen(step, read) ==
    /\ step \in Running \ {"checked"} =>
         /\ read.version <= version
         /\ read.version = version => status \in Submittable
    /\ step = "submitting" /\ read.mine # NoRow => RowOf(read.mine, read.by)
    /\ step = "submitting" /\ read.theirs # NoRow => RowOf(read.theirs, Opponent(read.by))
    /\ step = "withdrawing" => RowOf(read.mine, read.by)

AllSeen == \A h \in Handlers : Seen(pc[h], call[h])

\* The inductive invariant.
SInv == TypeOK /\ StatusFollowsResult /\ ConfirmedByBoth /\ AllSeen

-----------------------------------------------------------------------------
\* The four ways in which a step is harmless: the version counts the changes
\* of the status,
Clock ==
    \/ UNCHANGED <<status, version>>
    \/ status' \in Statuses /\ version' = version + 1

\* rows keep their authors and payloads, and are ACTIVE one at a time,
Claims == [Rows -> Submissions \cup {NoRow}]
OneActive(claims) ==
    \A r, s \in Rows :
        /\ claims[r] # NoRow /\ claims[s] # NoRow
        /\ claims[r].by = claims[s].by
        /\ claims[r].status = "ACTIVE" /\ claims[s].status = "ACTIVE"
        => r = s
Keeps(claims, next) ==
    \A r \in Rows : claims[r] # NoRow =>
        next[r] # NoRow /\ next[r].by = claims[r].by /\ next[r].payload = claims[r].payload
ClaimsMove ==
    submission' \in Claims /\ OneActive(submission') /\ Keeps(submission, submission')

\* the result is typed and consistent with the status,
MatchMove ==
    /\ Clock /\ deadlinePassed' \in BOOLEAN
    /\ result' \in Results \cup {NoResult}
    /\ StatusFollowsResult'

\* and a handler only knows what it has read.
HandlerMove ==
    \/ UNCHANGED <<pc, call>>
    \/ \E h \in Handlers, step \in Steps : \E read \in Calls(step) :
         Seen(step, read) /\ Become(h, step, read)

-----------------------------------------------------------------------------
LEMMA OpponentIsOther ==
    ASSUME NEW p \in Participants
    PROVE  /\ Opponent(p) \in Participants /\ Opponent(p) # p
           /\ Participants = {p, Opponent(p)}
<1>1. PICK q, r \in Participants : q # r /\ Participants = {q, r}
  BY ParticipantsAssumption
<1>2. \E s \in Participants : s # p
  BY <1>1
<1>3. Opponent(p) \in Participants /\ Opponent(p) # p
  BY <1>2 DEF Opponent
<1> QED
  BY <1>1, <1>3

LEMMA CallsByStep ==
    /\ \A step \in Submitting : Calls(step) =
         [by : Participants, claim : Payloads, version : Nat,
          mine : Rows \cup {NoRow}, theirs : Rows \cup {NoRow}]
    /\ \A step \in Withdrawing : Calls(step) =
         [by : Participants, version : Nat, mine : Rows \cup {NoRow}]
    /\ Submitting \subseteq Steps /\ Withdrawing \subseteq Steps
<1>1. Submitting \cap Withdrawing = {}
  BY DEF Submitting, Withdrawing
<1>2. ASSUME NEW step \in Submitting
      PROVE  Calls(step) = [by : Participants, claim : Payloads, version : Nat,
                            mine : Rows \cup {NoRow}, theirs : Rows \cup {NoRow}]
  BY <1>1 DEF Calls
<1>3. ASSUME NEW step \in Withdrawing
      PROVE  Calls(step) = [by : Participants, version : Nat, mine : Rows \cup {NoRow}]
  BY <1>1 DEF Calls
<1> QED
  BY <1>2, <1>3 DEF Steps, Running

LEMMA CallOf ==
    ASSUME TypeOK, NEW h \in Handlers
    PROVE  /\ pc[h] \in Submitting =>
                call[h] \in [by : Participants, claim : Payloads, version : Nat,
                             mine : Rows \cup {NoRow}, theirs : Rows \cup {NoRow}]
           /\ pc[h] \in Withdrawing =>
                call[h] \in [by : Participants, version : Nat, mine : Rows \cup {NoRow}]
<1>1. call[h] \in Calls(pc[h])
  BY DEF TypeOK
<1> QED
  BY <1>1 DEF Calls, Submitting, Withdrawing

LEMMA NothingSeen == "idle" \in Steps /\ NoCall \in Calls("idle") /\ Seen("idle", NoCall)
BY DEF Steps, Calls, Seen, Running, Submitting, Withdrawing

LEMMA DoneMoves ==
    ASSUME NEW h \in Handlers, Done(h)
    PROVE  HandlerMove
BY NothingSeen DEF Done, HandlerMove

LEMMA StoredPayload ==
    ASSUME submission \in Claims, NEW r \in Rows, submission[r] # NoRow
    PROVE  submission[r] \in Submissions
BY DEF Claims

LEMMA TypeOKClaims == TypeOK => submission \in Claims /\ OneActive(submission)
<1> SUFFICES ASSUME TypeOK PROVE submission \in Claims /\ OneActive(submission)
  OBVIOUS
<1>1. submission \in Claims
  BY DEF TypeOK, Claims
<1>2. ASSUME NEW r \in Rows, NEW s \in Rows,
             submission[r] # NoRow, submission[s] # NoRow,
             submission[r].by = submission[s].by,
             submission[r].status = "ACTIVE", submission[s].status = "ACTIVE"
      PROVE  r = s
  <2>1. submission[r].by \in Participants
    BY <1>1, <1>2, StoredPayload DEF Submissions
  <2>2. r \in Active(submission[r].by) /\ s \in Active(submission[r].by)
    BY <1>2 DEF Active
  <2> QED
    BY <2>1, <2>2 DEF TypeOK
<1> QED
  BY <1>1, <1>2 DEF OneActive

LEMMA ActiveOnce ==
    ASSUME OneActive(submission)
    PROVE  \A p \in Participants : \A r, s \in Active(p) : r = s
BY DEF OneActive, Active

-----------------------------------------------------------------------------
\* What was seen stays seen.
LEMMA SeenKept ==
    ASSUME version \in Nat, Clock, Keeps(submission, submission'),
           NEW step \in Steps, NEW read \in Calls(step), Seen(step, read)
    PROVE  Seen(step, read)'
<1>1. ASSUME NEW r, NEW p, RowOf(r, p)
      PROVE  RowOf(r, p)'
  BY <1>1 DEF RowOf, Keeps
<1>2. step \in Running \ {"checked"} => read.version \in Nat
  BY DEF Calls, Running, Submitting, Withdrawing
<1>3. step \in Running \ {"checked"} =>
        /\ read.version <= version'
        /\ read.version = version' => status' \in Submittable
  <2>1. CASE UNCHANGED <<status, version>>
    BY <2>1 DEF Seen
  <2>2. CASE version' = version + 1
    BY <1>2, <2>2 DEF Seen
  <2> QED
    BY <2>1, <2>2 DEF Clock
<1>4. /\ step = "submitting" /\ read.mine # NoRow => RowOf(read.mine, read.by)'
      /\ step = "submitting" /\ read.theirs # NoRow => RowOf(read.theirs, Opponent(read.by))'
      /\ step = "withdrawing" => RowOf(read.mine, read.by)'
  BY <1>1 DEF Seen
<1> QED
  BY <1>3, <1>4 DEF Seen

LEMMA HandlersKeep ==
    ASSUME TypeOK, AllSeen, Clock, Keeps(submission, submission'), HandlerMove
    PROVE  /\ pc' \in [Handlers -> Steps]
           /\ DOMAIN call' = Handlers /\ \A h \in Handlers : call'[h] \in Calls(pc'[h])
           /\ AllSeen'
<1>1. CASE UNCHANGED <<pc, call>>
  <2>1. ASSUME NEW h \in Handlers
        PROVE  Seen(pc[h], call[h])'
    <3>1. Seen(pc[h], call[h]) /\ pc[h] \in Steps /\ call[h] \in Calls(pc[h])
      BY DEF AllSeen, TypeOK
    <3>2. \A step \in Steps : \A read \in Calls(step) :
            Seen(step, read) => Seen(step, read)'
      BY SeenKept DEF TypeOK
    <3> QED
      BY <1>1, <3>1, <3>2
  <2> QED
    BY <1>1, <2>1 DEF TypeOK, AllSeen
<1>2. ASSUME NEW h \in Handlers, NEW step \in Steps, NEW read \in Calls(step),
             Seen(step, read), Become(h, step, read)
      PROVE  /\ pc' \in [Handlers -> Steps]
             /\ DOMAIN call' = Handlers /\ \A g \in Handlers : call'[g] \in Calls(pc'[g])
             /\ AllSeen'
  <2>1. /\ pc' \in [Handlers -> Steps]
        /\ DOMAIN call' = Handlers
        /\ pc'[h] = step /\ call'[h] = read
        /\ \A g \in Handlers : g # h => pc'[g] = pc[g] /\ call'[g] = call[g]
    BY <1>2 DEF TypeOK, Become
  <2>2. \A g \in Handlers : call'[g] \in Calls(pc'[g])
    BY <2>1 DEF TypeOK
  <2>3. \A s \in Steps : \A c \in Calls(s) : Seen(s, c) => Seen(s, c)'
    BY SeenKept DEF TypeOK
  <2>4. ASSUME NEW g \in Handlers
        PROVE  Seen(pc[g], call[g])'
    <3>1. CASE g = h
      BY <1>2, <2>1, <2>3, <3>1
    <3>2. CASE g # h
      <4>1. Seen(pc[g], call[g]) /\ pc[g] \in Steps /\ call[g] \in Calls(pc[g])
        BY DEF AllSeen, TypeOK
      <4> QED
        BY <2>1, <2>3, <3>2, <4>1
    <3> QED
      BY <3>1, <3>2
  <2> QED
    BY <2>1, <2>2, <2>4 DEF AllSeen
<1> QED
  BY <1>1, <1>2 DEF HandlerMove

-----------------------------------------------------------------------------
\* The two ways in which claims are written.
LEMMA ClaimedKeeps ==
    ASSUME TypeOK, AllSeen, NEW h \in Handlers, pc[h] = "submitting",
           Active(call[h].by) \ {call[h].mine} = {},
           NEW r \in Rows, submission[r] = NoRow
    PROVE  /\ Claimed(call[h], r) \in Claims
           /\ OneActive(Claimed(call[h], r))
           /\ Keeps(submission, Claimed(call[h], r))
           /\ Claimed(call[h], r)[r] =
                [by |-> call[h].by, payload |-> call[h].claim, status |-> "ACTIVE"]
<1> DEFINE c == call[h]
           next == Claimed(c, r)
<1>1. c \in [by : Participants, claim : Payloads, version : Nat,
             mine : Rows \cup {NoRow}, theirs : Rows \cup {NoRow}]
  BY CallOf DEF Submitting
<1>2. submission \in Claims /\ OneActive(submission)
  BY TypeOKClaims
<1>3. c.mine # NoRow => c.mine \in Rows /\ submission[c.mine] # NoRow
                        /\ submission[c.mine].by = c.by
  BY DEF AllSeen, Seen, RowOf
<1>4. next[r] = [by |-> c.by, payload |-> c.claim, status |-> "ACTIVE"]
  BY DEF Claimed
<1>5. next[r] \in Submissions
  BY <1>1, <1>4 DEF Submissions
<1>6. ASSUME NEW s \in Rows, s # r, s = c.mine
      PROVE  /\ submission[s] # NoRow
             /\ next[s] \in Submissions
             /\ next[s].by = submission[s].by /\ next[s].payload = submission[s].payload
             /\ next[s].status = "SUPERSEDED"
  <2>1. submission[s] # NoRow
    BY <1>3, <1>6, NoRowAssumption
  <2>2. submission[s] \in Submissions
    BY <1>2, <2>1, StoredPayload
  <2>3. next[s] = [submission[s] EXCEPT !.status = "SUPERSEDED"]
    BY <1>6 DEF Claimed
  <2> QED
    BY <2>1, <2>2, <2>3 DEF Submissions
<1>7. ASSUME NEW s \in Rows, s # r, s # c.mine
      PROVE  next[s] = submission[s]
  BY <1>7 DEF Claimed
<1>8. next \in Claims
  <2>1. \A s \in Rows : next[s] \in Submissions \cup {NoRow}
    BY <1>2, <1>5, <1>6, <1>7 DEF Claims
  <2> QED
    BY <2>1 DEF Claims, Claimed
<1>9. Keeps(submission, next)
  BY <1>6, <1>7, NoSubmissionAssumption DEF Keeps
<1>10. OneActive(next)
  <2> SUFFICES ASSUME NEW s \in Rows, NEW t \in Rows, next[s] # NoRow, next[t] # NoRow,
                      next[s].by = next[t].by,
                      next[s].status = "ACTIVE", next[t].status = "ACTIVE", s # t
               PROVE  FALSE
    BY DEF OneActive
  <2>1. ASSUME NEW u \in Rows, u # r, next[u] # NoRow, next[u].status = "ACTIVE"
        PROVE  /\ submission[u] # NoRow /\ submission[u].status = "ACTIVE"
               /\ submission[u].by = next[u].by
               /\ next[u].by # c.by
    <3>1. u # c.mine
      BY <1>6, <2>1
    <3>2. next[u] = submission[u]
      BY <1>7, <2>1, <3>1
    <3>3. submission[u].by = c.by => u \in Active(c.by)
      BY <2>1, <3>2 DEF Active
    <3> QED
      BY <2>1, <3>1, <3>2, <3>3
  <2>2. next[r].by = c.by
    BY <1>4
  <2>3. s # r /\ t # r
    BY <2>1, <2>2
  <2> QED
    BY <1>2, <2>1, <2>3 DEF OneActive
<1> QED
  BY <1>4, <1>8, <1>9, <1>10

LEMMA DecidedKeeps ==
    ASSUME NEW claims \in Claims, OneActive(claims), NEW missed,
           NEW decision \in {"CONFIRMED", "CONFLICTING"}
    PROVE  /\ Decided(claims, missed, decision) \in Claims
           /\ OneActive(Decided(claims, missed, decision))
           /\ Keeps(claims, Decided(claims, missed, decision))
<1> DEFINE next == Decided(claims, missed, decision)
<1>1. ASSUME NEW s \in Rows, claims[s] # NoRow
      PROVE  /\ next[s] \in Submissions
             /\ next[s].by = claims[s].by /\ next[s].payload = claims[s].payload
             /\ next[s].status = "ACTIVE" => claims[s].status = "ACTIVE"
  <2>1. claims[s] \in Submissions
    BY <1>1 DEF Claims
  <2>2. next[s] = claims[s] \/ next[s] = [claims[s] EXCEPT !.status = decision]
    BY DEF Decided
  <2>3. CASE next[s] = claims[s]
    BY <2>1, <2>3
  <2>4. CASE next[s] = [claims[s] EXCEPT !.status = decision]
    BY <2>1, <2>4 DEF Submissions
  <2> QED
    BY <2>2, <2>3, <2>4
<1>2. ASSUME NEW s \in Rows, claims[s] = NoRow
      PROVE  next[s] = NoRow
  BY <1>2 DEF Decided
<1>3. next \in Claims
  <2>1. \A s \in Rows : next[s] \in Submissions \cup {NoRow}
    BY <1>1, <1>2
  <2> QED
    BY <2>1 DEF Claims, Decided
<1>4. \A s \in Rows : claims[s] # NoRow => next[s] # NoRow
  BY <1>1, NoSubmissionAssumption
<1>5. Keeps(claims, next)
  BY <1>1, <1>4 DEF Keeps
<1>6. OneActive(next)
  BY <1>1, <1>2 DEF OneActive
<1> QED
  BY <1>3, <1>5, <1>6

LEMMA KeepsTransitive ==
    ASSUME NEW a, NEW b, NEW c, Keeps(a, b), Keeps(b, c)
    PROVE  Keeps(a, c)
BY DEF Keeps

LEMMA UnchangedClaims ==
    ASSUME TypeOK, UNCHANGED submission
    PROVE  ClaimsMove
BY TypeOKClaims DEF ClaimsMove, Keeps

-----------------------------------------------------------------------------
\* A verdict that was claimed by both stays so.
LEMMA ConfirmedKept ==
    ASSUME ConfirmedByBoth, Keeps(submission, submission'),
           UNCHANGED result \/ result' = NoResult \/ result'.status # "CONFIRMED"
    PROVE  ConfirmedByBoth'
BY DEF ConfirmedByBoth, Keeps

LEMMA VerdictOf ==
    ASSUME NEW payload \in Payloads
    PROVE  DeriveOutcome[payload] \in Participants \cup {"DRAW"}
BY DeriveOutcomeAssumption

\* The four kinds of results exclude each other.
LEMMA ResultKinds ==
    /\ Conflict \in Results /\ Conflict \notin Decisive \cup Voided \cup {NoResult}
    /\ NoResult \notin Results
    /\ Decisive \subseteq Results /\ Voided \subseteq Results
    /\ Decisive \cap Voided = {}
    /\ \A r \in Decisive : r.noted = FALSE /\ r.verdict \in Verdicts
    /\ \A r \in Voided : r.status = "VOIDED" /\ r.verdict = "VOIDED" /\ r.noted \in BOOLEAN
    /\ Conflict.noted = TRUE /\ Conflict.status = "CONFLICT"
<1>1. Conflict.status = "CONFLICT" /\ Conflict.noted = TRUE
  BY DEF Conflict
<1>2. \A r \in Decisive : /\ r.status \in {"CONFIRMED", "ADMIN_RESOLVED"}
                          /\ r.noted = FALSE /\ r.verdict \in Verdicts
  BY DEF Decisive
<1>3. \A r \in Voided : r.status = "VOIDED" /\ r.verdict = "VOIDED" /\ r.noted \in BOOLEAN
  BY DEF Voided
<1> QED
  BY <1>1, <1>2, <1>3, NoSubmissionAssumption DEF Results

\* A new verdict is one of them.
LEMMA NewVerdict ==
    ASSUME NEW payload \in Payloads, NEW kind \in {"CONFIRMED", "ADMIN_RESOLVED"}
    PROVE  /\ Verdict(kind, payload) \in Decisive
           /\ Verdict(kind, payload).status = kind
           /\ Verdict(kind, payload).verdict = DeriveOutcome[payload]
           /\ Verdict(kind, payload).noted = FALSE
BY VerdictOf DEF Verdict, Decisive, Verdicts

LEMMA SubmittableHasNoResult ==
    ASSUME TypeOK, StatusFollowsResult, status \in Submittable
    PROVE  result = NoResult
BY DEF StatusFollowsResult, Submittable, TypeOK, Results

\* An update that compares the version changes a match without a result only.
LEMMA AdvanceIfCurrentMoves ==
    ASSUME SInv, NEW h \in Handlers, pc[h] \in Running \ {"checked"},
           NEW next \in Submittable,
           AdvanceIfCurrent(call[h].version, next), UNCHANGED <<result, deadlinePassed>>
    PROVE  MatchMove
<1>1. CASE version = call[h].version
  <2>1. status \in Submittable
    BY <1>1 DEF SInv, AllSeen, Seen
  <2>2. result = NoResult
    BY <2>1, SubmittableHasNoResult DEF SInv
  <2>3. status' = next /\ version' = version + 1
    BY <1>1 DEF AdvanceIfCurrent, Advance
  <2> QED
    BY <2>2, <2>3, ResultKinds
       DEF MatchMove, Clock, StatusFollowsResult, SInv, TypeOK, Submittable, Statuses
<1>2. CASE version # call[h].version
  BY <1>2 DEF AdvanceIfCurrent, MatchMove, Clock, StatusFollowsResult, SInv, TypeOK
<1> QED
  BY <1>1, <1>2

LEMMA UnchangedMatch ==
    ASSUME SInv, UNCHANGED <<status, version, result>>, deadlinePassed' \in BOOLEAN
    PROVE  MatchMove
BY DEF MatchMove, Clock, StatusFollowsResult, SInv, TypeOK

-----------------------------------------------------------------------------
\* What a step does to the handlers, the claims, and the match.
Moves == HandlerMove /\ ClaimsMove /\ MatchMove /\ ConfirmedByBoth'

LEMMA QuietMoves ==
    ASSUME SInv, HandlerMove, UNCHANGED <<status, version, submission, result>>,
           deadlinePassed' \in BOOLEAN
    PROVE  Moves
<1>1. ClaimsMove
  BY UnchangedClaims DEF SInv
<1>2. MatchMove
  BY UnchangedMatch
<1>3. ConfirmedByBoth'
  BY <1>1, ConfirmedKept DEF SInv, ClaimsMove
<1> QED
  BY <1>1, <1>2, <1>3 DEF Moves

LEMMA SubmitMatchReadMoves ==
    ASSUME SInv, NEW h \in Handlers, NEW p \in Participants, NEW claim \in Payloads,
           SubmitMatchRead(h, p, claim)
    PROVE  Moves
<1> DEFINE read == [by |-> p, claim |-> claim, version |-> version,
                    mine |-> NoRow, theirs |-> NoRow]
<1>1. "submit" \in Steps /\ read \in Calls("submit")
  BY CallsByStep DEF Submitting, SInv, TypeOK
<1>2. Seen("submit", read)
  BY DEF SubmitMatchRead, Seen, SInv, TypeOK
<1>3. HandlerMove
  BY <1>1, <1>2 DEF HandlerMove, SubmitMatchRead
<1> QED
  BY <1>3, QuietMoves DEF SubmitMatchRead, matchVars, SInv, TypeOK

\* The claim a participant has in force is a row of theirs.
LEMMA TheActiveIsOf ==
    ASSUME NEW p
    PROVE  /\ TheActive(p) \in Rows \cup {NoRow}
           /\ TheActive(p) # NoRow => RowOf(TheActive(p), p)
           /\ Active(p) # {} => TheActive(p) # NoRow
BY NoRowAssumption DEF TheActive, Active, RowOf

LEMMA SubmitClaimsReadMoves ==
    ASSUME SInv, NEW h \in Handlers, SubmitClaimsRead(h)
    PROVE  Moves
<1> DEFINE c == call[h]
           mine == TheActive(c.by)
           read == [c EXCEPT !.mine = mine, !.theirs = TheActive(Opponent(c.by))]
<1>1. c \in [by : Participants, claim : Payloads, version : Nat,
             mine : Rows \cup {NoRow}, theirs : Rows \cup {NoRow}]
  BY CallOf DEF SInv, Submitting, SubmitClaimsRead
<1>2. CASE Done(h)
  BY <1>2, DoneMoves, QuietMoves DEF SubmitClaimsRead, matchVars, SInv, TypeOK
<1>3. CASE Become(h, "submitting", read)
  <2>1. /\ read.by = c.by /\ read.version = c.version
        /\ read.mine = mine /\ read.theirs = TheActive(Opponent(c.by))
    BY <1>1
  <2>2. "submitting" \in Steps /\ read \in Calls("submitting")
    BY <1>1, TheActiveIsOf, CallsByStep DEF Submitting
  <2>3. Seen("submit", c)
    BY DEF SInv, AllSeen, SubmitClaimsRead
  <2>4. Seen("submitting", read)
    BY <2>1, <2>3, TheActiveIsOf DEF Seen, Running, Submitting, Withdrawing
  <2>5. HandlerMove
    BY <1>3, <2>2, <2>4 DEF HandlerMove
  <2> QED
    BY <2>5, QuietMoves DEF SubmitClaimsRead, matchVars, SInv, TypeOK
<1> QED
  BY <1>2, <1>3 DEF SubmitClaimsRead

LEMMA SubmitWriteMoves ==
    ASSUME SInv, NEW h \in Handlers, SubmitWrite(h)
    PROVE  Moves
<1> DEFINE c == call[h]
<1>1. c \in [by : Participants, claim : Payloads, version : Nat,
             mine : Rows \cup {NoRow}, theirs : Rows \cup {NoRow}]
  BY CallOf DEF SInv, Submitting, SubmitWrite
<1>2. PICK r \in Rows : submission[r] = NoRow /\ (ClaimFirst(h, r) \/ ClaimSecond(h, r))
  BY DEF SubmitWrite
<1>3. /\ Claimed(c, r) \in Claims /\ OneActive(Claimed(c, r))
      /\ Keeps(submission, Claimed(c, r))
      /\ Claimed(c, r)[r] = [by |-> c.by, payload |-> c.claim, status |-> "ACTIVE"]
  BY <1>2, ClaimedKeeps DEF SInv, SubmitWrite
<1>4. HandlerMove
  BY DoneMoves DEF SubmitWrite
<1>5. CASE ClaimFirst(h, r)
  <2>1. ClaimsMove
    BY <1>3, <1>5 DEF ClaimFirst, ClaimsMove
  <2>2. MatchMove
    BY <1>5, AdvanceIfCurrentMoves
       DEF ClaimFirst, SubmitWrite, Running, Submitting, Submittable
  <2>3. ConfirmedByBoth'
    BY <1>5, <2>1, ConfirmedKept DEF SInv, ClaimFirst, ClaimsMove
  <2> QED
    BY <1>4, <2>1, <2>2, <2>3 DEF Moves
<1>6. CASE ClaimSecond(h, r)
  <2> DEFINE agreed == SameCanonicalResult(submission[c.theirs].payload, c.claim)
             decision == IF agreed THEN "CONFIRMED" ELSE "CONFLICTING"
  <2>1. PICK missed : submission' = Decided(Claimed(c, r), missed, decision)
    BY <1>6 DEF ClaimSecond
  <2>2. /\ submission' \in Claims /\ OneActive(submission')
        /\ Keeps(Claimed(c, r), submission')
    <3>1. decision \in {"CONFIRMED", "CONFLICTING"}
      OBVIOUS
    <3> QED
      BY <1>3, <2>1, <3>1, DecidedKeeps
  <2>3. ClaimsMove
    BY <1>3, <2>2, KeepsTransitive DEF ClaimsMove
  <2>4. /\ result = NoResult
        /\ result' = IF agreed THEN Verdict("CONFIRMED", c.claim) ELSE Conflict
        /\ status' = IF agreed THEN "COMPLETED" ELSE "RESULT_CONFLICT"
        /\ version' = version + 1
    BY <1>6 DEF ClaimSecond, ResultFree, Advance
  <2>5. MatchMove
    <3>1. Clock /\ deadlinePassed' \in BOOLEAN
      BY <2>4 DEF Clock, Statuses, SubmitWrite, SInv, TypeOK
    <3>2. result' \in Results \cup {NoResult}
      BY <1>1, <2>4, ResultKinds, NewVerdict
    <3>3. StatusFollowsResult'
      <4>1. CASE agreed
        BY <1>1, <2>4, <4>1, ResultKinds, NewVerdict DEF StatusFollowsResult
      <4>2. CASE ~agreed
        BY <2>4, <4>2, ResultKinds DEF StatusFollowsResult
      <4> QED
        BY <4>1, <4>2
    <3> QED
      BY <3>1, <3>2, <3>3 DEF MatchMove
  <2>6. ConfirmedByBoth'
    <3>1. CASE agreed
      <4>1. /\ submission'[r] # NoRow
            /\ submission'[r].by = c.by /\ submission'[r].payload = c.claim
        <5>1. Claimed(c, r)[r] # NoRow
          BY <1>1, <1>3, NoSubmissionAssumption DEF Submissions
        <5> QED
          BY <1>3, <2>2, <5>1 DEF Keeps
      <4>2. c.theirs # NoRow
        BY <1>6 DEF ClaimSecond
      <4>3. RowOf(c.theirs, Opponent(c.by))
        BY <4>2 DEF SInv, AllSeen, Seen, SubmitWrite
      <4>4. /\ c.theirs \in Rows /\ submission'[c.theirs] # NoRow
            /\ submission'[c.theirs].by = Opponent(c.by)
            /\ submission'[c.theirs].payload = c.claim
        BY <2>3, <3>1, <4>3 DEF RowOf, ClaimsMove, Keeps, SameCanonicalResult
      <4>5. Participants = {c.by, Opponent(c.by)}
        BY <1>1, OpponentIsOther
      <4>6. result'.verdict = DeriveOutcome[c.claim]
        BY <1>1, <2>4, <3>1, NewVerdict
      <4> QED
        BY <1>1, <4>1, <4>4, <4>5, <4>6 DEF ConfirmedByBoth
    <3>2. CASE ~agreed
      <4>1. result'.status # "CONFIRMED"
        BY <2>4, <3>2 DEF Conflict
      <4> QED
        BY <4>1 DEF ConfirmedByBoth
    <3> QED
      BY <3>1, <3>2
  <2> QED
    BY <1>4, <2>3, <2>5, <2>6 DEF Moves
<1> QED
  BY <1>2, <1>5, <1>6

LEMMA WithdrawCheckMoves ==
    ASSUME SInv, NEW h \in Handlers, NEW p \in Participants, WithdrawCheck(h, p)
    PROVE  Moves
<1> DEFINE read == [by |-> p, version |-> 0, mine |-> NoRow]
<1>1. "checked" \in Steps /\ read \in Calls("checked")
  BY CallsByStep DEF Withdrawing
<1>2. Seen("checked", read)
  BY DEF Seen
<1>3. HandlerMove
  BY <1>1, <1>2 DEF HandlerMove, WithdrawCheck
<1> QED
  BY <1>3, QuietMoves DEF WithdrawCheck, matchVars, SInv, TypeOK

LEMMA WithdrawMatchReadMoves ==
    ASSUME SInv, NEW h \in Handlers, WithdrawMatchRead(h)
    PROVE  Moves
<1> DEFINE read == [call[h] EXCEPT !.version = version]
<1>1. call[h] \in [by : Participants, version : Nat, mine : Rows \cup {NoRow}]
  BY CallOf DEF SInv, Withdrawing, WithdrawMatchRead
<1>2. "withdraw" \in Steps /\ read \in Calls("withdraw")
  BY <1>1, CallsByStep DEF Withdrawing, SInv, TypeOK
<1>3. Seen("withdraw", read)
  BY <1>1 DEF Seen, WithdrawMatchRead, Submittable, SInv, TypeOK
<1>4. HandlerMove
  BY <1>2, <1>3 DEF HandlerMove, WithdrawMatchRead
<1> QED
  BY <1>4, QuietMoves DEF WithdrawMatchRead, matchVars, SInv, TypeOK

LEMMA WithdrawClaimsReadMoves ==
    ASSUME SInv, NEW h \in Handlers, WithdrawClaimsRead(h)
    PROVE  Moves
<1> DEFINE c == call[h]
           read == [c EXCEPT !.mine = TheActive(c.by)]
<1>1. c \in [by : Participants, version : Nat, mine : Rows \cup {NoRow}]
  BY CallOf DEF SInv, Withdrawing, WithdrawClaimsRead
<1>2. CASE Done(h)
  BY <1>2, DoneMoves, QuietMoves DEF WithdrawClaimsRead, matchVars, SInv, TypeOK
<1>3. CASE Active(c.by) # {} /\ Become(h, "withdrawing", read)
  <2>1. read.by = c.by /\ read.version = c.version /\ read.mine = TheActive(c.by)
    BY <1>1
  <2>2. "withdrawing" \in Steps /\ read \in Calls("withdrawing")
    BY <1>1, TheActiveIsOf, CallsByStep DEF Withdrawing
  <2>3. Seen("withdraw", c)
    BY DEF SInv, AllSeen, WithdrawClaimsRead
  <2>4. Seen("withdrawing", read)
    BY <1>3, <2>1, <2>3, TheActiveIsOf DEF Seen, Running, Submitting, Withdrawing
  <2>5. HandlerMove
    BY <1>3, <2>2, <2>4 DEF HandlerMove
  <2> QED
    BY <2>5, QuietMoves DEF WithdrawClaimsRead, matchVars, SInv, TypeOK
<1> QED
  BY <1>2, <1>3 DEF WithdrawClaimsRead

LEMMA WithdrawWriteMoves ==
    ASSUME SInv, NEW h \in Handlers, WithdrawWrite(h)
    PROVE  Moves
<1> DEFINE mine == call[h].mine
<1>1. mine \in Rows /\ submission[mine] # NoRow
  BY DEF SInv, AllSeen, Seen, RowOf, WithdrawWrite
<1>2. submission \in Claims /\ OneActive(submission)
  BY TypeOKClaims DEF SInv
<1>3. submission[mine] \in Submissions
  BY <1>1, <1>2, StoredPayload
<1>4. /\ submission'[mine] \in Submissions
      /\ submission'[mine].by = submission[mine].by
      /\ submission'[mine].payload = submission[mine].payload
      /\ submission'[mine].status = "WITHDRAWN"
  BY <1>1, <1>2, <1>3 DEF WithdrawWrite, Claims, Submissions
<1>5. \A s \in Rows : s # mine => submission'[s] = submission[s]
  BY <1>1, <1>2 DEF WithdrawWrite, Claims
<1>6. submission' \in Claims
  BY <1>1, <1>2, <1>4 DEF WithdrawWrite, Claims
<1>7. ClaimsMove
  BY <1>2, <1>4, <1>5, <1>6, NoSubmissionAssumption DEF ClaimsMove, OneActive, Keeps
<1>8. MatchMove
  BY AdvanceIfCurrentMoves DEF WithdrawWrite, Running, Withdrawing, Submittable
<1>9. ConfirmedByBoth'
  BY <1>7, ConfirmedKept DEF SInv, ClaimsMove, WithdrawWrite
<1>10. HandlerMove
  BY DoneMoves DEF WithdrawWrite
<1> QED
  BY <1>7, <1>8, <1>9, <1>10 DEF Moves

LEMMA ExpireMoves ==
    ASSUME SInv, Expire
    PROVE  Moves
<1>1. HandlerMove
  BY DEF Expire, HandlerMove
<1>2. result = NoResult
  BY SubmittableHasNoResult DEF Expire, Expirable, SInv
<1>3. CASE Advance("VOIDED") /\ UNCHANGED <<submission, result>>
  <2>1. ClaimsMove
    BY <1>3, UnchangedClaims DEF SInv
  <2>2. MatchMove
    BY <1>2, <1>3, ResultKinds
       DEF MatchMove, Clock, Advance, Statuses, StatusFollowsResult, Expire, SInv, TypeOK
  <2>3. ConfirmedByBoth'
    BY <1>3, <2>1, ConfirmedKept DEF SInv, ClaimsMove
  <2> QED
    BY <1>1, <2>1, <2>2, <2>3 DEF Moves
<1>4. CASE /\ Advance("RESULT_CONFLICT") /\ result' = Conflict
           /\ submission' = Decided(submission, {}, "CONFLICTING")
  <2>1. ClaimsMove
    BY <1>4, DecidedKeeps, TypeOKClaims DEF ClaimsMove, SInv
  <2>2. MatchMove
    BY <1>4, ResultKinds
       DEF MatchMove, Clock, Advance, Statuses, StatusFollowsResult, Expire, SInv, TypeOK
  <2>3. ConfirmedByBoth'
    <3>1. result'.status # "CONFIRMED"
      BY <1>4 DEF Conflict
    <3> QED
      BY <3>1 DEF ConfirmedByBoth
  <2> QED
    BY <1>1, <2>1, <2>2, <2>3 DEF Moves
<1> QED
  BY <1>3, <1>4 DEF Expire

LEMMA ResolveMoves ==
    ASSUME SInv, NEW payload \in Payloads, Resolve(payload)
    PROVE  Moves
<1>1. HandlerMove
  BY DEF Resolve, HandlerMove
<1>2. ClaimsMove
  BY UnchangedClaims DEF Resolve, SInv
<1>3. MatchMove
  BY ResultKinds, NewVerdict
     DEF MatchMove, Clock, Advance, Statuses, StatusFollowsResult, Resolve, SInv, TypeOK
<1>4. ConfirmedByBoth'
  <2>1. result'.status # "CONFIRMED"
    BY NewVerdict DEF Resolve
  <2> QED
    BY <2>1 DEF ConfirmedByBoth
<1> QED
  BY <1>1, <1>2, <1>3, <1>4 DEF Moves

LEMMA VoidMatchMoves ==
    ASSUME SInv, VoidMatch
    PROVE  Moves
<1>1. HandlerMove
  BY DEF VoidMatch, HandlerMove
<1>2. ClaimsMove
  BY UnchangedClaims DEF VoidMatch, SInv
<1>3. MatchMove
  BY ResultKinds
     DEF MatchMove, Clock, Advance, Statuses, StatusFollowsResult, VoidMatch, Submittable, SInv,
         TypeOK
<1>4. ConfirmedByBoth'
  BY <1>2, ConfirmedKept DEF SInv, ClaimsMove, VoidMatch
<1> QED
  BY <1>1, <1>2, <1>3, <1>4 DEF Moves

\* Voiding makes any result a voided one.
LEMMA VoidedResult ==
    ASSUME NEW old \in Results,
           NEW new, new = [old EXCEPT !.status = "VOIDED", !.verdict = "VOIDED"]
    PROVE  new \in Voided /\ new.noted = old.noted
<1>1. old.noted \in BOOLEAN
  BY ResultKinds DEF Results
<1>2. new = [status |-> "VOIDED", verdict |-> "VOIDED", noted |-> old.noted]
  <2>1. CASE old \in Decisive
    BY <2>1 DEF Decisive
  <2>2. CASE old \in Voided
    BY <2>2 DEF Voided
  <2>3. CASE old = Conflict
    BY <2>3 DEF Conflict
  <2> QED
    BY <2>1, <2>2, <2>3 DEF Results
<1> QED
  BY <1>1, <1>2 DEF Voided

\* A dispute replaces a result and the status together.
LEMMA DisputeStepMoves ==
    ASSUME SInv, DisputeStep
    PROVE  Moves
<1>1. CASE UNCHANGED <<status, version, result>>
  <2>1. HandlerMove /\ UNCHANGED <<submission, deadlinePassed>>
    BY DEF DisputeStep, OpenDispute, CancelDispute, ResolveDispute, HandlerMove, matchVars
  <2> QED
    BY <1>1, <2>1, QuietMoves DEF SInv, TypeOK
<1>2. ASSUME NEW next \in Decisive \cup Voided, result' = next, next.status # "CONFIRMED",
             Advance(IF next \in Decisive THEN "COMPLETED" ELSE "VOIDED"),
             UNCHANGED <<deadlinePassed, submission, pc, call>>
      PROVE  Moves
  <2>1. HandlerMove /\ ClaimsMove
    BY <1>2, UnchangedClaims DEF HandlerMove, SInv
  <2>2. MatchMove
    BY <1>2, ResultKinds DEF MatchMove, Clock, Advance, Statuses, StatusFollowsResult, SInv, TypeOK
  <2>3. ConfirmedByBoth'
    BY <1>2 DEF ConfirmedByBoth
  <2> QED
    BY <2>1, <2>2, <2>3 DEF Moves
<1>3. ASSUME NEW payload \in Payloads, CorrectResult(payload), ResolveDispute
      PROVE  Moves
  <2>1. /\ result' = Verdict("ADMIN_RESOLVED", payload) /\ Advance("COMPLETED")
        /\ UNCHANGED <<deadlinePassed, submission, pc, call>>
    BY <1>3 DEF CorrectResult, ResolveDispute
  <2> QED
    BY <1>2, <2>1, NewVerdict
<1>4. CASE VoidResult /\ ResolveDispute
  <2>1. /\ result' = [result EXCEPT !.status = "VOIDED", !.verdict = "VOIDED"]
        /\ Advance("VOIDED") /\ UNCHANGED <<deadlinePassed, submission, pc, call>>
    BY <1>4 DEF VoidResult, ResolveDispute
  <2>2. result \in Results
    BY <1>4 DEF SInv, TypeOK, ResolveDispute
  <2>3. result' \in Voided
    BY <2>1, <2>2, VoidedResult
  <2>4. result'.status = "VOIDED" /\ result' \notin Decisive
    BY <2>3, ResultKinds
  <2> QED
    BY <1>2, <2>1, <2>3, <2>4
<1> QED
  BY <1>1, <1>3, <1>4 DEF DisputeStep, OpenDispute, CancelDispute, ResolveDispute, matchVars

LEMMA NextMoves ==
    ASSUME SInv, [Next]_vars
    PROVE  Moves
<1>1. CASE PassDeadline
  BY <1>1, QuietMoves DEF PassDeadline, HandlerMove
<1>2. CASE Expire
  BY <1>2, ExpireMoves
<1>3. CASE VoidMatch
  BY <1>3, VoidMatchMoves
<1>4. CASE \E payload \in Payloads : Resolve(payload)
  BY <1>4, ResolveMoves
<1>5. ASSUME NEW h \in Handlers,
             \/ \E p \in Participants, claim \in Payloads : SubmitMatchRead(h, p, claim)
             \/ SubmitClaimsRead(h) \/ SubmitWrite(h)
      PROVE  Moves
  BY <1>5, SubmitMatchReadMoves, SubmitClaimsReadMoves, SubmitWriteMoves
<1>6. ASSUME NEW h \in Handlers,
             \/ \E p \in Participants : WithdrawCheck(h, p)
             \/ WithdrawMatchRead(h) \/ WithdrawClaimsRead(h) \/ WithdrawWrite(h)
      PROVE  Moves
  BY <1>6, WithdrawCheckMoves, WithdrawMatchReadMoves, WithdrawClaimsReadMoves,
     WithdrawWriteMoves
<1>7. ASSUME NEW h \in Handlers, Abort(h)
      PROVE  Moves
  BY <1>7, DoneMoves, QuietMoves DEF Abort, matchVars, SInv, TypeOK
<1>8. CASE UNCHANGED vars
  BY <1>8, QuietMoves DEF vars, matchVars, HandlerMove, SInv, TypeOK
<1>9. CASE DisputeStep
  BY <1>9, DisputeStepMoves
<1> QED
  BY <1>1, <1>2, <1>3, <1>4, <1>5, <1>6, <1>7, <1>8, <1>9 DEF Next, ClaimStep

-----------------------------------------------------------------------------
LEMMA InitSInv ==
    ASSUME Init
    PROVE  SInv
<1>1. TypeOK
  <2>1. pc \in [Handlers -> Steps]
    BY DEF Init, Steps
  <2>2. DOMAIN call = Handlers /\ \A h \in Handlers : call[h] \in Calls(pc[h])
    BY NothingSeen DEF Init
  <2>3. \A p \in Participants : Active(p) = {}
    BY DEF Init, Active
  <2>4. /\ status \in Statuses /\ version \in Nat /\ deadlinePassed \in BOOLEAN
        /\ submission \in [Rows -> Submissions \cup {NoRow}]
        /\ result \in Results \cup {NoResult}
        /\ {disputed, resolvedLast, keysKept} \subseteq BOOLEAN
    BY DEF Init, Statuses
  <2> QED
    BY <2>1, <2>2, <2>3, <2>4 DEF TypeOK
<1>2. StatusFollowsResult
  BY ResultKinds DEF Init, StatusFollowsResult, Submittable
<1>3. ConfirmedByBoth
  BY DEF Init, ConfirmedByBoth
<1>4. AllSeen
  BY NothingSeen DEF Init, AllSeen
<1> QED
  BY <1>1, <1>2, <1>3, <1>4 DEF SInv

LEMMA NextSInv ==
    ASSUME SInv, [Next]_vars
    PROVE  SInv'
<1>1. HandlerMove /\ ClaimsMove /\ MatchMove /\ ConfirmedByBoth'
  BY NextMoves DEF Moves
<1>2. /\ pc' \in [Handlers -> Steps]
      /\ DOMAIN call' = Handlers /\ \A h \in Handlers : call'[h] \in Calls(pc'[h])
      /\ AllSeen'
  BY <1>1, HandlersKeep DEF SInv, MatchMove, ClaimsMove
<1>3. (\A p \in Participants : \A r, s \in Active(p) : r = s)'
  BY <1>1 DEF ClaimsMove, OneActive, Active
<1>4. status' \in Statuses /\ version' \in Nat
  BY <1>1 DEF MatchMove, Clock, SInv, TypeOK
<1>5. {disputed, resolvedLast, keysKept}' \subseteq BOOLEAN
  BY DEF Next, DisputeStep, OpenDispute, CancelDispute, ResolveDispute, disputeVars, vars, SInv,
         TypeOK
<1>6. TypeOK'
  BY <1>1, <1>2, <1>3, <1>4, <1>5 DEF TypeOK, ClaimsMove, Claims, MatchMove
<1> QED
  BY <1>1, <1>2, <1>6 DEF SInv, MatchMove

\* The invariant holds in every state: the claims and the match are typed and
\* agree, and no handler has read what is not so.
THEOREM AlwaysSInv == Spec => []SInv
BY InitSInv, NextSInv, PTL DEF Spec

\* Rows, status and version keep their types, and a participant never has two
\* claims in force (PrismaMatchResultRepository.submit).
THEOREM TypeCorrect == Spec => []TypeOK
BY AlwaysSInv, PTL DEF SInv

\* submit confirms a result only when both participants have claimed it,
\* whatever is withdrawn, replaced or expires meanwhile.
THEOREM OnlyClaimedByBoth == Spec => []ConfirmedByBoth
BY AlwaysSInv, PTL DEF SInv

\* Status and result never contradict each other, although submit and
\* withdraw ignore that their update of the match hit no row.
THEOREM StatusAgrees == Spec => []StatusFollowsResult
BY AlwaysSInv, PTL DEF SInv

\* No late submission, expiry or withdrawal replaces a verdict: only the
\* resolution of a dispute does.
THEOREM VerdictsStand == Spec => VerdictStands
<1> DEFINE Replaced == \/ result = Conflict /\ result'.status = "ADMIN_RESOLVED"
                       \/ disputed /\ ~disputed'
<1>1. ASSUME SInv, [Next]_vars
      PROVE  [result # NoResult /\ result' # result => Replaced]_vars
  <2>1. ASSUME NEW payload \in Payloads, Resolve(payload), result # NoResult
        PROVE  Replaced
    <3>1. result = Conflict
      BY <1>1, <2>1 DEF Resolve, SInv, StatusFollowsResult, TypeOK, Results
    <3>2. result'.status = "ADMIN_RESOLVED"
      BY <2>1, NewVerdict DEF Resolve
    <3> QED
      BY <3>1, <3>2
  <2>2. ASSUME NEW h \in Handlers, SubmitWrite(h), result # NoResult
        PROVE  result' = result
    BY <2>2 DEF SubmitWrite, ClaimFirst, ClaimSecond, ResultFree
  <2>3. CASE Expire
    BY <2>3 DEF Expire, ResultFree
  <2>4. CASE PassDeadline \/ VoidMatch \/ UNCHANGED vars
    BY <2>4 DEF PassDeadline, VoidMatch, vars
  <2>5. ASSUME NEW h \in Handlers,
               \/ \E p \in Participants, claim \in Payloads : SubmitMatchRead(h, p, claim)
               \/ SubmitClaimsRead(h) \/ Abort(h)
               \/ \E p \in Participants : WithdrawCheck(h, p)
               \/ WithdrawMatchRead(h) \/ WithdrawClaimsRead(h) \/ WithdrawWrite(h)
        PROVE  result' = result
    BY <2>5 DEF SubmitMatchRead, SubmitClaimsRead, Abort, WithdrawCheck, WithdrawMatchRead,
                WithdrawClaimsRead, WithdrawWrite
  <2>6. CASE DisputeStep
    BY <2>6 DEF DisputeStep, OpenDispute, CancelDispute, ResolveDispute
  <2> QED
    BY <1>1, <2>1, <2>2, <2>3, <2>4, <2>5, <2>6 DEF Next, ClaimStep
<1> QED
  BY <1>1, AlwaysSInv, PTL DEF Spec, VerdictStands

-----------------------------------------------------------------------------
\* The match as MatchOutcome sees it.
SeenStatus == IF status = "AWAITING_RESULT" THEN "IN_PROGRESS" ELSE status
SeenResult == IF result = NoResult THEN "NONE"
              ELSE IF result = Conflict THEN "CONFLICT" ELSE result.verdict
SeenNoted == result # NoResult /\ result.noted
InSubmission == \E h \in Handlers : pc[h] \in Submitting

Allowed == Outcome!OutcomeNext \/ UNCHANGED Outcome!outcomeVars

\* No change, as far as MatchOutcome sees the match and its submissions.
LEMMA QuietAllowed ==
    ASSUME UNCHANGED <<SeenStatus, result, disputeVars>>, InSubmission' <=> InSubmission
    PROVE  Allowed
<1>1. InSubmission' = InSubmission
  BY DEF InSubmission
<1>2. UNCHANGED Outcome!outcomeVars
  BY <1>1 DEF Outcome!outcomeVars, disputeVars, SeenStatus, SeenNoted, SeenResult, InSubmission
<1> QED
  BY <1>2 DEF Allowed

LEMMA SubmittedAllowed ==
    ASSUME NEW outcome \in Outcome!Verdicts \cup {"CONFLICT"}, Outcome!SubmitWrite(outcome)
    PROVE  Allowed
<1>1. Outcome!OutcomeStep
  BY Zenon DEF Outcome!OutcomeStep
<1> QED
  BY <1>1 DEF Allowed, Outcome!OutcomeNext

\* A submission that leaves the match as it is.
LEMMA NoOutcomeAllowed ==
    ASSUME UNCHANGED <<SeenStatus, result, disputeVars>>, InSubmission
    PROVE  Allowed
<1>1. Outcome!SubmitWrite("CONFLICT")
  BY DEF Outcome!SubmitWrite, SeenStatus, SeenResult, SeenNoted, InSubmission, disputeVars,
           Outcome!disputeVars
<1>2. Outcome!OutcomeNext
  BY <1>1 DEF Outcome!OutcomeNext, Outcome!OutcomeStep
<1> QED
  BY <1>2 DEF Allowed

LEMMA SubmissionsOf ==
    ASSUME TypeOK, NEW h \in Handlers, NEW step, NEW read, Become(h, step, read)
    PROVE  /\ step \in Submitting => InSubmission'
           /\ pc[h] \in Submitting => InSubmission
           /\ pc[h] \notin Submitting /\ step \notin Submitting =>
                (InSubmission' <=> InSubmission)
           /\ pc[h] \in Submitting /\ step \in Submitting => (InSubmission' <=> InSubmission)
<1>1. /\ pc'[h] = step
      /\ \A g \in Handlers : g # h => pc'[g] = pc[g]
  BY DEF TypeOK, Become
<1> QED
  BY <1>1 DEF InSubmission

\* A conditional update is invisible: it only turns IN_PROGRESS and
\* AWAITING_RESULT into each other.
LEMMA AdvanceInvisible ==
    ASSUME SInv, NEW h \in Handlers, pc[h] \in Running \ {"checked"},
           NEW next \in Submittable, AdvanceIfCurrent(call[h].version, next)
    PROVE  UNCHANGED SeenStatus
<1>1. CASE version = call[h].version
  <2>1. status \in Submittable
    BY <1>1 DEF SInv, AllSeen, Seen
  <2>2. status' = next
    BY <1>1 DEF AdvanceIfCurrent, Advance
  <2> QED
    BY <2>1, <2>2 DEF SeenStatus, Submittable
<1>2. CASE version # call[h].version
  BY <1>2 DEF AdvanceIfCurrent, SeenStatus
<1> QED
  BY <1>1, <1>2

LEMMA SubmitWriteAllowed ==
    ASSUME SInv, NEW h \in Handlers, SubmitWrite(h), UNCHANGED disputeVars
    PROVE  Allowed
<1> DEFINE c == call[h]
<1>1. DeriveOutcome[c.claim] \in Participants \cup {"DRAW"}
  BY CallOf, VerdictOf DEF SInv, Submitting, SubmitWrite
<1>2. InSubmission
  BY SubmissionsOf DEF SubmitWrite, Done, Submitting, SInv
<1>3. PICK r \in Rows : ClaimFirst(h, r) \/ ClaimSecond(h, r)
  BY DEF SubmitWrite
<1>4. CASE ClaimFirst(h, r)
  <2>1. UNCHANGED SeenStatus
    BY <1>4, AdvanceInvisible DEF ClaimFirst, SubmitWrite, Running, Submitting, Submittable
  <2> QED
    BY <1>2, <1>4, <2>1, NoOutcomeAllowed DEF ClaimFirst
<1>5. CASE ClaimSecond(h, r)
  <2> DEFINE agreed == SameCanonicalResult(submission[c.theirs].payload, c.claim)
  <2> PICK outcome : outcome = IF agreed THEN DeriveOutcome[c.claim] ELSE "CONFLICT"
    OBVIOUS
  <2>1. /\ result = NoResult
        /\ result' = IF agreed THEN Verdict("CONFIRMED", c.claim) ELSE Conflict
        /\ status' = IF agreed THEN "COMPLETED" ELSE "RESULT_CONFLICT"
    BY <1>5 DEF ClaimSecond, ResultFree, Advance
  <2>2. SeenResult = "NONE"
    BY <2>1 DEF SeenResult
  <2>3. SeenStatus' = IF agreed THEN "COMPLETED" ELSE "RESULT_CONFLICT"
    BY <2>1 DEF SeenStatus
  <2>4. SeenResult' = outcome /\ SeenNoted' = ~agreed
    <3>0. c.claim \in Payloads
      BY CallOf DEF SInv, Submitting, SubmitWrite
    <3>1. CASE agreed
      BY <2>1, <3>0, <3>1, ResultKinds, NewVerdict DEF SeenResult, SeenNoted
    <3>2. CASE ~agreed
      BY <2>1, <3>2, ResultKinds DEF SeenResult, SeenNoted
    <3> QED
      BY <3>1, <3>2
  <2>5. /\ outcome \in Participants \cup {"DRAW", "CONFLICT"}
        /\ outcome = "CONFLICT" <=> ~agreed
    BY <1>1, ParticipantsAssumption
  <2>6. SeenNoted' = (outcome = "CONFLICT")
    BY <2>4, <2>5
  <2>7. SeenStatus' = IF outcome = "CONFLICT" THEN "RESULT_CONFLICT" ELSE "COMPLETED"
    BY <2>3, <2>5
  <2>8. Outcome!SubmitWrite(outcome)
    BY <1>2, <2>2, <2>4, <2>6, <2>7
       DEF Outcome!SubmitWrite, SeenStatus, SeenResult, SeenNoted, InSubmission, disputeVars,
           Outcome!disputeVars
  <2>9. outcome \in Outcome!Verdicts \cup {"CONFLICT"}
    BY <2>5 DEF Outcome!Verdicts
  <2> QED
    BY <2>8, <2>9, SubmittedAllowed
<1> QED
  BY <1>3, <1>4, <1>5

LEMMA SubmitMatchReadAllowed ==
    ASSUME SInv, NEW h \in Handlers, NEW p \in Participants, NEW claim \in Payloads,
           SubmitMatchRead(h, p, claim), UNCHANGED disputeVars
    PROVE  Allowed
<1>1. InSubmission' /\ UNCHANGED <<status, result>>
  BY SubmissionsOf DEF SubmitMatchRead, Submitting, SInv, matchVars
<1>2. SeenStatus = "IN_PROGRESS"
  BY DEF SubmitMatchRead, Submittable, SeenStatus
<1>3. CASE InSubmission
  BY <1>1, <1>3, QuietAllowed DEF SeenStatus
<1>4. CASE ~InSubmission
  <2>1. InSubmission' = TRUE
    BY <1>1 DEF InSubmission
  <2>2. Outcome!SubmitRead
    BY <1>1, <1>2, <1>4, <2>1 DEF Outcome!SubmitRead, SeenStatus, SeenResult, SeenNoted,
           InSubmission, disputeVars, Outcome!disputeVars
  <2> QED
    BY <2>2 DEF Allowed, Outcome!OutcomeNext, Outcome!OutcomeStep
<1> QED
  BY <1>3, <1>4

LEMMA OtherRequestsAllowed ==
    ASSUME SInv, NEW h \in Handlers,
           \/ SubmitClaimsRead(h) \/ Abort(h)
           \/ \E p \in Participants : WithdrawCheck(h, p)
           \/ WithdrawMatchRead(h) \/ WithdrawClaimsRead(h) \/ WithdrawWrite(h),
           UNCHANGED disputeVars
    PROVE  Allowed
<1>1. UNCHANGED <<SeenStatus, result, disputeVars>>
  <2>1. CASE WithdrawWrite(h)
    BY <2>1, AdvanceInvisible DEF WithdrawWrite, Running, Withdrawing, Submittable
  <2>2. CASE ~WithdrawWrite(h)
    BY <2>2 DEF SubmitClaimsRead, Abort, WithdrawCheck, WithdrawMatchRead, WithdrawClaimsRead,
                matchVars, SeenStatus
  <2> QED
    BY <2>1, <2>2
<1>2. CASE pc[h] \in Submitting
  <2>1. InSubmission
    BY <1>2 DEF InSubmission
  <2> QED
    BY <1>1, <2>1, NoOutcomeAllowed
<1>3. CASE pc[h] \notin Submitting
  <2>1. \E step, read : Become(h, step, read) /\ step \notin Submitting
    <3>1. CASE SubmitClaimsRead(h)
      BY <1>3, <3>1 DEF SubmitClaimsRead, Submitting
    <3>2. CASE Abort(h) \/ WithdrawWrite(h)
      BY <3>2 DEF Abort, WithdrawWrite, Done, Submitting
    <3>3. CASE \E p \in Participants : WithdrawCheck(h, p)
      BY <3>3 DEF WithdrawCheck, Submitting
    <3>4. CASE WithdrawMatchRead(h)
      BY <3>4 DEF WithdrawMatchRead, Submitting
    <3>5. CASE WithdrawClaimsRead(h)
      BY <3>5 DEF WithdrawClaimsRead, Done, Submitting
    <3> QED
      BY <3>1, <3>2, <3>3, <3>4, <3>5
  <2>2. InSubmission' <=> InSubmission
    BY <1>3, <2>1, SubmissionsOf DEF SInv
  <2> QED
    BY <1>1, <2>2, QuietAllowed
<1> QED
  BY <1>2, <1>3

LEMMA ExpireAllowed ==
    ASSUME SInv, Expire, UNCHANGED disputeVars
    PROVE  Allowed
<1>1. result = NoResult
  BY SubmittableHasNoResult DEF Expire, Expirable, SInv
<1>2. SeenStatus = "IN_PROGRESS" /\ SeenResult = "NONE"
  BY <1>1 DEF SeenStatus, SeenResult, Expire, Expirable, Submittable
<1>3. InSubmission' = InSubmission
  BY DEF InSubmission, Expire
<1>4. CASE Advance("VOIDED") /\ UNCHANGED <<submission, result>>
  <2>1. SeenStatus' = "VOIDED"
    BY <1>4 DEF Advance, SeenStatus
  <2>2. Outcome!ExpireSubmissions
    BY <1>2, <1>3, <1>4, <2>1
       DEF Outcome!ExpireSubmissions, SeenStatus, SeenResult, SeenNoted,
           InSubmission, disputeVars, Outcome!disputeVars
  <2> QED
    BY <2>2 DEF Allowed, Outcome!OutcomeNext, Outcome!OutcomeStep
<1>5. CASE Advance("RESULT_CONFLICT") /\ result' = Conflict
  <2>1. SeenStatus' = "RESULT_CONFLICT" /\ SeenResult' = "CONFLICT" /\ SeenNoted' = TRUE
    BY <1>5, ResultKinds DEF Advance, SeenStatus, SeenResult, SeenNoted
  <2>2. Outcome!ExpireSubmissions
    BY <1>2, <1>3, <2>1 DEF Outcome!ExpireSubmissions, SeenStatus, SeenResult, SeenNoted,
           InSubmission, disputeVars, Outcome!disputeVars
  <2> QED
    BY <2>2 DEF Allowed, Outcome!OutcomeNext, Outcome!OutcomeStep
<1> QED
  BY <1>4, <1>5 DEF Expire

LEMMA ResolveAllowed ==
    ASSUME SInv, NEW payload \in Payloads, Resolve(payload), UNCHANGED disputeVars
    PROVE  Allowed
<1> DEFINE verdict == DeriveOutcome[payload]
<1>1. SeenStatus = "RESULT_CONFLICT" /\ SeenStatus' = "COMPLETED"
  BY DEF Resolve, Advance, SeenStatus
<1>2. SeenResult' = verdict /\ SeenNoted' = FALSE
  BY ResultKinds, NewVerdict DEF Resolve, SeenResult, SeenNoted
<1>3. InSubmission' = InSubmission
  BY DEF InSubmission, Resolve
<1>4. Outcome!ResolveConflict(verdict)
  BY <1>1, <1>2, <1>3 DEF Outcome!ResolveConflict, SeenStatus, SeenResult, SeenNoted,
           InSubmission, disputeVars, Outcome!disputeVars
<1>5. verdict \in Outcome!Verdicts
  BY VerdictOf DEF Outcome!Verdicts
<1> QED
  BY <1>4, <1>5 DEF Allowed, Outcome!OutcomeNext

LEMMA VoidMatchAllowed ==
    ASSUME SInv, VoidMatch, UNCHANGED disputeVars
    PROVE  Allowed
<1>1. SeenStatus \in {"IN_PROGRESS", "RESULT_CONFLICT"} /\ SeenStatus' = "VOIDED"
  BY DEF VoidMatch, Advance, Submittable, SeenStatus
<1>2. UNCHANGED result /\ InSubmission' = InSubmission
  BY DEF InSubmission, VoidMatch
<1>3. Outcome!VoidMatch
  BY <1>1, <1>2
     DEF Outcome!VoidMatch, Outcome!EndAs, Outcome!resultVars, Outcome!disputeVars,
         SeenStatus, SeenResult, SeenNoted, InSubmission, disputeVars,
           Outcome!disputeVars
<1> QED
  BY <1>3 DEF Allowed, Outcome!OutcomeNext, Outcome!OutcomeStep

LEMMA DisputeStepAllowed ==
    ASSUME SInv, DisputeStep
    PROVE  Allowed
<1>1. InSubmission' = InSubmission
  BY DEF InSubmission, DisputeStep, OpenDispute, CancelDispute, ResolveDispute
<1>2. CASE OpenDispute
  <2>1. Outcome!OpenDispute
    BY <1>1, <1>2 DEF OpenDispute, Outcome!OpenDispute, Outcome!resultVars, SeenStatus, SeenResult,
       SeenNoted, InSubmission, matchVars
  <2> QED
    BY <2>1 DEF Allowed, Outcome!OutcomeNext
<1>3. CASE CancelDispute
  <2>1. Outcome!CancelDispute
    BY <1>1, <1>3 DEF CancelDispute, Outcome!CancelDispute, Outcome!resultVars, SeenStatus,
       SeenResult, SeenNoted, InSubmission, matchVars
  <2> QED
    BY <2>1 DEF Allowed, Outcome!OutcomeNext, Outcome!OutcomeStep
<1>4. ASSUME ResolveDispute,
             NEW resolution \in Outcome!Verdicts \cup {"KEEP", "VOIDED"},
             UNCHANGED SeenNoted,
             \/ resolution = "KEEP" /\ UNCHANGED <<SeenStatus, SeenResult>>
             \/ resolution = "VOIDED" /\ SeenStatus' = "VOIDED" /\ SeenResult' = "VOIDED"
             \/ /\ resolution \in Outcome!Verdicts /\ ~SeenNoted
                /\ SeenStatus' = "COMPLETED" /\ SeenResult' = resolution
      PROVE  Allowed
  <2>1. Outcome!ResolveDispute(resolution)
    BY <1>1, <1>4 DEF ResolveDispute, Outcome!ResolveDispute, SeenStatus, SeenResult, SeenNoted,
       InSubmission
  <2>2. Outcome!OutcomeStep
    BY <2>1, Zenon DEF Outcome!OutcomeStep
  <2> QED
    BY <2>2 DEF Allowed, Outcome!OutcomeNext
<1>5. CASE ResolveDispute /\ UNCHANGED <<status, version, result>>
  BY <1>4, <1>5 DEF SeenStatus, SeenResult, SeenNoted
<1>6. ASSUME ResolveDispute, NEW payload \in Payloads, CorrectResult(payload)
      PROVE  Allowed
  <2>1. DeriveOutcome[payload] \in Outcome!Verdicts
    BY VerdictOf DEF Outcome!Verdicts
  <2>2. SeenStatus' = "COMPLETED" /\ SeenResult' = DeriveOutcome[payload]
    BY <1>6, NewVerdict, ResultKinds DEF CorrectResult, Advance, SeenStatus, SeenResult
  <2>3. SeenNoted' = FALSE /\ SeenNoted = FALSE
    BY <1>6, NewVerdict, ResultKinds DEF CorrectResult, SeenNoted
  <2> QED
    BY <1>4, <1>6, <2>1, <2>2, <2>3
<1>7. CASE ResolveDispute /\ VoidResult
  <2>1. /\ result \in Results /\ result # NoResult
        /\ result' = [result EXCEPT !.status = "VOIDED", !.verdict = "VOIDED"]
    BY <1>7 DEF SInv, TypeOK, ResolveDispute, VoidResult
  <2>2. /\ result'.verdict = "VOIDED" /\ result'.noted = result.noted
        /\ result' # NoResult /\ result' # Conflict
    BY <2>1, VoidedResult, ResultKinds
  <2>3. SeenStatus' = "VOIDED" /\ SeenResult' = "VOIDED"
    BY <1>7, <2>2 DEF VoidResult, Advance, SeenStatus, SeenResult
  <2>4. SeenNoted' = SeenNoted
    BY <2>1, <2>2 DEF SeenNoted
  <2> QED
    BY <1>4, <1>7, <2>3, <2>4
<1> QED
  BY <1>2, <1>3, <1>5, <1>6, <1>7 DEF DisputeStep, ResolveDispute

\* Every transaction on results and disputes is, for the money of the match,
\* one of the steps that MatchOutcome and MatchFinance reckon with.
THEOREM OutcomeIsAllowed == Spec => OutcomeAllowed
<1>1. ASSUME SInv, [Next]_vars
      PROVE  [Outcome!OutcomeNext]_(Outcome!outcomeVars)
  <2>1. CASE ClaimStep /\ UNCHANGED disputeVars
    <3>1. ASSUME Expire \/ VoidMatch \/ \E payload \in Payloads : Resolve(payload)
          PROVE  Allowed
      BY <1>1, <2>1, <3>1, ExpireAllowed, VoidMatchAllowed, ResolveAllowed
    <3>2. ASSUME NEW h \in Handlers,
                 \/ \E p \in Participants, claim \in Payloads : SubmitMatchRead(h, p, claim)
                 \/ SubmitWrite(h)
          PROVE  Allowed
      BY <1>1, <2>1, <3>2, SubmitMatchReadAllowed, SubmitWriteAllowed
    <3>3. ASSUME NEW h \in Handlers,
                 \/ SubmitClaimsRead(h) \/ Abort(h)
                 \/ \E p \in Participants : WithdrawCheck(h, p)
                 \/ WithdrawMatchRead(h) \/ WithdrawClaimsRead(h) \/ WithdrawWrite(h)
          PROVE  Allowed
      BY <1>1, <2>1, <3>3, OtherRequestsAllowed
    <3>4. ASSUME PassDeadline
          PROVE  Allowed
      <4>1. UNCHANGED <<SeenStatus, result, disputeVars>> /\ (InSubmission' <=> InSubmission)
        BY <2>1, <3>4 DEF PassDeadline, SeenStatus, InSubmission
      <4> QED
        BY <4>1, QuietAllowed
    <3> QED
      BY <2>1, <3>1, <3>2, <3>3, <3>4 DEF ClaimStep, Allowed
  <2>2. CASE DisputeStep
    BY <1>1, <2>2, DisputeStepAllowed DEF Allowed
  <2>3. CASE UNCHANGED vars
    <3>1. UNCHANGED <<SeenStatus, result, disputeVars>> /\ (InSubmission' <=> InSubmission)
      BY <2>3 DEF vars, matchVars, SeenStatus, InSubmission
    <3> QED
      BY <3>1, QuietAllowed DEF Allowed
  <2> QED
    BY <1>1, <2>1, <2>2, <2>3 DEF Next
<1> QED
  BY <1>1, AlwaysSInv, PTL DEF Spec, OutcomeAllowed

-----------------------------------------------------------------------------
(* Why two claims in force have decided the match, unless two first claims   *)
(* overlapped (crossed, in MCMatchSubmission): who is about to write a first *)
(* claim has no opponent's claim in force against it.                        *)

Unopposed ==
    result = NoResult =>
        \A h \in Handlers : pc[h] = "submitting" /\ call[h].theirs = NoRow =>
            Active(Opponent(call[h].by)) = {}

Lone == result = NoResult => \E p \in Participants : Active(p) = {}

MCInv == SInv /\ (~crossed => Unopposed /\ Lone)

\* A claim comes into force only by a submission of its author.
LEMMA NewlyActive ==
    ASSUME SInv, Next, NEW p \in Participants, Active(p) = {}, Active(p)' # {}
    PROVE  /\ Claiming(p)
           /\ \E h \in Handlers : /\ SubmitWrite(h) /\ call[h].by = p
                                  /\ result' = NoResult => call[h].theirs = NoRow
<1>1. PICK r \in Rows : /\ submission'[r] # NoRow /\ submission'[r].by = p
                        /\ submission'[r].status = "ACTIVE"
  BY DEF Active
<1>2. submission'[r] # submission[r]
  BY <1>1 DEF Active
<1>3. submission \in Claims
  BY TypeOKClaims DEF SInv
<1>4. ASSUME NEW claims \in Claims, NEW missed, NEW decision \in {"CONFIRMED", "CONFLICTING"},
             submission' = Decided(claims, missed, decision)
      PROVE  submission'[r] = claims[r]
  <2>1. CASE submission'[r] = [claims[r] EXCEPT !.status = decision] /\ claims[r] # NoRow
    BY <1>1, <1>4, <2>1 DEF Claims, Submissions
  <2>2. CASE submission'[r] = claims[r]
    BY <2>2
  <2> QED
    BY <1>4, <2>1, <2>2 DEF Decided
<1>5. ASSUME NEW h \in Handlers, WithdrawWrite(h)
      PROVE  FALSE
  <2> DEFINE mine == call[h].mine
  <2>1. mine \in Rows /\ submission[mine] # NoRow
    BY <1>5 DEF SInv, AllSeen, Seen, RowOf, WithdrawWrite
  <2>2. submission'[mine].status = "WITHDRAWN"
    BY <1>3, <1>5, <2>1 DEF WithdrawWrite, Claims, Submissions
  <2>3. r # mine
    BY <1>1, <2>2
  <2> QED
    BY <1>2, <1>3, <1>5, <2>3 DEF WithdrawWrite, Claims
<1>6. CASE Expire
  BY <1>2, <1>3, <1>4, <1>6 DEF Expire
<1>7. PICK h \in Handlers : SubmitWrite(h)
  BY <1>2, <1>5, <1>6
     DEF Next, ClaimStep, PassDeadline, VoidMatch, Resolve, SubmitMatchRead, SubmitClaimsRead,
         WithdrawCheck, WithdrawMatchRead, WithdrawClaimsRead, Abort, DisputeStep, OpenDispute,
         CancelDispute, ResolveDispute
<1> DEFINE c == call[h]
<1>8. c \in [by : Participants, claim : Payloads, version : Nat,
             mine : Rows \cup {NoRow}, theirs : Rows \cup {NoRow}]
  BY <1>7, CallOf DEF SInv, Submitting, SubmitWrite
<1>9. PICK n \in Rows : submission[n] = NoRow /\ (ClaimFirst(h, n) \/ ClaimSecond(h, n))
  BY <1>7 DEF SubmitWrite
<1>10. /\ Claimed(c, n) \in Claims
       /\ Claimed(c, n)[n] = [by |-> c.by, payload |-> c.claim, status |-> "ACTIVE"]
  BY <1>7, <1>9, ClaimedKeeps DEF SInv, SubmitWrite
<1>11. submission'[r] = Claimed(c, n)[r]
  BY <1>4, <1>9, <1>10 DEF ClaimFirst, ClaimSecond
<1>12. r = n
  <2>1. CASE r # n
    <3>1. r = c.mine /\ submission'[r] = [submission[r] EXCEPT !.status = "SUPERSEDED"]
      BY <1>2, <1>11, <2>1 DEF Claimed
    <3>2. submission[r] \in Submissions
      BY <1>7, <3>1, NoRowAssumption DEF SInv, AllSeen, Seen, RowOf, SubmitWrite, TypeOK
    <3> QED
      BY <1>1, <3>1, <3>2 DEF Submissions
  <2> QED
    BY <2>1
<1>13. c.by = p /\ Claiming(p)
  BY <1>1, <1>9, <1>10, <1>11, <1>12 DEF Claiming
<1>14. result' = NoResult => c.theirs = NoRow
  BY <1>8, <1>9, NewVerdict, ResultKinds DEF ClaimFirst, ClaimSecond
<1> QED
  BY <1>7, <1>13, <1>14

\* A submission that is about to write was so before, or has just read.
LEMMA WhoSubmits ==
    ASSUME SInv, Next, NEW h \in Handlers, pc'[h] = "submitting", call'[h].theirs = NoRow
    PROVE  \/ pc'[h] = pc[h] /\ call'[h] = call[h]
           \/ /\ UNCHANGED submission
              /\ Active(Opponent(call'[h].by)) = {}
<1>0. DOMAIN pc = Handlers /\ DOMAIN call = Handlers
  BY DEF SInv, TypeOK
<1> DEFINE Still == pc'[h] = pc[h] /\ call'[h] = call[h]
<1>1. ASSUME NEW g \in Handlers, NEW step, NEW read, Become(g, step, read),
             step # "submitting"
      PROVE  Still
  BY <1>0, <1>1 DEF Become
<1>2. CASE UNCHANGED <<pc, call>>
  BY <1>2
<1>3. ASSUME NEW g \in Handlers, Done(g) PROVE Still
  BY <1>1, <1>3 DEF Done
<1>4. ASSUME NEW g \in Handlers, NEW p \in Participants, NEW claim \in Payloads,
             SubmitMatchRead(g, p, claim)
      PROVE  Still
  <2>1. \E read : Become(g, "submit", read)
    BY <1>4 DEF SubmitMatchRead
  <2> QED
    BY <1>1, <2>1
<1>5. ASSUME NEW g \in Handlers, SubmitClaimsRead(g), ~Still
      PROVE  UNCHANGED submission /\ Active(Opponent(call'[h].by)) = {}
  <2>1. PICK c : c = call[g]
    OBVIOUS
  <2>2. c \in [by : Participants, claim : Payloads, version : Nat,
               mine : Rows \cup {NoRow}, theirs : Rows \cup {NoRow}]
    BY <1>5, <2>1, CallOf DEF SInv, Submitting, SubmitClaimsRead
  <2>3. PICK read : read = [c EXCEPT !.mine = TheActive(c.by),
                                     !.theirs = TheActive(Opponent(c.by))]
    OBVIOUS
  <2>4. UNCHANGED submission /\ (Done(g) \/ Become(g, "submitting", read))
    BY <1>5, <2>1, <2>3 DEF SubmitClaimsRead
  <2>5. Become(g, "submitting", read) /\ g = h
    BY <1>0, <1>3, <1>5, <2>4 DEF Become
  <2>6. call'[h] = read
    BY <1>0, <2>5 DEF Become
  <2>7. read.by = c.by /\ read.theirs = TheActive(Opponent(c.by))
    BY <2>2, <2>3
  <2> QED
    BY <2>4, <2>6, <2>7, TheActiveIsOf
<1>6. ASSUME NEW g \in Handlers,
             \/ \E p \in Participants : WithdrawCheck(g, p)
             \/ WithdrawMatchRead(g) \/ WithdrawClaimsRead(g)
      PROVE  Still
  <2>1. \E step \in {"checked", "withdraw", "withdrawing"} : \E read :
            Become(g, step, read) \/ Done(g)
    BY <1>6 DEF WithdrawCheck, WithdrawMatchRead, WithdrawClaimsRead
  <2> QED
    BY <1>1, <1>3, <2>1
<1> QED
  BY <1>2, <1>3, <1>4, <1>5, <1>6
     DEF Next, ClaimStep, PassDeadline, Expire, VoidMatch, Resolve, SubmitWrite, WithdrawWrite,
         Abort, DisputeStep, OpenDispute, CancelDispute, ResolveDispute

\* No result is ever removed.
LEMMA ResultStays ==
    ASSUME SInv, Next, result' = NoResult
    PROVE  result = NoResult
<1>1. ASSUME NEW h \in Handlers, SubmitWrite(h)
      PROVE  result' \in {result} \cup Results
  <2>1. call[h].claim \in Payloads
    BY <1>1, CallOf DEF SInv, Submitting, SubmitWrite
  <2> QED
    BY <1>1, <2>1, NewVerdict, ResultKinds DEF SubmitWrite, ClaimFirst, ClaimSecond
<1>2. CASE Expire
  BY <1>2, ResultKinds DEF Expire
<1>3. ASSUME NEW payload \in Payloads, Resolve(payload) \/ CorrectResult(payload)
      PROVE  result' # NoResult
  BY <1>3, NewVerdict, ResultKinds DEF Resolve, CorrectResult
<1>4. CASE VoidResult /\ ResolveDispute
  BY <1>4, VoidedResult, ResultKinds DEF VoidResult, ResolveDispute, SInv, TypeOK
<1> QED
  BY <1>1, <1>2, <1>3, <1>4, ResultKinds
     DEF Next, ClaimStep, PassDeadline, VoidMatch, SubmitMatchRead, SubmitClaimsRead,
         WithdrawCheck, WithdrawMatchRead, WithdrawClaimsRead, WithdrawWrite, Abort, DisputeStep,
         OpenDispute, CancelDispute, ResolveDispute

LEMMA NextDecides ==
    ASSUME SInv, Unopposed, Lone, MCNext, ~crossed'
    PROVE  Unopposed' /\ Lone'
<1>1. Next /\ \A p, q \in Participants : \A h \in Handlers :
        p # q /\ Claiming(q) => ~FirstOf(h, p)
  BY DEF MCNext
<1>2. SUFFICES ASSUME result' = NoResult
               PROVE  Unopposed' /\ Lone'
  BY DEF Unopposed, Lone
<1>3. result = NoResult
  BY <1>1, <1>2, ResultStays
<1>4. ASSUME NEW h \in Handlers, pc'[h] = "submitting", call'[h].theirs = NoRow
      PROVE  Active(Opponent(call[h].by))' = {}
  <2> PICK p : p = call'[h].by
    OBVIOUS
  <2>1. p \in Participants
    BY <1>1, <1>4, NextSInv, CallOf DEF SInv, TypeOK, Calls, Submitting
  <2>2. Opponent(p) \in Participants /\ Opponent(p) # p
    BY <2>1, OpponentIsOther
  <2>3. CASE UNCHANGED submission /\ Active(Opponent(p)) = {}
    BY <2>3 DEF Active, Opponent
  <2>4. CASE pc'[h] = pc[h] /\ call'[h] = call[h]
    <3>1. FirstOf(h, p) /\ Active(Opponent(p)) = {}
      BY <1>3, <1>4, <2>4 DEF FirstOf, Unopposed
    <3>2. ~Claiming(Opponent(p))
      BY <1>1, <2>1, <2>2, <3>1
    <3>3. Active(Opponent(p))' = {}
      BY <1>1, <2>2, <3>1, <3>2, NewlyActive DEF Active, Opponent
    <3> QED
      BY <3>3
  <2> QED
    BY <1>1, <1>4, <2>3, <2>4, WhoSubmits
<1>5. PICK p \in Participants : Active(p) = {}
  BY <1>3 DEF Lone
<1>6. Unopposed'
  BY <1>4 DEF Unopposed
<1>7. CASE Active(p)' = {}
  BY <1>6, <1>7 DEF Lone, Active
<1>8. CASE Active(p)' # {}
  <2>1. PICK h \in Handlers : SubmitWrite(h) /\ call[h].by = p /\ call[h].theirs = NoRow
    BY <1>1, <1>2, <1>5, <1>8, NewlyActive
  <2>2. Active(Opponent(p)) = {}
    BY <1>3, <2>1 DEF Unopposed, SubmitWrite
  <2>3. Opponent(p) \in Participants /\ Opponent(p) # p
    BY OpponentIsOther
  <2>4. FirstOf(h, p)
    BY <2>1 DEF FirstOf, SubmitWrite
  <2>5. ~Claiming(Opponent(p))
    BY <1>1, <2>3, <2>4
  <2>6. Active(Opponent(p))' = {}
    BY <1>1, <2>2, <2>3, <2>5, NewlyActive
  <2> QED
    BY <1>6, <2>3, <2>6 DEF Lone, Active
<1> QED
  BY <1>7, <1>8

\* Claims of both participants in force have decided the match, for any number
\* of claims, payloads and requests, and whether or not a payload is read back
\* as it was written, unless two first claims overlapped.
THEOREM BothClaimsDecide == MCSpec => []DecidedUnlessCrossed
<1>1. MCInit => MCInv
  <2> SUFFICES ASSUME MCInit PROVE MCInv
    OBVIOUS
  <2>1. SInv
    BY InitSInv DEF MCInit
  <2>2. (\A h \in Handlers : pc[h] = "idle") /\ \A p \in Participants : Active(p) = {}
    BY DEF MCInit, Init, Active
  <2> QED
    BY <2>1, <2>2, ParticipantsAssumption DEF MCInv, Unopposed, Lone
<1>2. MCInv /\ [MCNext]_<<vars, crossed>> => MCInv'
  <2>1. ASSUME MCInv, MCNext
        PROVE  MCInv'
    <3>1. SInv'
      BY <2>1, NextSInv DEF MCInv, MCNext
    <3> QED
      BY <2>1, <3>1, NextDecides DEF MCInv, MCNext
  <2>2. ASSUME MCInv, UNCHANGED <<vars, crossed>>
        PROVE  MCInv'
    <3>1. SInv'
      BY <2>2, NextSInv DEF MCInv
    <3> QED
      BY <2>2, <3>1 DEF MCInv, Unopposed, Lone, Active, Opponent, vars
  <2> QED
    BY <2>1, <2>2
<1>3. MCInv => DecidedUnlessCrossed
  BY DEF MCInv, Lone, DecidedUnlessCrossed
<1> QED
  BY <1>1, <1>2, <1>3, PTL DEF MCSpec
=============================================================================
