------------------------ MODULE RatingApplicationProofs ------------------------
(* Theorems about RatingApplication for every number of players, matches,    *)
(* keys and handlers, and every formula that yields integers.                *)
(*                                                                           *)
(* Why what is rated is settled: an application and a dispute of one match   *)
(* exclude each other where they begin, and where they do not, because both  *)
(* were under way, the match is among the crossed ones.                      *)
EXTENDS RatingApplication, FiniteSetTheorems, SequenceTheorems, TLAPS

Steps == {"idle"} \cup Rating \cup Disputing

\* A result that stands names its winner or a draw.
ResultsNamed == \A m \in Matches : result[m].status # "VOIDED" => result[m].verdict \in Verdicts

\* What a handler at `step', with the call c, may still rely on.
CallTrue(step, c) ==
    /\ step \in Rating =>
           /\ c.result.verdict \in Verdicts
           /\ c.match \notin crossed => /\ dispute[c.match] # "ACTIVE"
                                        /\ c.result = result[c.match]
    /\ step \in Disputing => (c.match \notin crossed => application[c.match] = NoApplication)
    /\ step = "resolve" /\ c.decision = "CORRECT_RESULT" => c.verdict \in Verdicts

\* Two handlers with one match, one rating and one disputing it, have crossed.
Meet(step, c, other, d) ==
    step \in Rating /\ other \in Disputing /\ c.match = d.match => c.match \in crossed

\* The inductive invariant.
Inv ==
    /\ TypeOK
    /\ ResultsNamed
    /\ CountedOnceForBoth
    /\ RatedIsSettled
    /\ \A h \in Handlers : CallTrue(pc[h], call[h])
    /\ \A g, h \in Handlers : Meet(pc[g], call[g], pc[h], call[h])

-----------------------------------------------------------------------------
LEMMA CallShape ==
    ASSUME TypeOK, NEW h \in Handlers
    PROVE  /\ pc[h] \in Rating => call[h].match \in Matches /\ call[h].key \in Keys
                                  /\ call[h].result \in Results
           /\ pc[h] \in Disputing => call[h].match \in Matches
BY DEF TypeOK, IsCall, Disputing

\* The handler h goes on to a step and a call of which all is well.
LEMMA HandlerKeeps ==
    ASSUME Inv, NEW h \in Handlers, NEW step \in Steps, NEW c,
           Become(h, step, c), IsCall(step, c), UNCHANGED <<matchVars, ratingVars>>,
           crossed \subseteq crossed', crossed' \subseteq Matches,
           CallTrue(step, c)',
           \A g \in Handlers \ {h} : /\ Meet(step, c, pc[g], call[g])'
                                     /\ Meet(pc[g], call[g], step, c)',
           \A g \in Handlers \ {h} : pc'[g] = pc[g] /\ call'[g] = call[g]
    PROVE  Inv'
<1>1. pc'[h] = step /\ call'[h] = c
  BY DEF Become, Inv, TypeOK
<1>2. TypeOK'
  <2>1. ASSUME NEW g \in Handlers PROVE IsCall(pc[g], call[g])'
    <3>1. CASE g = h
      BY <1>1, <3>1 DEF IsCall
    <3>2. CASE g # h
      BY <3>2 DEF Inv, TypeOK, IsCall
    <3> QED BY <3>1, <3>2
  <2>2. DOMAIN pc' = Handlers /\ DOMAIN call' = Handlers /\ pc' \in [Handlers -> Steps]
    BY DEF Inv, TypeOK, Become, Steps
  <2> QED BY <2>1, <2>2 DEF Inv, TypeOK, matchVars, ratingVars, Steps
<1>3. ResultsNamed' /\ CountedOnceForBoth' /\ RatedIsSettled'
  BY DEF Inv, ResultsNamed, CountedOnceForBoth, RatedIsSettled, matchVars, ratingVars
<1>4. ASSUME NEW g \in Handlers PROVE CallTrue(pc[g], call[g])'
  <2>1. CASE g = h
    BY <1>1, <2>1 DEF CallTrue
  <2>2. CASE g # h
    BY <2>2 DEF Inv, CallTrue, matchVars, ratingVars
  <2> QED BY <2>1, <2>2
<1>5. ASSUME NEW g \in Handlers, NEW k \in Handlers PROVE Meet(pc[g], call[g], pc[k], call[k])'
  <2>1. CASE g # h /\ k # h
    BY <2>1 DEF Inv, Meet
  <2>2. CASE g = h /\ k # h
    BY <1>1, <2>2 DEF Meet
  <2>3. CASE g # h /\ k = h
    BY <1>1, <2>3 DEF Meet
  <2>4. CASE g = h /\ k = h
    BY <1>1, <2>4 DEF Meet, Rating, Disputing
  <2> QED BY <2>1, <2>2, <2>3, <2>4
<1> QED BY <1>2, <1>3, <1>4, <1>5 DEF Inv

LEMMA OthersStand ==
    ASSUME TypeOK, NEW h \in Handlers, NEW step, NEW c, Become(h, step, c)
    PROVE  \A g \in Handlers \ {h} : pc'[g] = pc[g] /\ call'[g] = call[g]
BY DEF TypeOK, Become

\* Whoever meets the match that Cross is asked about has crossed.
LEMMA CrossMeets ==
    ASSUME Inv, NEW m \in Matches, NEW steps, Cross(m, steps)
    PROVE  /\ crossed \subseteq crossed' /\ crossed' \subseteq Matches
           /\ \A g \in Handlers : pc[g] \in steps /\ call[g].match = m => m \in crossed'
BY DEF Inv, TypeOK, Cross

-----------------------------------------------------------------------------
LEMMA ApplyBeginKeeps ==
    ASSUME Inv, NEW h \in Handlers, NEW m \in Matches, NEW k \in Keys, ApplyBegin(h, m, k)
    PROVE  Inv'
<1>1. PICK c : c = [match |-> m, key |-> k, result |-> result[m]]
  OBVIOUS
<1>2. Become(h, "rate", c) /\ Cross(m, Disputing) /\ UNCHANGED <<matchVars, ratingVars>> /\ Eligible(m)
  BY <1>1 DEF ApplyBegin, ContextOf
<1>3. /\ crossed \subseteq crossed' /\ crossed' \subseteq Matches
      /\ \A g \in Handlers : pc[g] \in Disputing /\ call[g].match = m => m \in crossed'
  BY <1>2, CrossMeets
<1>4. result[m] \in Results /\ result[m].verdict \in Verdicts /\ dispute[m] # "ACTIVE"
  BY <1>2 DEF Eligible, Inv, TypeOK, ResultsNamed
<1>5. IsCall("rate", c) /\ "rate" \in Steps
  BY <1>1, <1>4 DEF IsCall, Rating, Disputing, Steps
<1>6. CallTrue("rate", c)'
  BY <1>1, <1>2, <1>4 DEF CallTrue, Rating, Disputing, matchVars
<1>7. \A g \in Handlers \ {h} : pc'[g] = pc[g] /\ call'[g] = call[g]
  BY <1>2, OthersStand DEF Inv
<1>8. \A g \in Handlers \ {h} : /\ Meet("rate", c, pc[g], call[g])'
                                /\ Meet(pc[g], call[g], "rate", c)'
  BY <1>1, <1>3, <1>7 DEF Meet, Rating, Disputing
<1> QED BY <1>2, <1>3, <1>5, <1>6, <1>7, <1>8, HandlerKeeps

LEMMA ReadRatingsKeeps ==
    ASSUME Inv, NEW h \in Handlers, ReadRatings(h) PROVE Inv'
<1>1. PICK old : old = call[h]
  OBVIOUS
<1>2. PICK c : c = [match |-> old.match, key |-> old.key, result |-> old.result,
                    rows |-> [p \in Pairing[old.match] |-> rating[p]]]
  OBVIOUS
<1>3. pc[h] = "rate" /\ Become(h, "write", c) /\ UNCHANGED <<matchVars, ratingVars, crossed>>
  BY <1>1, <1>2 DEF ReadRatings
<1>4. old.match \in Matches /\ old.key \in Keys /\ old.result \in Results
  BY <1>1, <1>3, CallShape DEF Inv, Rating
<1>5. Pairing[old.match] \subseteq Players
  BY <1>4, PairingAssumption
<1>6. /\ c.match = old.match /\ c.key = old.key /\ c.result = old.result
      /\ c.rows = [p \in Pairing[old.match] |-> rating[p]]
  BY <1>2
<1>7. IsCall("write", c) /\ "write" \in Steps
  BY <1>4, <1>5, <1>6 DEF IsCall, Rating, Disputing, Steps, Inv, TypeOK
<1>8. CallTrue("rate", old)
  BY <1>1, <1>3 DEF Inv
<1>9. CallTrue("write", c)'
  BY <1>3, <1>6, <1>8 DEF CallTrue, Rating, Disputing, matchVars, ratingVars
<1>10. \A g \in Handlers \ {h} : pc'[g] = pc[g] /\ call'[g] = call[g]
  BY <1>3, OthersStand DEF Inv
<1>11. \A g \in Handlers \ {h} : /\ Meet("write", c, pc[g], call[g])'
                                 /\ Meet(pc[g], call[g], "write", c)'
  <2>1. \A g \in Handlers : Meet("rate", old, pc[g], call[g])
    BY <1>1, <1>3 DEF Inv
  <2> QED BY <1>3, <1>6, <1>10, <2>1 DEF Meet, Rating, Disputing
<1>12. crossed \subseteq crossed' /\ crossed' \subseteq Matches
  BY <1>3 DEF Inv, TypeOK
<1> QED BY <1>3, <1>7, <1>9, <1>10, <1>11, <1>12, HandlerKeeps

\* A dispute that begins to be opened or resolved.
LEMMA DisputeBegins ==
    ASSUME Inv, NEW h \in Handlers, NEW step \in Disputing, NEW c, NEW m \in Matches,
           c.match = m, IsCall(step, c), Become(h, step, c), Cross(m, Rating),
           UNCHANGED <<matchVars, ratingVars>>,
           m \notin crossed => application[m] = NoApplication,
           step = "resolve" /\ c.decision = "CORRECT_RESULT" => c.verdict \in Verdicts
    PROVE  Inv'
<1>1. /\ crossed \subseteq crossed' /\ crossed' \subseteq Matches
      /\ \A g \in Handlers : pc[g] \in Rating /\ call[g].match = m => m \in crossed'
  BY CrossMeets
<1>2. CallTrue(step, c)'
  BY <1>1 DEF CallTrue, Rating, Disputing, ratingVars
<1>3. \A g \in Handlers \ {h} : pc'[g] = pc[g] /\ call'[g] = call[g]
  BY OthersStand DEF Inv
<1>4. \A g \in Handlers \ {h} : /\ Meet(step, c, pc[g], call[g])'
                                /\ Meet(pc[g], call[g], step, c)'
  BY <1>1, <1>3 DEF Meet, Rating, Disputing
<1>5. step \in Steps
  BY DEF Steps
<1> QED BY <1>1, <1>2, <1>3, <1>4, <1>5, HandlerKeeps

LEMMA OpenCheckKeeps ==
    ASSUME Inv, NEW h \in Handlers, NEW m \in Matches, OpenCheck(h, m) PROVE Inv'
<1>1. PICK c : c = [match |-> m]
  OBVIOUS
<1>2. /\ Become(h, "open", c) /\ Cross(m, Rating) /\ UNCHANGED <<matchVars, ratingVars>>
      /\ application[m] = NoApplication
  BY <1>1 DEF OpenCheck
<1>3. c.match = m /\ IsCall("open", c) /\ "open" \in Disputing
  BY <1>1 DEF IsCall, Rating, Disputing
<1> QED BY <1>2, <1>3, DisputeBegins

LEMMA ResolveReadKeeps ==
    ASSUME Inv, NEW h \in Handlers, NEW m \in Matches,
           NEW decision \in {"REJECT_DISPUTE", "UPHOLD_RESULT", "CORRECT_RESULT", "VOID_MATCH"},
           NEW verdict \in Verdicts \cup {"NOBODY"},
           decision = "CORRECT_RESULT" => verdict \in Verdicts,
           ResolveRead(h, m, decision, verdict)
    PROVE  Inv'
<1>1. PICK c : c = [match |-> m, decision |-> decision, verdict |-> verdict]
  OBVIOUS
<1>2. /\ Become(h, "resolve", c) /\ Cross(m, Rating) /\ UNCHANGED <<matchVars, ratingVars>>
      /\ dispute[m] = "ACTIVE"
  BY <1>1 DEF ResolveRead
<1>3. c.match = m /\ IsCall("resolve", c) /\ "resolve" \in Disputing
  BY <1>1 DEF IsCall, Rating, Disputing
<1>4. m \notin crossed => application[m] = NoApplication
  BY <1>2 DEF Inv, RatedIsSettled
<1>5. c.decision = "CORRECT_RESULT" => c.verdict \in Verdicts
  BY <1>1
<1> QED BY <1>2, <1>3, <1>4, <1>5, DisputeBegins

LEMMA AbortKeeps ==
    ASSUME Inv, NEW h \in Handlers, Abort(h) PROVE Inv'
<1>1. Become(h, "idle", NoCall) /\ UNCHANGED <<matchVars, ratingVars, crossed>>
  BY DEF Abort, Done
<1>2. IsCall("idle", NoCall) /\ CallTrue("idle", NoCall)' /\ "idle" \in Steps
  BY DEF IsCall, CallTrue, Rating, Disputing, Steps
<1>3. \A g \in Handlers \ {h} : pc'[g] = pc[g] /\ call'[g] = call[g]
  BY <1>1, OthersStand DEF Inv
<1>4. \A g \in Handlers \ {h} : /\ Meet("idle", NoCall, pc[g], call[g])'
                                /\ Meet(pc[g], call[g], "idle", NoCall)'
  BY DEF Meet, Rating, Disputing
<1>5. crossed \subseteq crossed' /\ crossed' \subseteq Matches
  BY <1>1 DEF Inv, TypeOK
<1> QED BY <1>1, <1>2, <1>3, <1>4, <1>5, HandlerKeeps

-----------------------------------------------------------------------------
\* The tables are typed, as TypeOK has it.
Tables ==
    /\ DOMAIN result = Matches /\ \A m \in Matches : result[m] \in Results
    /\ dispute \in [Matches -> {"NONE", "ACTIVE", "OVER"}]
    /\ matured \subseteq Matches
    /\ DOMAIN rating = Players /\ \A p \in Players : rating[p] \in Rows
    /\ DOMAIN changes = Players /\ \A p \in Players : changes[p] \in Seq(Changes)
    /\ DOMAIN application = Matches
    /\ \A m \in Matches : application[m] \in Applications \cup {NoApplication}

\* The handler h commits and is idle; the others are as they were.
LEMMA CommitKeeps ==
    ASSUME Inv, NEW h \in Handlers, Done(h), UNCHANGED crossed,
           Tables', ResultsNamed', CountedOnceForBoth', RatedIsSettled',
           \A g \in Handlers \ {h} : CallTrue(pc[g], call[g])'
    PROVE  Inv'
<1>1. pc'[h] = "idle" /\ call'[h] = NoCall
  BY DEF Done, Become, Inv, TypeOK
<1>2. \A g \in Handlers \ {h} : pc'[g] = pc[g] /\ call'[g] = call[g]
  BY OthersStand DEF Inv, Done
<1>3. TypeOK'
  <2>1. ASSUME NEW g \in Handlers PROVE IsCall(pc[g], call[g])'
    <3>1. CASE g = h
      BY <1>1, <3>1 DEF IsCall, Rating
    <3>2. CASE g # h
      BY <1>2, <3>2 DEF Inv, TypeOK, IsCall
    <3> QED BY <3>1, <3>2
  <2>2. DOMAIN pc' = Handlers /\ DOMAIN call' = Handlers /\ pc' \in [Handlers -> Steps]
    BY DEF Inv, TypeOK, Done, Become, Steps
  <2>3. crossed' \subseteq Matches
    BY DEF Inv, TypeOK
  <2> QED BY <2>1, <2>2, <2>3 DEF TypeOK, Tables, Steps
<1>4. ASSUME NEW g \in Handlers PROVE CallTrue(pc[g], call[g])'
  <2>1. CASE g = h
    BY <1>1, <2>1 DEF CallTrue, Rating, Disputing
  <2>2. CASE g # h
    BY <2>2
  <2> QED BY <2>1, <2>2
<1>5. ASSUME NEW g \in Handlers, NEW k \in Handlers PROVE Meet(pc[g], call[g], pc[k], call[k])'
  <2>1. CASE g # h /\ k # h
    BY <1>2, <2>1 DEF Inv, Meet
  <2>2. CASE g = h \/ k = h
    BY <1>1, <2>2 DEF Meet, Rating, Disputing
  <2> QED BY <2>1, <2>2
<1> QED BY <1>3, <1>4, <1>5 DEF Inv

LEMMA AppendLooks ==
    ASSUME NEW S, NEW s \in Seq(S), NEW e \in S
    PROVE  /\ Append(s, e) \in Seq(S)
           /\ DOMAIN Append(s, e) = DOMAIN s \cup {Len(s) + 1}
           /\ Len(s) + 1 \notin DOMAIN s
           /\ Append(s, e)[Len(s) + 1] = e
           /\ \A i \in DOMAIN s : Append(s, e)[i] = s[i]
<1>1. Append(s, e) \in Seq(S) /\ Len(Append(s, e)) = Len(s) + 1
  BY AppendProperties
<1>2. DOMAIN s = 1..Len(s) /\ Len(s) \in Nat /\ DOMAIN Append(s, e) = 1..(Len(s) + 1)
  BY <1>1, LenProperties
<1>3. Append(s, e)[Len(s) + 1] = e /\ \A i \in 1..Len(s) : Append(s, e)[i] = s[i]
  BY AppendProperties
<1> QED BY <1>1, <1>2, <1>3

LEMMA RatingBounded ==
    ASSUME NEW own \in Ratings, NEW other \in Ratings, NEW played \in Nat, NEW outcome \in Outcomes
    PROVE  RatingAfter(own, other, played, outcome) \in Ratings
<1>1. KFactor(played) \in {ProvisionalK, EstablishedK}
  BY DEF KFactor
<1>2. Elo(own, other, KFactor(played), outcome) \in Int
  BY <1>1, EloAssumption
<1>3. PICK raw \in Int : raw = Elo(own, other, KFactor(played), outcome)
  BY <1>2
<1>4. RatingAfter(own, other, played, outcome) =
          IF raw > MaxRating THEN MaxRating ELSE IF raw < MinRating THEN MinRating ELSE raw
  BY <1>3 DEF RatingAfter
<1> QED BY <1>4, BoundsAssumption DEF Ratings

LEMMA OpponentPlays ==
    ASSUME NEW m \in Matches, NEW p \in Pairing[m]
    PROVE  Opponent(m, p) \in Pairing[m]
BY PairingAssumption DEF Opponent

LEMMA AppliedIsRow ==
    ASSUME NEW row \in Rows, NEW read \in Rows, NEW outcome \in Outcomes, NEW after \in Ratings
    PROVE  Applied(row, read, outcome, after) \in Rows
<1>1. \A yes \in BOOLEAN : Count(yes) \in Nat
  BY DEF Count
<1>2. Raised(read.highest, after) \in Ratings /\ Lowered(read.lowest, after) \in Ratings
  BY DEF Raised, Lowered, Rows
<1>3. /\ Count(outcome = "WIN") \in Nat /\ Count(outcome = "LOSS") \in Nat
      /\ Count(outcome = "DRAW") \in Nat /\ Count(read.provisional < ProvisionalCount) \in Nat
  BY DEF Count
<1>4. \A a, b \in Nat : a + b \in Nat
  OBVIOUS
<1> QED BY <1>2, <1>3, <1>4 DEF Applied, Rows

\* The change that a handler in "write" works out for a player of its match.
LEMMA ChangeIsTyped ==
    ASSUME Inv, NEW h \in Handlers, pc[h] = "write", NEW p \in Pairing[call[h].match]
    PROVE  /\ ChangeOf(call[h], p) \in Changes /\ ChangeOf(call[h], p).match = call[h].match
           /\ ChangeOf(call[h], p).outcome = OutcomeFor(call[h].match, p, call[h].result.verdict)
<1>1. PICK c : c = call[h]
  OBVIOUS
<1>2. PICK m \in Matches : m = c.match
  BY <1>1, CallShape DEF Inv, Rating
<1>3. /\ \A r \in Pairing[m] : c.rows[r] \in Rows
      /\ c.result.verdict \in Verdicts
  BY <1>1, <1>2 DEF Inv, TypeOK, IsCall, Rating, CallTrue
<1>4. p \in Pairing[m]
  BY <1>1, <1>2
<1>5. PICK q \in Pairing[m] : q = Opponent(m, p)
  BY <1>4, OpponentPlays
<1>6. /\ c.rows[p].rating \in Ratings /\ c.rows[q].rating \in Ratings
      /\ c.rows[p].played \in Nat
  BY <1>3, <1>4, <1>5 DEF Rows
<1>7. PICK outcome \in Outcomes : outcome = OutcomeFor(m, p, c.result.verdict)
  BY DEF OutcomeFor, Outcomes
<1>8. RatingAfter(c.rows[p].rating, c.rows[q].rating, c.rows[p].played, outcome) \in Ratings
  BY <1>6, RatingBounded
<1>9. ChangeOf(c, p) =
          [match |-> m, outcome |-> outcome, before |-> c.rows[p].rating,
           after |-> RatingAfter(c.rows[p].rating, c.rows[q].rating, c.rows[p].played, outcome)]
  BY <1>2, <1>5, <1>7 DEF ChangeOf
<1> QED BY <1>1, <1>2, <1>6, <1>7, <1>8, <1>9 DEF Changes

LEMMA ApplyCommitKeeps ==
    ASSUME Inv, NEW h \in Handlers, ApplyCommit(h) PROVE Inv'
<1>1. PICK c : c = call[h]
  OBVIOUS
<1>2. PICK m \in Matches : m = c.match
  BY <1>1, CallShape DEF ApplyCommit, Inv, Rating
<1>3. /\ c.key \in Keys /\ c.result \in Results /\ DOMAIN c.rows = Pairing[m]
      /\ \A p \in Pairing[m] : c.rows[p] \in Rows
      /\ CallTrue("write", c) /\ pc[h] = "write" /\ c.result.verdict \in Verdicts
  BY <1>1, <1>2 DEF ApplyCommit, Inv, TypeOK, IsCall, Rating, CallTrue
<1>4. Pairing[m] \subseteq Players
  BY PairingAssumption
<1>5. PICK entry \in Applications :
          entry = [key |-> c.key, verdict |-> c.result.verdict, version |-> c.result.version]
  BY <1>3 DEF Applications, Results
<1>6. /\ application[m] = NoApplication
      /\ application' = [application EXCEPT ![m] = entry]
      /\ changes' = [p \in Players |->
             IF p \in Pairing[m] THEN Append(changes[p], ChangeOf(c, p)) ELSE changes[p]]
      /\ rating' = [p \in Players |->
             IF p \in Pairing[m]
               THEN Applied(rating[p], c.rows[p], ChangeOf(c, p).outcome, ChangeOf(c, p).after)
               ELSE rating[p]]
      /\ Done(h) /\ UNCHANGED <<matchVars, crossed>>
  BY <1>1, <1>2, <1>5 DEF ApplyCommit, ApplicationFree
<1>7. ASSUME NEW p \in Pairing[m]
      PROVE  /\ ChangeOf(c, p) \in Changes /\ ChangeOf(c, p).match = m
             /\ ChangeOf(c, p).outcome = OutcomeFor(m, p, c.result.verdict)
  BY <1>1, <1>2, <1>3, ChangeIsTyped
<1>8. Tables'
  <2>1. ASSUME NEW p \in Players PROVE changes'[p] \in Seq(Changes) /\ rating'[p] \in Rows
    <3>1. changes[p] \in Seq(Changes) /\ rating[p] \in Rows
      BY DEF Inv, TypeOK
    <3>2. CASE p \in Pairing[m]
      <4>1. ChangeOf(c, p).outcome \in Outcomes /\ ChangeOf(c, p).after \in Ratings
        BY <1>7, <3>2 DEF Changes
      <4>2. Applied(rating[p], c.rows[p], ChangeOf(c, p).outcome, ChangeOf(c, p).after) \in Rows
        BY <1>3, <3>1, <3>2, <4>1, AppliedIsRow
      <4>3. Append(changes[p], ChangeOf(c, p)) \in Seq(Changes)
        BY <1>7, <3>1, <3>2, AppendProperties
      <4> QED BY <1>6, <3>2, <4>2, <4>3
    <3>3. CASE p \notin Pairing[m]
      BY <1>6, <3>1, <3>3
    <3> QED BY <3>2, <3>3
  <2>2. /\ DOMAIN application' = Matches
        /\ \A n \in Matches : application'[n] \in Applications \cup {NoApplication}
    BY <1>6 DEF Inv, TypeOK
  <2>3. DOMAIN changes' = Players /\ DOMAIN rating' = Players
    BY <1>6
  <2>4. UNCHANGED <<result, dispute, matured>>
    BY <1>6 DEF matchVars
  <2> QED BY <2>1, <2>2, <2>3, <2>4 DEF Tables, Inv, TypeOK
<1>9. ResultsNamed'
  BY <1>6 DEF Inv, ResultsNamed, matchVars
<1>10. RatedIsSettled'
  <2>1. m \notin crossed => dispute[m] # "ACTIVE" /\ entry.version = result[m].version
    BY <1>2, <1>3, <1>5 DEF CallTrue, Rating
  <2> QED BY <1>6, <2>1 DEF Inv, TypeOK, RatedIsSettled, matchVars
<1>11. CountedOnceForBoth'
  <2> SUFFICES ASSUME NEW n \in Matches, NEW p \in Players
               PROVE  LET of == {i \in DOMAIN changes'[p] : changes'[p][i].match = n}
                      IN IF application'[n] # NoApplication /\ p \in Pairing[n]
                           THEN \E i \in of : /\ of = {i}
                                              /\ changes'[p][i].outcome =
                                                     IF application'[n].verdict = "DRAW" THEN "DRAW"
                                                     ELSE IF application'[n].verdict = p
                                                       THEN "WIN" ELSE "LOSS"
                           ELSE of = {}
    BY DEF CountedOnceForBoth
  <2>1. LET of == {i \in DOMAIN changes[p] : changes[p][i].match = n}
        IN IF application[n] # NoApplication /\ p \in Pairing[n]
             THEN \E i \in of : /\ of = {i}
                                /\ changes[p][i].outcome =
                                       IF application[n].verdict = "DRAW" THEN "DRAW"
                                       ELSE IF application[n].verdict = p THEN "WIN" ELSE "LOSS"
             ELSE of = {}
    BY DEF Inv, CountedOnceForBoth
  <2>2. CASE p \notin Pairing[m]
    <3>1. changes'[p] = changes[p]
      BY <1>6, <2>2
    <3>2. CASE n = m
      BY <1>6, <2>1, <2>2, <3>1, <3>2
    <3>3. CASE n # m
      <4>1. application'[n] = application[n]
        BY <1>6, <3>3 DEF Inv, TypeOK
      <4> QED BY <2>1, <3>1, <4>1
    <3> QED BY <3>2, <3>3
  <2>3. CASE p \in Pairing[m]
    <3>1. PICK log \in Seq(Changes) : log = changes[p]
      BY DEF Inv, TypeOK
    <3>2. PICK e \in Changes : e = ChangeOf(c, p)
      BY <1>7, <2>3
    <3>3. changes'[p] = Append(log, e)
      BY <1>6, <2>3, <3>1, <3>2
    <3>4. PICK top : top = Len(log) + 1
      OBVIOUS
    <3>5. /\ DOMAIN changes'[p] = DOMAIN log \cup {top} /\ top \notin DOMAIN log
          /\ changes'[p][top] = e /\ \A i \in DOMAIN log : changes'[p][i] = log[i]
      BY <3>3, <3>4, AppendLooks
    <3>6. e.match = m /\ e.outcome = OutcomeFor(m, p, entry.verdict)
      BY <1>5, <1>7, <2>3, <3>2
    <3>7. CASE n = m
      <4>1. \A i \in DOMAIN log : log[i].match # m
        BY <1>6, <2>1, <3>1, <3>7
      <4>2. {i \in DOMAIN changes'[p] : changes'[p][i].match = n} = {top}
        BY <3>5, <3>6, <3>7, <4>1
      <4>3. application'[n] = entry /\ entry # NoApplication
        BY <1>6, <3>7, NoApplicationAssumption DEF Inv, TypeOK
      <4>4. e.outcome = IF application'[n].verdict = "DRAW" THEN "DRAW"
                        ELSE IF application'[n].verdict = p THEN "WIN" ELSE "LOSS"
        BY <3>6, <4>3 DEF OutcomeFor
      <4> QED BY <2>3, <3>5, <3>7, <4>2, <4>3, <4>4
    <3>8. CASE n # m
      <4>1. application'[n] = application[n]
        BY <1>6, <3>8 DEF Inv, TypeOK
      <4>2. /\ {i \in DOMAIN changes'[p] : changes'[p][i].match = n}
                   = {i \in DOMAIN log : log[i].match = n}
            /\ \A i \in DOMAIN log : changes'[p][i] = log[i]
        BY <3>5, <3>6, <3>8
      <4> QED BY <2>1, <3>1, <4>1, <4>2
    <3> QED BY <3>7, <3>8
  <2> QED BY <2>2, <2>3
<1>12. ASSUME NEW g \in Handlers \ {h} PROVE CallTrue(pc[g], call[g])'
  <2>1. pc'[g] = pc[g] /\ call'[g] = call[g]
    BY <1>6, OthersStand DEF Inv, Done
  <2>2. CallTrue(pc[g], call[g]) /\ Meet("write", c, pc[g], call[g])
    BY <1>1, <1>3 DEF Inv
  <2>3. pc[g] \in Disputing => (call[g].match \notin crossed' => application'[call[g].match] = NoApplication)
    BY <1>2, <1>6, <2>2 DEF CallTrue, Meet, Rating, Inv, TypeOK
  <2> QED BY <1>6, <2>1, <2>2, <2>3 DEF CallTrue, matchVars
<1> QED BY <1>6, <1>8, <1>9, <1>10, <1>11, <1>12, CommitKeeps

-----------------------------------------------------------------------------
LEMMA OpenWriteKeeps ==
    ASSUME Inv, NEW h \in Handlers, OpenWrite(h) PROVE Inv'
<1>1. PICK c : c = call[h]
  OBVIOUS
<1>2. PICK m \in Matches : m = c.match
  BY <1>1, CallShape DEF OpenWrite, Inv, Disputing
<1>3. /\ pc[h] = "open" /\ Done(h) /\ dispute' = [dispute EXCEPT ![m] = "ACTIVE"]
      /\ UNCHANGED <<result, matured, ratingVars, crossed>>
  BY <1>1, <1>2 DEF OpenWrite
<1>4. CallTrue("open", c)
  BY <1>1, <1>3 DEF Inv
<1>5. Tables'
  BY <1>3 DEF Inv, TypeOK, Tables, ratingVars
<1>6. ResultsNamed' /\ CountedOnceForBoth'
  BY <1>3 DEF Inv, ResultsNamed, CountedOnceForBoth, ratingVars
<1>7. RatedIsSettled'
  BY <1>2, <1>3, <1>4 DEF Inv, TypeOK, RatedIsSettled, CallTrue, Disputing, ratingVars
<1>8. ASSUME NEW g \in Handlers \ {h} PROVE CallTrue(pc[g], call[g])'
  <2>1. pc'[g] = pc[g] /\ call'[g] = call[g]
    BY <1>3, OthersStand DEF Inv, Done
  <2>2. CallTrue(pc[g], call[g]) /\ Meet(pc[g], call[g], "open", c)
    BY <1>1, <1>3 DEF Inv
  <2>3. pc[g] \in Rating => (call[g].match \notin crossed' => dispute'[call[g].match] # "ACTIVE")
    BY <1>2, <1>3, <2>2 DEF CallTrue, Meet, Disputing, Inv, TypeOK
  <2> QED BY <1>3, <2>1, <2>2, <2>3 DEF CallTrue, ratingVars
<1> QED BY <1>3, <1>5, <1>6, <1>7, <1>8, CommitKeeps

\* The result of a resolution.
LEMMA ResolveWriteKeeps ==
    ASSUME Inv, NEW h \in Handlers, ResolveWrite(h) PROVE Inv'
<1>1. PICK c : c = call[h]
  OBVIOUS
<1>2. PICK m \in Matches : m = c.match
  BY <1>1, CallShape DEF ResolveWrite, Inv, Disputing
<1>3. PICK new : new =
          CASE c.decision = "CORRECT_RESULT" ->
                   [verdict |-> c.verdict, version |-> result[m].version + 1, status |-> "ADMIN_RESOLVED"]
            [] c.decision = "VOID_MATCH" ->
                   [verdict |-> "NOBODY", version |-> result[m].version + 1, status |-> "VOIDED"]
            [] OTHER -> result[m]
  OBVIOUS
<1>4. /\ pc[h] = "resolve" /\ Done(h) /\ dispute' = [dispute EXCEPT ![m] = "OVER"]
      /\ result' = [result EXCEPT ![m] = new]
      /\ UNCHANGED <<matured, ratingVars, crossed>>
  BY <1>1, <1>2, <1>3 DEF ResolveWrite
<1>5. CallTrue("resolve", c) /\ IsCall("resolve", c)
  BY <1>1, <1>4 DEF Inv, TypeOK
<1>6. new \in Results /\ (new.status # "VOIDED" => new.verdict \in Verdicts)
  <2>1. result[m] \in Results /\ (result[m].status # "VOIDED" => result[m].verdict \in Verdicts)
    BY DEF Inv, TypeOK, ResultsNamed
  <2>2. result[m].version + 1 \in Nat
    BY <2>1 DEF Results
  <2>3. CASE c.decision = "CORRECT_RESULT"
    BY <1>3, <1>5, <2>2, <2>3 DEF Results, CallTrue
  <2>4. CASE c.decision = "VOID_MATCH"
    BY <1>3, <2>2, <2>4 DEF Results
  <2>5. CASE c.decision \notin {"CORRECT_RESULT", "VOID_MATCH"}
    BY <1>3, <2>1, <2>5
  <2> QED BY <2>3, <2>4, <2>5
<1>7. Tables'
  BY <1>4, <1>6 DEF Inv, TypeOK, Tables, ratingVars
<1>8. ResultsNamed'
  BY <1>4, <1>6 DEF Inv, TypeOK, ResultsNamed
<1>9. CountedOnceForBoth'
  BY <1>4 DEF Inv, CountedOnceForBoth, ratingVars
<1>10. RatedIsSettled'
  BY <1>2, <1>4, <1>5 DEF Inv, TypeOK, RatedIsSettled, CallTrue, Disputing, ratingVars
<1>11. ASSUME NEW g \in Handlers \ {h} PROVE CallTrue(pc[g], call[g])'
  <2>1. pc'[g] = pc[g] /\ call'[g] = call[g]
    BY <1>4, OthersStand DEF Inv, Done
  <2>2. CallTrue(pc[g], call[g]) /\ Meet(pc[g], call[g], "resolve", c)
    BY <1>1, <1>4 DEF Inv
  <2>3. pc[g] \in Rating =>
            (call[g].match \notin crossed' => /\ dispute'[call[g].match] # "ACTIVE"
                                              /\ call[g].result = result'[call[g].match])
    BY <1>2, <1>4, <2>2 DEF CallTrue, Meet, Disputing, Inv, TypeOK
  <2> QED BY <1>4, <2>1, <2>2, <2>3 DEF CallTrue, ratingVars
<1> QED BY <1>4, <1>7, <1>8, <1>9, <1>10, <1>11, CommitKeeps

\* Nobody's call depends on a dispute that ends or a delay that passes.
LEMMA ClockKeeps ==
    ASSUME Inv, matured' \subseteq Matches, dispute' \in [Matches -> {"NONE", "ACTIVE", "OVER"}],
           \A m \in Matches : dispute'[m] = "ACTIVE" => dispute[m] = "ACTIVE",
           UNCHANGED <<result, ratingVars, crossed, pc, call>>
    PROVE  Inv'
<1>1. TypeOK'
  <2>1. \A h \in Handlers : IsCall(pc[h], call[h])'
    BY DEF Inv, TypeOK, IsCall
  <2> QED BY <2>1 DEF Inv, TypeOK, ratingVars
<1>2. ResultsNamed' /\ CountedOnceForBoth' /\ RatedIsSettled'
  BY DEF Inv, ResultsNamed, CountedOnceForBoth, RatedIsSettled, ratingVars
<1>3. \A h \in Handlers : CallTrue(pc[h], call[h])'
  <2> TAKE h \in Handlers
  <2>1. pc[h] \in Rating => call[h].match \in Matches
    BY CallShape DEF Inv
  <2> QED BY <2>1 DEF Inv, CallTrue, ratingVars
<1>4. \A g, h \in Handlers : Meet(pc[g], call[g], pc[h], call[h])'
  BY DEF Inv, Meet
<1> QED BY <1>1, <1>2, <1>3, <1>4 DEF Inv

LEMMA InitInv == Init => Inv
<1> SUFFICES ASSUME Init PROVE Inv
  OBVIOUS
<1>1. NewRow \in Rows
  BY BoundsAssumption DEF NewRow, Rows, Ratings
<1>2. TypeOK
  <2>1. \A m \in Matches : result[m] \in Results
    BY DEF Init, Results
  <2>2. \A p \in Players : changes[p] \in Seq(Changes)
    BY EmptySeq DEF Init
  <2>3. \A h \in Handlers : IsCall(pc[h], call[h])
    BY DEF Init, IsCall, Rating
  <2> QED BY <1>1, <2>1, <2>2, <2>3 DEF Init, TypeOK
<1>3. ResultsNamed
  BY DEF Init, ResultsNamed, Verdicts
<1>4. CountedOnceForBoth
  <2>1. \A p \in Players : DOMAIN changes[p] = {}
    BY EmptySeq, LenProperties DEF Init
  <2> QED BY <2>1 DEF Init, CountedOnceForBoth
<1>5. RatedIsSettled
  BY DEF Init, RatedIsSettled
<1>6. \A h \in Handlers : CallTrue(pc[h], call[h])
  BY DEF Init, CallTrue, Rating, Disputing
<1>7. \A g, h \in Handlers : Meet(pc[g], call[g], pc[h], call[h])
  BY DEF Init, Meet, Rating
<1> QED BY <1>2, <1>3, <1>4, <1>5, <1>6, <1>7 DEF Inv

LEMMA NextKeepsInv == Inv /\ [Next]_vars => Inv'
<1> SUFFICES ASSUME Inv, [Next]_vars PROVE Inv'
  OBVIOUS
<1>1. CASE Mature
  BY <1>1, ClockKeeps DEF Mature, Inv, TypeOK
<1>2. ASSUME NEW m \in Matches, CancelDispute(m) PROVE Inv'
  BY <1>2, ClockKeeps DEF CancelDispute, Inv, TypeOK
<1>3. ASSUME NEW h \in Handlers, Handle(h) PROVE Inv'
  <2>1. ASSUME NEW m \in Matches, NEW k \in Keys, ApplyBegin(h, m, k) PROVE Inv'
    BY <2>1, ApplyBeginKeeps
  <2>2. ASSUME NEW m \in Matches, OpenCheck(h, m) PROVE Inv'
    BY <2>2, OpenCheckKeeps
  <2>3. ASSUME NEW m \in Matches,
               NEW decision \in {"REJECT_DISPUTE", "UPHOLD_RESULT", "VOID_MATCH"},
               ResolveRead(h, m, decision, "NOBODY")
        PROVE  Inv'
    BY <2>3, ResolveReadKeeps
  <2>4. ASSUME NEW m \in Matches, NEW verdict \in Pairing[m] \cup {"DRAW"},
               ResolveRead(h, m, "CORRECT_RESULT", verdict)
        PROVE  Inv'
    <3>1. verdict \in Verdicts
      BY PairingAssumption DEF Verdicts
    <3> QED BY <2>4, <3>1, ResolveReadKeeps
  <2>5. CASE ReadRatings(h)
    BY <2>5, ReadRatingsKeeps
  <2>6. CASE ApplyCommit(h)
    BY <2>6, ApplyCommitKeeps
  <2>7. CASE OpenWrite(h)
    BY <2>7, OpenWriteKeeps
  <2>8. CASE ResolveWrite(h)
    BY <2>8, ResolveWriteKeeps
  <2>9. CASE Abort(h)
    BY <2>9, AbortKeeps
  <2> QED BY <1>3, <2>1, <2>2, <2>3, <2>4, <2>5, <2>6, <2>7, <2>8, <2>9 DEF Handle
<1>4. CASE UNCHANGED vars
  BY <1>4, ClockKeeps DEF vars, matchVars, ratingVars, Inv, TypeOK
<1> QED BY <1>1, <1>2, <1>3, <1>4 DEF Next

LEMMA SpecInv == Spec => []Inv
BY InitInv, NextKeepsInv, PTL DEF Spec

-----------------------------------------------------------------------------
\* The history of a player, of which HistoryRebuilds speaks.

Levels(log) == {InitialRating} \cup {log[i].after : i \in DOMAIN log}
Times(log, outcome) == {i \in DOMAIN log : log[i].outcome = outcome}

Chained(log) ==
    \A i \in DOMAIN log : log[i].before = IF i = 1 THEN InitialRating ELSE log[i - 1].after
Tallied(row, log) ==
    /\ row.rating = IF log = <<>> THEN InitialRating ELSE log[Len(log)].after
    /\ row.played = Len(log) /\ row.provisional = Lowered(Len(log), ProvisionalCount)
Scored(row, log) ==
    /\ row.wins = Cardinality(Times(log, "WIN"))
    /\ row.losses = Cardinality(Times(log, "LOSS"))
    /\ row.draws = Cardinality(Times(log, "DRAW"))
Spanned(row, log) ==
    /\ row.highest \in Levels(log) /\ row.lowest \in Levels(log)
    /\ \A level \in Levels(log) : row.lowest =< level /\ level =< row.highest
Rebuilt(row, log) == Chained(log) /\ Tallied(row, log) /\ Scored(row, log) /\ Spanned(row, log)

\* What a handler has read of a rating is the rating, or is behind it.
Fresh(step, c) ==
    step = "write" =>
        \A p \in Pairing[c.match] :
            /\ c.rows[p].version =< rating[p].version
            /\ c.rows[p].version = rating[p].version => c.rows[p] = rating[p]

\* The inductive invariant of the histories, given the one above.
HistoryInv ==
    /\ \A p \in Players : Rebuilt(rating[p], changes[p])
    /\ \A h \in Handlers : Fresh(pc[h], call[h])

LEMMA RebuiltIsHistory ==
    (\A p \in Players : Rebuilt(rating[p], changes[p])) => HistoryRebuilds
<1> SUFFICES ASSUME \A p \in Players : Rebuilt(rating[p], changes[p]), NEW p \in Players
             PROVE  LET row == rating[p]
                        log == changes[p]
                        levels == {InitialRating} \cup {c.after : c \in HistoryOf(p)}
                    IN /\ \A i \in DOMAIN log :
                              log[i].before = IF i = 1 THEN InitialRating ELSE log[i - 1].after
                       /\ row.rating = IF log = <<>> THEN InitialRating ELSE log[Len(log)].after
                       /\ row.played = Len(log)
                       /\ row.provisional = Lowered(Len(log), ProvisionalCount)
                       /\ row.wins = With(p, "WIN") /\ row.losses = With(p, "LOSS")
                       /\ row.draws = With(p, "DRAW")
                       /\ row.highest \in levels /\ row.lowest \in levels
                       /\ \A level \in levels : row.lowest =< level /\ level =< row.highest
  BY DEF HistoryRebuilds
<1>1. {InitialRating} \cup {c.after : c \in HistoryOf(p)} = Levels(changes[p])
  BY DEF HistoryOf, Levels
<1>2. \A outcome : With(p, outcome) = Cardinality(Times(changes[p], outcome))
  BY DEF With, Times
<1> QED BY <1>1, <1>2 DEF Rebuilt, Chained, Tallied, Scored, Spanned

\* One more change: the number of each outcome.
LEMMA AppendCounts ==
    ASSUME NEW log \in Seq(Changes), NEW e \in Changes, NEW outcome
    PROVE  Cardinality(Times(Append(log, e), outcome)) =
               Cardinality(Times(log, outcome)) + Count(e.outcome = outcome)
<1>1. PICK n \in Nat : n = Len(log) /\ DOMAIN log = 1..n
  BY LenProperties
<1>2. /\ DOMAIN Append(log, e) = DOMAIN log \cup {n + 1} /\ n + 1 \notin DOMAIN log
      /\ Append(log, e)[n + 1] = e /\ \A i \in DOMAIN log : Append(log, e)[i] = log[i]
  BY <1>1, AppendLooks
<1>3. IsFiniteSet(Times(log, outcome)) /\ Cardinality(Times(log, outcome)) \in Nat
  <2>1. IsFiniteSet(1..n)
    BY FS_Interval
  <2>2. Times(log, outcome) \subseteq 1..n
    BY <1>1 DEF Times
  <2> QED BY <2>1, <2>2, FS_Subset, FS_CardinalityType
<1>4. CASE e.outcome = outcome
  <2>1. Times(Append(log, e), outcome) = Times(log, outcome) \cup {n + 1}
    BY <1>2, <1>4 DEF Times
  <2>2. n + 1 \notin Times(log, outcome)
    BY <1>2 DEF Times
  <2>3. Cardinality(Times(log, outcome) \cup {n + 1}) = Cardinality(Times(log, outcome)) + 1
    BY <1>3, <2>2, FS_AddElement
  <2> QED BY <1>4, <2>1, <2>3 DEF Count
<1>5. CASE e.outcome # outcome
  <2>1. Times(Append(log, e), outcome) = Times(log, outcome)
    BY <1>2, <1>5 DEF Times
  <2> QED BY <1>3, <1>5, <2>1 DEF Count
<1> QED BY <1>4, <1>5

\* One more change, from the rating that the row has, keeps it rebuilt.
LEMMA AppendRebuilds ==
    ASSUME NEW row \in Rows, NEW log \in Seq(Changes), NEW e \in Changes,
           Rebuilt(row, log), e.before = row.rating
    PROVE  Rebuilt(Applied(row, row, e.outcome, e.after), Append(log, e))
<1>1. PICK n \in Nat : n = Len(log) /\ DOMAIN log = 1..n
  BY LenProperties
<1>2. PICK next : next = Append(log, e)
  OBVIOUS
<1>3. /\ DOMAIN next = DOMAIN log \cup {n + 1} /\ n + 1 \notin DOMAIN log
      /\ next[n + 1] = e /\ \A i \in DOMAIN log : next[i] = log[i]
  BY <1>1, <1>2, AppendLooks
<1>4. next # <<>> /\ Len(next) = n + 1
  BY <1>1, <1>2, AppendProperties
<1>5. PICK new : new = Applied(row, row, e.outcome, e.after)
  OBVIOUS
<1>6. /\ new.rating = e.after /\ new.played = row.played + 1
      /\ new.wins = row.wins + Count(e.outcome = "WIN")
      /\ new.losses = row.losses + Count(e.outcome = "LOSS")
      /\ new.draws = row.draws + Count(e.outcome = "DRAW")
      /\ new.provisional = row.provisional + Count(row.provisional < ProvisionalCount)
      /\ new.highest = Raised(row.highest, e.after) /\ new.lowest = Lowered(row.lowest, e.after)
  BY <1>5 DEF Applied
<1>7. n = 0 <=> log = <<>>
  BY <1>1, EmptySeq
<1>8. row.rating = IF n = 0 THEN InitialRating ELSE log[n].after
  BY <1>1, <1>7 DEF Rebuilt, Tallied
<1>9. Chained(next)
  <2> SUFFICES ASSUME NEW i \in DOMAIN next
               PROVE  next[i].before = IF i = 1 THEN InitialRating ELSE next[i - 1].after
    BY DEF Chained
  <2>1. CASE i = n + 1
    <3>1. CASE n = 0
      BY <1>3, <1>8, <2>1, <3>1
    <3>2. CASE n # 0
      <4>1. i # 1 /\ i - 1 = n /\ n \in DOMAIN log
        BY <1>1, <2>1, <3>2
      <4> QED BY <1>3, <1>8, <2>1, <3>2, <4>1
    <3> QED BY <3>1, <3>2
  <2>2. CASE i \in DOMAIN log
    <3>1. i # 1 => i - 1 \in DOMAIN log
      BY <1>1, <2>2
    <3>2. log[i].before = IF i = 1 THEN InitialRating ELSE log[i - 1].after
      BY <2>2 DEF Rebuilt, Chained
    <3> QED BY <1>3, <2>2, <3>1, <3>2
  <2> QED BY <1>3, <2>1, <2>2
<1>10. Tallied(new, next)
  <2>1. row.played = n /\ row.provisional = Lowered(n, ProvisionalCount)
    BY <1>1 DEF Rebuilt, Tallied
  <2>2. new.provisional = Lowered(n + 1, ProvisionalCount)
    BY <1>6, <2>1, ProvisionalAssumption DEF Lowered, Count
  <2> QED BY <1>3, <1>4, <1>6, <2>1, <2>2 DEF Tallied
<1>11. Scored(new, next)
  <2>1. \A outcome : Cardinality(Times(next, outcome)) =
                         Cardinality(Times(log, outcome)) + Count(e.outcome = outcome)
    BY <1>2, AppendCounts
  <2> QED BY <1>6, <2>1 DEF Rebuilt, Scored
<1>12. Spanned(new, next)
  <2>1. Levels(next) = Levels(log) \cup {e.after}
    BY <1>3 DEF Levels
  <2>2. \A level \in Levels(log) : level \in Int
    <3>1. \A i \in DOMAIN log : log[i] \in Changes
      BY <1>1, ElementOfSeq
    <3> QED BY <3>1, BoundsAssumption DEF Levels, Changes, Ratings
  <2>3. e.after \in Int /\ row.highest \in Int /\ row.lowest \in Int
    BY BoundsAssumption DEF Changes, Rows, Ratings
  <2>4. /\ row.highest \in Levels(log) /\ row.lowest \in Levels(log)
        /\ \A level \in Levels(log) : row.lowest =< level /\ level =< row.highest
    BY DEF Rebuilt, Spanned
  <2>5. new.highest \in Levels(next) /\ new.lowest \in Levels(next)
    BY <1>6, <2>1, <2>4 DEF Raised, Lowered
  <2>6. ASSUME NEW level \in Levels(next) PROVE new.lowest =< level /\ level =< new.highest
    <3>1. CASE level = e.after
      BY <1>6, <2>3, <3>1 DEF Raised, Lowered
    <3>2. CASE level \in Levels(log)
      BY <1>6, <2>2, <2>3, <2>4, <3>2 DEF Raised, Lowered
    <3> QED BY <2>1, <3>1, <3>2
  <2> QED BY <2>5, <2>6 DEF Spanned
<1> QED BY <1>2, <1>5, <1>9, <1>10, <1>11, <1>12 DEF Rebuilt

\* Where no rating changes, it is enough that the handler that moves is fresh.
LEMMA StandingKeepsHistory ==
    ASSUME Inv, HistoryInv, UNCHANGED ratingVars,
           \A h \in Handlers : pc'[h] = "write" =>
               (pc[h] = "write" /\ call'[h] = call[h]) \/ Fresh(pc[h], call[h])'
    PROVE  HistoryInv'
BY DEF HistoryInv, Fresh, ratingVars

LEMMA ReadRatingsKeepsHistory ==
    ASSUME Inv, HistoryInv, NEW h \in Handlers, ReadRatings(h) PROVE HistoryInv'
<1>1. PICK old : old = call[h]
  OBVIOUS
<1>2. PICK c : c = [match |-> old.match, key |-> old.key, result |-> old.result,
                    rows |-> [p \in Pairing[old.match] |-> rating[p]]]
  OBVIOUS
<1>3. pc[h] = "rate" /\ Become(h, "write", c) /\ UNCHANGED ratingVars
  BY <1>1, <1>2 DEF ReadRatings
<1>4. call'[h] = c /\ pc'[h] = "write"
  BY <1>3 DEF Become, Inv, TypeOK
<1>5. old.match \in Matches
  BY <1>1, <1>3, CallShape DEF Inv, Rating
<1>6. \A p \in Pairing[old.match] : rating[p].version \in Nat
  BY <1>5, PairingAssumption DEF Inv, TypeOK, Rows
<1>7. c.match = old.match /\ \A p \in Pairing[old.match] : c.rows[p] = rating[p]
  BY <1>2
<1>8. Fresh("write", c)'
  BY <1>3, <1>6, <1>7 DEF Fresh, ratingVars
<1>9. Fresh(pc[h], call[h])'
  BY <1>4, <1>8 DEF Fresh
<1>10. \A g \in Handlers \ {h} : pc'[g] = pc[g] /\ call'[g] = call[g]
  BY <1>3, OthersStand DEF Inv
<1> QED BY <1>3, <1>9, <1>10, StandingKeepsHistory

LEMMA ApplyCommitKeepsHistory ==
    ASSUME Inv, HistoryInv, NEW h \in Handlers, ApplyCommit(h) PROVE HistoryInv'
<1>1. PICK c : c = call[h]
  OBVIOUS
<1>2. PICK m \in Matches : m = c.match
  BY <1>1, CallShape DEF ApplyCommit, Inv, Rating
<1>3. /\ pc[h] = "write" /\ Done(h)
      /\ \A p \in Pairing[m] : VersionKept(p, c.rows[p])
      /\ changes' = [p \in Players |->
             IF p \in Pairing[m] THEN Append(changes[p], ChangeOf(c, p)) ELSE changes[p]]
      /\ rating' = [p \in Players |->
             IF p \in Pairing[m]
               THEN Applied(rating[p], c.rows[p], ChangeOf(c, p).outcome, ChangeOf(c, p).after)
               ELSE rating[p]]
  BY <1>1, <1>2 DEF ApplyCommit
<1>4. \A p \in Pairing[m] : c.rows[p] = rating[p]
  BY <1>1, <1>2, <1>3 DEF HistoryInv, Fresh, VersionKept
<1>5. Pairing[m] \subseteq Players
  BY PairingAssumption
<1>6. ASSUME NEW p \in Pairing[m] PROVE ChangeOf(c, p) \in Changes
  BY <1>1, <1>2, <1>3, ChangeIsTyped
<1>7. ASSUME NEW p \in Players PROVE Rebuilt(rating[p], changes[p])'
  <2>1. Rebuilt(rating[p], changes[p]) /\ rating[p] \in Rows /\ changes[p] \in Seq(Changes)
    BY DEF HistoryInv, Inv, TypeOK
  <2>2. CASE p \in Pairing[m]
    <3>1. PICK e \in Changes : e = ChangeOf(c, p)
      BY <1>6, <2>2
    <3>2. e.before = rating[p].rating
      BY <1>4, <2>2, <3>1 DEF ChangeOf
    <3>3. /\ changes'[p] = Append(changes[p], e)
          /\ rating'[p] = Applied(rating[p], rating[p], e.outcome, e.after)
      BY <1>3, <1>4, <2>2, <3>1
    <3> QED BY <2>1, <3>2, <3>3, AppendRebuilds
  <2>3. CASE p \notin Pairing[m]
    BY <1>3, <2>1, <2>3
  <2> QED BY <2>2, <2>3
<1>8. ASSUME NEW g \in Handlers PROVE Fresh(pc[g], call[g])'
  <2>1. CASE g = h
    BY <1>3, <2>1 DEF Done, Become, Inv, TypeOK, Fresh
  <2>2. CASE g # h
    <3>1. pc'[g] = pc[g] /\ call'[g] = call[g]
      BY <1>3, <2>2, OthersStand DEF Inv, Done
    <3> SUFFICES ASSUME pc[g] = "write", NEW p \in Pairing[call[g].match]
                 PROVE  /\ call[g].rows[p].version =< rating'[p].version
                        /\ call[g].rows[p].version = rating'[p].version
                               => call[g].rows[p] = rating'[p]
      BY <3>1 DEF Fresh
    <3>2. /\ call[g].rows[p].version =< rating[p].version
          /\ call[g].rows[p].version = rating[p].version => call[g].rows[p] = rating[p]
      BY DEF HistoryInv, Fresh
    <3>3. call[g].match \in Matches /\ call[g].rows[p] \in Rows
      BY DEF Inv, TypeOK, IsCall, Rating
    <3>4. p \in Players
      BY <3>3, PairingAssumption
    <3>5. call[g].rows[p].version \in Nat /\ rating[p].version \in Nat
      BY <3>3, <3>4 DEF Inv, TypeOK, Rows
    <3>6. CASE p \in Pairing[m]
      <4>1. rating'[p].version = rating[p].version + 1
        BY <1>3, <3>4, <3>6 DEF Applied
      <4> QED BY <3>2, <3>5, <4>1
    <3>7. CASE p \notin Pairing[m]
      BY <1>3, <3>2, <3>4, <3>7
    <3> QED BY <3>6, <3>7
  <2> QED BY <2>1, <2>2
<1> QED BY <1>7, <1>8 DEF HistoryInv

\* Any other step leaves the ratings alone, and its handler outside "write".
LEMMA OtherStepKeepsHistory ==
    ASSUME Inv, HistoryInv, UNCHANGED ratingVars, NEW h \in Handlers, NEW step, NEW c,
           Become(h, step, c), step # "write"
    PROVE  HistoryInv'
<1>1. \A g \in Handlers \ {h} : pc'[g] = pc[g] /\ call'[g] = call[g]
  BY OthersStand DEF Inv
<1>2. pc'[h] # "write"
  BY DEF Become, Inv, TypeOK
<1> QED BY <1>1, <1>2, StandingKeepsHistory

LEMMA InitHistory == Init => HistoryInv
<1> SUFFICES ASSUME Init PROVE HistoryInv
  OBVIOUS
<1>1. ASSUME NEW p \in Players PROVE Rebuilt(rating[p], changes[p])
  <2>1. changes[p] = <<>> /\ rating[p] = NewRow
    BY DEF Init
  <2>2. DOMAIN changes[p] = {} /\ Len(changes[p]) = 0
    BY <2>1, EmptySeq, LenProperties
  <2>3. \A outcome : Cardinality(Times(changes[p], outcome)) = 0
    BY <2>2, FS_EmptySet DEF Times
  <2>4. Levels(changes[p]) = {InitialRating} /\ InitialRating =< InitialRating
    BY <2>2, BoundsAssumption DEF Levels, Ratings
  <2>5. Lowered(0, ProvisionalCount) = 0
    BY ProvisionalAssumption DEF Lowered
  <2> QED BY <2>1, <2>2, <2>3, <2>4, <2>5 DEF Rebuilt, Chained, Tallied, Scored, Spanned, NewRow
<1>2. \A h \in Handlers : Fresh(pc[h], call[h])
  BY DEF Init, Fresh
<1> QED BY <1>1, <1>2 DEF HistoryInv

LEMMA NextKeepsHistory == Inv /\ HistoryInv /\ [Next]_vars => HistoryInv'
<1> SUFFICES ASSUME Inv, HistoryInv, [Next]_vars PROVE HistoryInv'
  OBVIOUS
<1>1. ASSUME UNCHANGED ratingVars, UNCHANGED <<pc, call>> PROVE HistoryInv'
  BY <1>1, StandingKeepsHistory
<1>2. ASSUME NEW h \in Handlers, Handle(h) PROVE HistoryInv'
  <2>1. ASSUME NEW m \in Matches, NEW k \in Keys, ApplyBegin(h, m, k) PROVE HistoryInv'
    BY <2>1, OtherStepKeepsHistory DEF ApplyBegin
  <2>2. ASSUME NEW m \in Matches, OpenCheck(h, m) PROVE HistoryInv'
    BY <2>2, OtherStepKeepsHistory DEF OpenCheck
  <2>3. ASSUME NEW m \in Matches, NEW decision, NEW verdict, ResolveRead(h, m, decision, verdict)
        PROVE  HistoryInv'
    BY <2>3, OtherStepKeepsHistory DEF ResolveRead
  <2>4. CASE ReadRatings(h)
    BY <2>4, ReadRatingsKeepsHistory
  <2>5. CASE ApplyCommit(h)
    BY <2>5, ApplyCommitKeepsHistory
  <2>6. CASE OpenWrite(h)
    BY <2>6, OtherStepKeepsHistory DEF OpenWrite, Done
  <2>7. CASE ResolveWrite(h)
    BY <2>7, OtherStepKeepsHistory DEF ResolveWrite, Done
  <2>8. CASE Abort(h)
    BY <2>8, OtherStepKeepsHistory DEF Abort, Done
  <2> QED BY <1>2, <2>1, <2>2, <2>3, <2>4, <2>5, <2>6, <2>7, <2>8 DEF Handle
<1>3. CASE Mature
  BY <1>1, <1>3 DEF Mature
<1>4. ASSUME NEW m \in Matches, CancelDispute(m) PROVE HistoryInv'
  BY <1>1, <1>4 DEF CancelDispute
<1>5. CASE UNCHANGED vars
  BY <1>1, <1>5 DEF vars
<1> QED BY <1>2, <1>3, <1>4, <1>5 DEF Next

-----------------------------------------------------------------------------
\* Every variable holds values of its type: whatever integer the formula
\* yields, the ratings stay within the bounds of the policy.
THEOREM TypeCorrect == Spec => []TypeOK
<1>1. Inv => TypeOK
  BY DEF Inv
<1> QED BY SpecInv, <1>1, PTL

\* A match counts once for both of its players, in agreement, or not at all,
\* however often and under whatever keys its rating is asked for.
THEOREM CountsOnce == Spec => []CountedOnceForBoth
<1>1. Inv => CountedOnceForBoth
  BY DEF Inv
<1> QED BY SpecInv, <1>1, PTL

\* A rated match has no active dispute and was rated by its current result,
\* but for a match of which a dispute and a rating were under way at once.
THEOREM SettledWhenRated == Spec => []RatedIsSettled
<1>1. Inv => RatedIsSettled
  BY DEF Inv
<1> QED BY SpecInv, <1>1, PTL

\* No update of a rating is lost: the row of a player is what replaying the
\* history of the player gives, each change from where the last one ended.
THEOREM HistoryReplays == Spec => []HistoryRebuilds
<1>1. Inv /\ HistoryInv /\ [Next]_vars /\ Inv' => HistoryInv'
  BY NextKeepsHistory
<1>2. HistoryInv => HistoryRebuilds
  BY RebuiltIsHistory DEF HistoryInv
<1> QED BY SpecInv, InitHistory, <1>1, <1>2, PTL DEF Spec
=============================================================================
