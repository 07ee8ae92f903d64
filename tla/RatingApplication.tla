-------------------------- MODULE RatingApplication --------------------------
(***************************************************************************)
(* The ratings of players and the completed matches that are applied to    *)
(* them (packages/rating), with the disputes that compete with an          *)
(* application for the result of a match.                                  *)
(*                                                                         *)
(* An application is one transaction of three steps: the match is read,    *)
(* the two ratings are read, and everything from the lock to COMMIT.  The  *)
(* Elo formula, floating point, is a parameter.                            *)
(***************************************************************************)
EXTENDS Integers, Sequences, FiniteSets

CONSTANTS
    Players,
    Matches,
    Pairing,            \* of each match: its two players
    Keys,               \* idempotency keys
    Handlers,           \* concurrent request handlers
    MinRating, MaxRating, InitialRating,
    ProvisionalCount,   \* the matches for which a player's rating is provisional
    ProvisionalK, EstablishedK,
    Elo(_, _, _, _),    \* rating after: from both ratings, K factor and outcome
    NoApplication,
    NoCall              \* "the handler is serving nothing"

ASSUME PairingAssumption ==
    /\ Pairing \in [Matches -> SUBSET Players]
    /\ \A m \in Matches : \E p, q \in Players : p # q /\ Pairing[m] = {p, q}
ASSUME PlayersAssumption == Players \cap {"DRAW", "NOBODY"} = {}
ASSUME BoundsAssumption ==
    /\ MinRating \in Int /\ MaxRating \in Int
    /\ InitialRating \in MinRating..MaxRating

ASSUME ProvisionalAssumption == ProvisionalCount \in Nat

Ratings == MinRating..MaxRating
Outcomes == {"WIN", "LOSS", "DRAW"}
Verdicts == Players \cup {"DRAW"}
Results == [verdict : Verdicts \cup {"NOBODY"}, version : Nat,
            status : {"CONFIRMED", "ADMIN_RESOLVED", "VOIDED"}]
Rows == [rating : Ratings, played : Nat, wins : Nat, losses : Nat, draws : Nat,
         provisional : Nat, highest : Ratings, lowest : Ratings, version : Nat]
Changes == [match : Matches, outcome : Outcomes, before : Ratings, after : Ratings]
Applications == [key : Keys, verdict : Verdicts, version : Nat]

ASSUME EloAssumption ==
    \A own, other \in Ratings, factor \in {ProvisionalK, EstablishedK}, outcome \in Outcomes :
        Elo(own, other, factor, outcome) \in Int
ASSUME NoApplicationAssumption == NoApplication \notin Applications

VARIABLES
    result,         \* match_results of the matches, all of them decided
    dispute,        \* of each match: "NONE", "ACTIVE" or "OVER"
    matured,        \* the matches whose rating delay has passed
    rating,         \* player_ratings; an absent row reads like a new one
    changes,        \* player_rating_changes by player, as they are committed
    application,    \* match_rating_applications by match
    crossed,        \* history: matches with a dispute and an application at once
    pc, call        \* per handler: where its request is, and what it has read

matchVars == <<result, dispute, matured>>
ratingVars == <<rating, changes, application>>
vars == <<matchVars, ratingVars, crossed, pc, call>>

-----------------------------------------------------------------------------
(* Slips that the properties at the end must tell from the definitions      *)
(* below; no definition uses them.                                         *)

AnyVersion(p, read) == TRUE                                     \* for VersionKept
OnlyKeyFree(m, k) ==                                            \* for ApplicationFree
    \A n \in Matches : application[n] # NoApplication => application[n].key # k
UndisputedOrNot(m) ==                                           \* for Eligible
    /\ result[m].status \in {"CONFIRMED", "ADMIN_RESOLVED"}
    /\ m \in matured

-----------------------------------------------------------------------------
Opponent(m, p) == CHOOSE q \in Pairing[m] : q # p

OutcomeFor(m, p, verdict) ==
    IF verdict = "DRAW" THEN "DRAW" ELSE IF verdict = p THEN "WIN" ELSE "LOSS"

KFactor(played) == IF played < ProvisionalCount THEN ProvisionalK ELSE EstablishedK

\* calculateEloPair for one of the two.
RatingAfter(own, other, played, outcome) ==
    LET raw == Elo(own, other, KFactor(played), outcome)
    IN IF raw > MaxRating THEN MaxRating ELSE IF raw < MinRating THEN MinRating ELSE raw

NewRow == [rating |-> InitialRating, played |-> 0, wins |-> 0, losses |-> 0, draws |-> 0,
           provisional |-> 0, highest |-> InitialRating, lowest |-> InitialRating, version |-> 1]

Raised(a, b) == IF a > b THEN a ELSE b
Lowered(a, b) == IF a < b THEN a ELSE b
Count(yes) == IF yes THEN 1 ELSE 0

\* The counters are incremented where they are stored; the rest is written
\* as it follows from the read.
Applied(row, read, outcome, after) ==
    [rating |-> after, played |-> row.played + 1,
     wins |-> row.wins + Count(outcome = "WIN"),
     losses |-> row.losses + Count(outcome = "LOSS"),
     draws |-> row.draws + Count(outcome = "DRAW"),
     provisional |-> row.provisional + Count(read.provisional < ProvisionalCount),
     highest |-> Raised(read.highest, after), lowest |-> Lowered(read.lowest, after),
     version |-> row.version + 1]

\* The unique indexes on the match and on the key of an application.
ApplicationFree(m, k) ==
    /\ application[m] = NoApplication
    /\ \A n \in Matches : application[n] # NoApplication => application[n].key # k

\* updateMany with the version read, or the new row still to be inserted.
VersionKept(p, read) == rating[p].version = read.version

\* assertEligible.
Eligible(m) ==
    /\ result[m].status \in {"CONFIRMED", "ADMIN_RESOLVED"}
    /\ dispute[m] # "ACTIVE"
    /\ m \in matured \/ (result[m].status = "ADMIN_RESOLVED" /\ dispute[m] = "OVER")

\* Only a rejection is possible once the match is rated.
Resolvable(m, decision) == application[m] = NoApplication \/ decision = "REJECT_DISPUTE"

Become(h, step, read) ==
    /\ pc' = [pc EXCEPT ![h] = step]
    /\ call' = [call EXCEPT ![h] = read]

Done(h) == Become(h, "idle", NoCall)

Rating == {"rate", "write"}
Disputing == {"open", "resolve"}
Cross(m, steps) ==
    crossed' = IF \E h \in Handlers : pc[h] \in steps /\ call[h].match = m
                 THEN crossed \cup {m} ELSE crossed

\* Completed matches that nobody has rated or disputed yet.
Init ==
    /\ result \in [Matches -> [verdict : Verdicts, version : {1}, status : {"CONFIRMED"}]]
    /\ \A m \in Matches : result[m].verdict \in Pairing[m] \cup {"DRAW"}
    /\ dispute = [m \in Matches |-> "NONE"]
    /\ matured = {}
    /\ rating = [p \in Players |-> NewRow]
    /\ changes = [p \in Players |-> <<>>]
    /\ application = [m \in Matches |-> NoApplication]
    /\ crossed = {}
    /\ pc = [h \in Handlers |-> "idle"]
    /\ call = [h \in Handlers |-> NoCall]

-----------------------------------------------------------------------------
\* The rating delay of a match passes.
Mature ==
    /\ \E m \in Matches \ matured : matured' = matured \cup {m}
    /\ UNCHANGED <<result, dispute, ratingVars, crossed, pc, call>>

\* findMatchRatingContext: what later steps go by.
ContextOf(m) == result[m]

\* The match is looked at.  A key or a
\* match that is taken gets the stored application or a conflict for answer.
ApplyBegin(h, m, k) ==
    /\ pc[h] = "idle"
    /\ ApplicationFree(m, k) /\ Eligible(m)
    /\ Become(h, "rate", [match |-> m, key |-> k, result |-> ContextOf(m)])
    /\ Cross(m, Disputing)
    /\ UNCHANGED <<matchVars, ratingVars>>

\* ensurePlayerRating, twice.
ReadRatings(h) ==
    LET c == call[h]
    IN /\ pc[h] = "rate"
       /\ Become(h, "write", [match |-> c.match, key |-> c.key, result |-> c.result,
                              rows |-> [p \in Pairing[c.match] |-> rating[p]]])
       /\ UNCHANGED <<matchVars, ratingVars, crossed>>

\* applyRatingChanges, for one of the two.
ChangeOf(c, p) ==
    LET own == c.rows[p]
        outcome == OutcomeFor(c.match, p, c.result.verdict)
    IN [match |-> c.match, outcome |-> outcome, before |-> own.rating,
        after |-> RatingAfter(own.rating, c.rows[Opponent(c.match, p)].rating, own.played, outcome)]

ApplyCommit(h) ==
    LET c == call[h]
        pair == Pairing[c.match]
    IN /\ pc[h] = "write"
       /\ ApplicationFree(c.match, c.key)
       /\ \A p \in pair : VersionKept(p, c.rows[p])
       /\ application' = [application EXCEPT ![c.match] =
              [key |-> c.key, verdict |-> c.result.verdict, version |-> c.result.version]]
       /\ changes' = [p \in Players |->
              IF p \in pair THEN Append(changes[p], ChangeOf(c, p)) ELSE changes[p]]
       /\ rating' = [p \in Players |->
              IF p \in pair
                THEN Applied(rating[p], c.rows[p], ChangeOf(c, p).outcome, ChangeOf(c, p).after)
                ELSE rating[p]]
       /\ Done(h)
       /\ UNCHANGED <<matchVars, crossed>>

-----------------------------------------------------------------------------
\* MatchDisputeService.open: the look at the match; a bound: one dispute each.
OpenCheck(h, m) ==
    /\ pc[h] = "idle"
    /\ application[m] = NoApplication /\ dispute[m] = "NONE"
    /\ Become(h, "open", [match |-> m])
    /\ Cross(m, Rating)
    /\ UNCHANGED <<matchVars, ratingVars>>

\* The insert; the index on active disputes refuses a second one.
OpenWrite(h) ==
    LET m == call[h].match
    IN /\ pc[h] = "open"
       /\ dispute[m] = "NONE"
       /\ dispute' = [dispute EXCEPT ![m] = "ACTIVE"]
       /\ Done(h)
       /\ UNCHANGED <<result, matured, ratingVars, crossed>>

\* MatchDisputeService.cancel.
CancelDispute(m) ==
    /\ dispute[m] = "ACTIVE"
    /\ dispute' = [dispute EXCEPT ![m] = "OVER"]
    /\ UNCHANGED <<result, matured, ratingVars, crossed, pc, call>>

ResolveRead(h, m, decision, verdict) ==
    /\ pc[h] = "idle"
    /\ dispute[m] = "ACTIVE"
    /\ Resolvable(m, decision)
    /\ Become(h, "resolve", [match |-> m, decision |-> decision, verdict |-> verdict])
    /\ Cross(m, Rating)
    /\ UNCHANGED <<matchVars, ratingVars>>

\* The last update compares the version of the dispute: one that is over by
\* then rolls the resolution back.
ResolveWrite(h) ==
    LET c == call[h]
        m == c.match
        revised(verdict, status) ==
            [verdict |-> verdict, version |-> result[m].version + 1, status |-> status]
    IN /\ pc[h] = "resolve"
       /\ dispute[m] = "ACTIVE"
       /\ dispute' = [dispute EXCEPT ![m] = "OVER"]
       /\ result' = [result EXCEPT ![m] =
              CASE c.decision = "CORRECT_RESULT" -> revised(c.verdict, "ADMIN_RESOLVED")
                [] c.decision = "VOID_MATCH" -> revised("NOBODY", "VOIDED")
                [] OTHER -> result[m]]
       /\ Done(h)
       /\ UNCHANGED <<matured, ratingVars, crossed>>

\* A handler fails: its transaction lost a version, an index entry or a lock.
Abort(h) ==
    /\ pc[h] # "idle"
    /\ Done(h)
    /\ UNCHANGED <<matchVars, ratingVars, crossed>>

Handle(h) ==
    \/ \E m \in Matches :
           \/ \E k \in Keys : ApplyBegin(h, m, k)
           \/ OpenCheck(h, m)
           \/ \E decision \in {"REJECT_DISPUTE", "UPHOLD_RESULT", "VOID_MATCH"} :
                  ResolveRead(h, m, decision, "NOBODY")
           \/ \E verdict \in Pairing[m] \cup {"DRAW"} : ResolveRead(h, m, "CORRECT_RESULT", verdict)
    \/ ReadRatings(h) \/ ApplyCommit(h)
    \/ OpenWrite(h) \/ ResolveWrite(h)
    \/ Abort(h)

Next ==
    \/ Mature
    \/ \E m \in Matches : CancelDispute(m)
    \/ \E h \in Handlers : Handle(h)

Spec == Init /\ [][Next]_vars

-----------------------------------------------------------------------------
IsCall(step, c) ==
    /\ step = "idle" => c = NoCall
    /\ step \in Rating =>
           /\ c.match \in Matches /\ c.key \in Keys /\ c.result \in Results
    /\ step = "write" =>
           /\ DOMAIN c.rows = Pairing[c.match]
           /\ \A p \in Pairing[c.match] : c.rows[p] \in Rows
    /\ step = "open" => c \in [match : Matches]
    /\ step = "resolve" =>
           c \in [match : Matches, verdict : Verdicts \cup {"NOBODY"},
                  decision : {"REJECT_DISPUTE", "UPHOLD_RESULT", "CORRECT_RESULT", "VOID_MATCH"}]

\* Every variable holds values of its type; in particular no rating leaves the
\* bounds of the policy.
TypeOK ==
    /\ DOMAIN result = Matches /\ \A m \in Matches : result[m] \in Results
    /\ dispute \in [Matches -> {"NONE", "ACTIVE", "OVER"}]
    /\ matured \subseteq Matches /\ crossed \subseteq Matches
    /\ DOMAIN rating = Players /\ \A p \in Players : rating[p] \in Rows
    /\ DOMAIN changes = Players /\ \A p \in Players : changes[p] \in Seq(Changes)
    /\ DOMAIN application = Matches
    /\ \A m \in Matches : application[m] \in Applications \cup {NoApplication}
    /\ pc \in [Handlers -> {"idle"} \cup Rating \cup Disputing]
    /\ DOMAIN call = Handlers /\ \A h \in Handlers : IsCall(pc[h], call[h])

HistoryOf(p) == {changes[p][i] : i \in DOMAIN changes[p]}
With(p, outcome) == Cardinality({i \in DOMAIN changes[p] : changes[p][i].outcome = outcome})

\* No update of a rating is lost: each change starts from the rating the one
\* before it left, and the row is what replaying them gives.
HistoryRebuilds ==
    \A p \in Players :
        LET row == rating[p]
            log == changes[p]
            levels == {InitialRating} \cup {c.after : c \in HistoryOf(p)}
        IN /\ \A i \in DOMAIN log :
                  log[i].before = IF i = 1 THEN InitialRating ELSE log[i - 1].after
           /\ row.rating = IF log = <<>> THEN InitialRating ELSE log[Len(log)].after
           /\ row.played = Len(log) /\ row.provisional = Lowered(Len(log), ProvisionalCount)
           /\ row.wins = With(p, "WIN") /\ row.losses = With(p, "LOSS") /\ row.draws = With(p, "DRAW")
           /\ row.highest \in levels /\ row.lowest \in levels
           /\ \A level \in levels : row.lowest =< level /\ level =< row.highest

\* A match counts once, for both of its players and in agreement with each
\* other, or not at all: whatever keys and retries are used.
CountedOnceForBoth ==
    \A m \in Matches, p \in Players :
        LET of == {i \in DOMAIN changes[p] : changes[p][i].match = m}
        IN IF application[m] # NoApplication /\ p \in Pairing[m]
             THEN \E i \in of : /\ of = {i}
                                /\ changes[p][i].outcome =
                                       IF application[m].verdict = "DRAW" THEN "DRAW"
                                       ELSE IF application[m].verdict = p THEN "WIN" ELSE "LOSS"
             ELSE of = {}

\* "Once applied, opening a dispute or correcting/voiding the result is
\* rejected" (docs/adr/0025).  It takes a dispute and an application of one
\* match at the same time to end up otherwise.
RatedIsSettled ==
    \A m \in Matches \ crossed :
        application[m] # NoApplication => /\ dispute[m] # "ACTIVE"
                                          /\ application[m].version = result[m].version
=============================================================================
