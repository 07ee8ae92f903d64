-------------------------- MODULE MatchmakingProofs --------------------------
(* Theorems about Matchmaking for every number of requests, proposals and    *)
(* handlers and every profile.                                               *)
(*                                                                           *)
(* Why nobody plays without consent, though an acceptance writes back the    *)
(* acceptances it has read: whatever it writes has been consented to, for no *)
(* consent is withdrawn and no proposal changes its pair.                    *)
EXTENDS MCMatchmaking, FiniteSetTheorems, TLAPS

\* Acceptances that are stored were given, and an accepted proposal has both.
RowTrue(p) ==
    proposal[p] # NoProposal =>
        /\ \A r \in proposal[p].accepted : <<p, r>> \in consented
        /\ proposal[p].status = "ACCEPTED" => Agreed(p)

\* What a handler at `step', with the call c, may still rely on.
CallTrue(step, c) ==
    /\ step = "accept" =>
           /\ Holds(c.proposal, c.by)
           /\ c.accepted \subseteq proposal[c.proposal].pair
           /\ \A r \in c.accepted \ {c.by} : <<c.proposal, r>> \in consented
    /\ step = "finish" => proposal[c.proposal] # NoProposal
    /\ step = "cancel" => \A p \in c.proposals : proposal[p] # NoProposal
    /\ step \in {"accepted", "createMatch"} => Agreed(c)

\* The inductive invariant.
Inv ==
    /\ TypeOK
    /\ MatchedByConsent
    /\ \A p \in Proposals : RowTrue(p)
    /\ \A h \in Handlers : CallTrue(pc[h], call[h])

\* Consent is not withdrawn, and a proposal keeps its pair.
PairsKept ==
    /\ consented \subseteq consented'
    /\ \A p \in Proposals : proposal[p] # NoProposal =>
           proposal'[p] # NoProposal /\ proposal'[p].pair = proposal[p].pair

\* The tables are typed, as TypeOK has it.
Tables ==
    /\ request \in [Requests -> {"NEW"} \cup Active \cup Over]
    /\ DOMAIN proposal = Proposals
    /\ \A p \in Proposals : proposal[p] \in ProposalRows \cup {NoProposal}
    /\ lapsed \subseteq Requests \cup Proposals
    /\ match \subseteq Proposals
    /\ consented \subseteq Proposals \X Requests

tables == <<request, proposal, lapsed, match, consented>>

-----------------------------------------------------------------------------
LEMMA AgreedStays ==
    ASSUME PairsKept, NEW p \in Proposals, Agreed(p) PROVE Agreed(p)'
BY DEF PairsKept, Agreed

LEMMA CallStays ==
    ASSUME PairsKept, NEW step, NEW c, IsCall(step, c), CallTrue(step, c)
    PROVE  CallTrue(step, c)'
<1>1. CASE step = "accept"
  BY <1>1 DEF IsCall, CallTrue, PairsKept, Holds
<1>2. CASE step = "finish"
  BY <1>2 DEF IsCall, CallTrue, PairsKept
<1>3. CASE step = "cancel"
  BY <1>3 DEF IsCall, CallTrue, PairsKept
<1>4. CASE step \in {"accepted", "createMatch"}
  <2>1. c \in Proposals /\ Agreed(c)
    BY <1>4 DEF IsCall, CallTrue
  <2> QED BY <1>4, <2>1, AgreedStays DEF CallTrue
<1>5. CASE step \notin {"accept", "finish", "cancel", "accepted", "createMatch"}
  BY <1>5 DEF CallTrue
<1> QED BY <1>1, <1>2, <1>3, <1>4, <1>5

\* The handler h goes on while the tables change as they may.
LEMMA HandlerKeeps ==
    ASSUME Inv, NEW h \in Handlers, NEW step, NEW c, Become(h, step, c), IsCall(step, c),
           CallTrue(step, c)', PairsKept, Tables', MatchedByConsent',
           \A p \in Proposals : RowTrue(p)'
    PROVE  Inv'
<1>1. DOMAIN pc = Handlers /\ DOMAIN call = Handlers
  BY DEF Inv, TypeOK
<1>2. /\ pc' = [pc EXCEPT ![h] = step] /\ call' = [call EXCEPT ![h] = c]
      /\ DOMAIN pc' = Handlers /\ DOMAIN call' = Handlers
  BY <1>1 DEF Become
<1>3. ASSUME NEW g \in Handlers
      PROVE  IsCall(pc[g], call[g])' /\ CallTrue(pc[g], call[g])'
  <2>1. CASE g = h
    <3>1. pc'[g] = step /\ call'[g] = c
      BY <1>1, <1>2, <2>1
    <3> QED BY <3>1 DEF IsCall, CallTrue
  <2>2. CASE g # h
    <3>1. PICK s, d : s = pc[g] /\ d = call[g]
      OBVIOUS
    <3>2. pc'[g] = s /\ call'[g] = d
      BY <1>1, <1>2, <2>2, <3>1
    <3>3. IsCall(s, d) /\ CallTrue(s, d)
      BY <3>1 DEF Inv, TypeOK
    <3>4. CallTrue(s, d)'
      BY <3>3, CallStays
    <3> QED BY <3>2, <3>3, <3>4 DEF IsCall, CallTrue
  <2> QED BY <2>1, <2>2
<1>4. TypeOK'
  BY <1>2, <1>3 DEF TypeOK, Tables
<1> QED BY <1>3, <1>4 DEF Inv

\* A step that is only a read.
LEMMA ReadKeeps ==
    ASSUME Inv, NEW h \in Handlers, NEW step, NEW c, Become(h, step, c), IsCall(step, c),
           CallTrue(step, c), UNCHANGED tables
    PROVE  Inv'
<1>1. PairsKept /\ Tables'
  BY DEF Inv, TypeOK, Tables, PairsKept, tables
<1>2. MatchedByConsent' /\ \A p \in Proposals : RowTrue(p)'
  BY DEF Inv, MatchedByConsent, RowTrue, Agreed, Holds, tables
<1>3. CallTrue(step, c)'
  BY <1>1, CallStays
<1> QED BY <1>1, <1>2, <1>3, HandlerKeeps

LEMMA ConsentStays ==
    ASSUME Inv, PairsKept,
           \A p \in match' : p \in match \/ Agreed(p)',
           \A r \in Requests : request'[r] = "MATCHED" =>
               request[r] = "MATCHED" \/ \E p \in Proposals : Holds(p, r)' /\ Agreed(p)'
    PROVE  MatchedByConsent'
<1>1. ASSUME NEW p \in match' PROVE Agreed(p)'
  BY <1>1, AgreedStays DEF Inv, TypeOK, MatchedByConsent
<1>2. ASSUME NEW r \in Requests, request'[r] = "MATCHED"
      PROVE  \E p \in Proposals : Holds(p, r)' /\ Agreed(p)'
  <2>1. CASE request[r] = "MATCHED"
    <3>1. PICK p \in Proposals : Holds(p, r) /\ Agreed(p)
      BY <2>1 DEF Inv, MatchedByConsent
    <3>2. Holds(p, r)' /\ Agreed(p)'
      BY <3>1, AgreedStays DEF PairsKept, Holds
    <3> QED BY <3>2
  <2>2. CASE request[r] # "MATCHED"
    BY <1>2, <2>2
  <2> QED BY <2>1, <2>2
<1> QED BY <1>1, <1>2 DEF MatchedByConsent

LEMMA RowStays ==
    ASSUME PairsKept, NEW p \in Proposals, RowTrue(p), proposal'[p] = proposal[p]
    PROVE  RowTrue(p)'
<1>1. Agreed(p) => Agreed(p)'
  BY AgreedStays
<1> QED BY <1>1 DEF RowTrue, PairsKept

LEMMA IdleCall == IsCall("idle", NoCall) /\ CallTrue("idle", NoCall) /\ CallTrue("idle", NoCall)'
BY DEF IsCall, CallTrue

\* A step that changes requests only, and matches none.
LEMMA RequestsKeep ==
    ASSUME Inv, NEW h \in Handlers, NEW step, NEW c, Become(h, step, c), IsCall(step, c),
           CallTrue(step, c), UNCHANGED <<proposal, lapsed, match, consented>>,
           request' \in [Requests -> {"NEW"} \cup Active \cup Over],
           \A r \in Requests : request'[r] = "MATCHED" => request[r] = "MATCHED"
    PROVE  Inv'
<1>1. PairsKept /\ Tables'
  BY DEF Inv, TypeOK, Tables, PairsKept
<1>2. MatchedByConsent'
  BY <1>1, ConsentStays DEF Inv
<1>3. \A p \in Proposals : RowTrue(p)'
  BY <1>1, RowStays DEF Inv
<1>4. CallTrue(step, c)'
  BY <1>1, CallStays
<1> QED BY <1>1, <1>2, <1>3, <1>4, HandlerKeeps

\* A step outside the handlers that matches no request.
LEMMA ClockKeeps ==
    ASSUME Inv, UNCHANGED <<proposal, match, consented, pc, call>>,
           lapsed' \subseteq Requests \cup Proposals,
           request' \in [Requests -> {"NEW"} \cup Active \cup Over],
           \A r \in Requests : request'[r] = "MATCHED" => request[r] = "MATCHED"
    PROVE  Inv'
<1>1. PairsKept
  BY DEF Inv, TypeOK, PairsKept
<1>2. MatchedByConsent'
  BY <1>1, ConsentStays DEF Inv
<1>3. \A p \in Proposals : RowTrue(p)'
  BY <1>1, RowStays DEF Inv
<1>4. ASSUME NEW h \in Handlers PROVE IsCall(pc[h], call[h])' /\ CallTrue(pc[h], call[h])'
  <2>1. PICK s, d : s = pc[h] /\ d = call[h]
    OBVIOUS
  <2>2. IsCall(s, d) /\ CallTrue(s, d)
    BY <2>1 DEF Inv, TypeOK
  <2>3. CallTrue(s, d)'
    BY <1>1, <2>2, CallStays
  <2> QED BY <2>1, <2>2, <2>3 DEF IsCall, CallTrue
<1>5. TypeOK'
  BY <1>4 DEF Inv, TypeOK
<1> QED BY <1>2, <1>3, <1>4, <1>5 DEF Inv

-----------------------------------------------------------------------------
LEMMA LapseKeeps == ASSUME Inv, Lapse PROVE Inv'
<1>1. lapsed' \subseteq Requests \cup Proposals
  BY DEF Lapse, Inv, TypeOK
<1>2. UNCHANGED <<request, proposal, match, consented, pc, call>>
  BY DEF Lapse
<1> QED BY <1>1, <1>2, ClockKeeps DEF Inv, TypeOK

LEMMA ExpireRequestsKeeps == ASSUME Inv, ExpireRequests PROVE Inv'
<1>1. PICK due \in SUBSET Requests :
          request' = [r \in Requests |-> IF r \in due THEN "EXPIRED" ELSE request[r]]
  BY DEF ExpireRequests
<1>2. UNCHANGED <<proposal, lapsed, match, consented, pc, call>>
  BY DEF ExpireRequests
<1>3. /\ request' \in [Requests -> {"NEW"} \cup Active \cup Over]
      /\ \A r \in Requests : request'[r] = "MATCHED" => request[r] = "MATCHED"
  BY <1>1 DEF Inv, TypeOK, Over
<1> QED BY <1>2, <1>3, ClockKeeps DEF Inv, TypeOK

LEMMA CreateRequestKeeps ==
    ASSUME Inv, NEW h \in Handlers, NEW r \in Requests, CreateRequest(h, r) PROVE Inv'
<1>1. IsCall("created", r) /\ CallTrue("created", r)
  BY DEF IsCall, CallTrue
<1>2. /\ request' \in [Requests -> {"NEW"} \cup Active \cup Over]
      /\ \A q \in Requests : request'[q] = "MATCHED" => request[q] = "MATCHED"
  BY DEF CreateRequest, Inv, TypeOK, Active
<1>3. Become(h, "created", r) /\ UNCHANGED <<proposal, lapsed, match, consented>>
  BY DEF CreateRequest
<1> QED BY <1>1, <1>2, <1>3, RequestsKeep

LEMMA BeginSearchKeeps ==
    ASSUME Inv, NEW h \in Handlers, BeginSearch(h) PROVE Inv'
<1>1. PICK r \in Requests : r = call[h]
  BY DEF BeginSearch, Inv, TypeOK, IsCall
<1>2. CASE request[r] = "PENDING"
  <2>1. IsCall("search", r) /\ CallTrue("search", r)
    BY DEF IsCall, CallTrue
  <2>2. /\ request' \in [Requests -> {"NEW"} \cup Active \cup Over]
        /\ \A q \in Requests : request'[q] = "MATCHED" => request[q] = "MATCHED"
    BY <1>1, <1>2 DEF BeginSearch, Inv, TypeOK, Active
  <2>3. Become(h, "search", r) /\ UNCHANGED <<proposal, lapsed, match, consented>>
    BY <1>1, <1>2 DEF BeginSearch
  <2> QED BY <2>1, <2>2, <2>3, RequestsKeep
<1>3. CASE request[r] # "PENDING"
  BY <1>1, <1>3, IdleCall, ReadKeeps DEF BeginSearch, Done, tables
<1> QED BY <1>2, <1>3

LEMMA FindBestCandidateKeeps ==
    ASSUME Inv, NEW h \in Handlers, FindBestCandidate(h) PROVE Inv'
<1>1. PICK r \in Requests : r = call[h]
  BY DEF FindBestCandidate, Inv, TypeOK, IsCall
<1>2. UNCHANGED tables
  BY DEF FindBestCandidate, tables
<1>3. CASE Done(h)
  BY <1>2, <1>3, IdleCall, ReadKeeps DEF Done
<1>4. ASSUME NEW c \in Candidates(r), Become(h, "propose", {r, c}) PROVE Inv'
  <2>1. PICK pair : pair = {r, c}
    OBVIOUS
  <2>2. c \in Requests /\ c # r
    BY DEF Candidates
  <2>3. Cardinality({r, c}) = 2
    <3>1. IsFiniteSet({r}) /\ Cardinality({r}) = 1
      BY FS_Singleton
    <3>2. {r, c} = {r} \cup {c} /\ c \notin {r}
      BY <2>2
    <3> QED BY <3>1, <3>2, FS_AddElement
  <2>4. pair \in Pairs
    BY <2>1, <2>2, <2>3 DEF Pairs
  <2>5. IsCall("propose", pair) /\ CallTrue("propose", pair)
    BY <2>4 DEF IsCall, CallTrue
  <2> QED BY <1>2, <1>4, <2>1, <2>5, ReadKeeps
<1> QED BY <1>1, <1>3, <1>4 DEF FindBestCandidate

LEMMA CreateProposalKeeps ==
    ASSUME Inv, NEW h \in Handlers, CreateProposal(h) PROVE Inv'
<1>1. PICK pair \in Pairs : pair = call[h]
  BY DEF CreateProposal, Inv, TypeOK, IsCall
<1>2. Become(h, "idle", NoCall) /\ UNCHANGED <<lapsed, match, consented>>
  BY DEF CreateProposal, Done
<1>3. CASE UNCHANGED <<request, proposal>>
  BY <1>2, <1>3, IdleCall, ReadKeeps DEF tables
<1>4. ASSUME NEW p \in Proposals, proposal[p] = NoProposal,
             proposal' = [proposal EXCEPT ![p] =
                 [pair |-> pair, accepted |-> {}, status |-> "PENDING"]],
             request' = [r \in Requests |-> IF r \in pair THEN "PROPOSED" ELSE request[r]]
      PROVE  Inv'
  <2>1. PICK row : row = [pair |-> pair, accepted |-> {}, status |-> "PENDING"]
    OBVIOUS
  <2>2. row \in ProposalRows /\ row.accepted = {} /\ row.status = "PENDING"
    BY <2>1 DEF ProposalRows
  <2>3. /\ proposal'[p] = row /\ DOMAIN proposal' = Proposals
        /\ \A q \in Proposals : q # p => proposal'[q] = proposal[q]
    BY <1>4, <2>1 DEF Inv, TypeOK
  <2>4. PairsKept
    BY <1>2, <1>4, <2>3 DEF PairsKept
  <2>5. /\ request' \in [Requests -> {"NEW"} \cup Active \cup Over]
        /\ \A r \in Requests : request'[r] = "MATCHED" => request[r] = "MATCHED"
    BY <1>4 DEF Inv, TypeOK, Active
  <2>6. Tables'
    BY <1>2, <2>2, <2>3, <2>5 DEF Inv, TypeOK, Tables
  <2>7. MatchedByConsent'
    BY <1>2, <2>4, <2>5, ConsentStays
  <2>8. ASSUME NEW q \in Proposals PROVE RowTrue(q)'
    <3>1. CASE q = p
      BY <2>2, <2>3, <3>1 DEF RowTrue
    <3>2. CASE q # p
      BY <2>3, <2>4, <3>2, RowStays DEF Inv
    <3> QED BY <3>1, <3>2
  <2> QED BY <1>2, <2>4, <2>6, <2>7, <2>8, IdleCall, HandlerKeeps
<1> QED BY <1>1, <1>3, <1>4 DEF CreateProposal

-----------------------------------------------------------------------------
LEMMA AcceptReadKeeps ==
    ASSUME Inv, NEW h \in Handlers, NEW p \in Proposals, NEW r \in Requests, AcceptRead(h, p, r)
    PROVE  Inv'
<1>1. UNCHANGED tables /\ Holds(p, r) /\ proposal[p] \in ProposalRows /\ RowTrue(p)
  BY DEF AcceptRead, tables, Inv, TypeOK, Holds
<1>2. CASE proposal[p].status = "ACCEPTED" /\ Become(h, "accepted", p)
  <2>1. IsCall("accepted", p) /\ CallTrue("accepted", p)
    BY <1>1, <1>2 DEF IsCall, CallTrue, RowTrue, Holds
  <2> QED BY <1>1, <1>2, <2>1, ReadKeeps
<1>3. CASE Become(h, "accept", [proposal |-> p, by |-> r, accepted |-> proposal[p].accepted \cup {r}])
  <2>1. PICK c : c = [proposal |-> p, by |-> r, accepted |-> proposal[p].accepted \cup {r}]
    OBVIOUS
  <2>2. proposal[p].accepted \subseteq proposal[p].pair /\ proposal[p].pair \subseteq Requests
    BY <1>1 DEF ProposalRows, Pairs
  <2>3. IsCall("accept", c)
    BY <2>1, <2>2 DEF IsCall
  <2>4. CallTrue("accept", c)
    BY <1>1, <2>1, <2>2 DEF CallTrue, RowTrue, Holds
  <2> QED BY <1>1, <1>3, <2>1, <2>3, <2>4, ReadKeeps
<1> QED BY <1>2, <1>3 DEF AcceptRead

\* What an acceptance that is to be written still relies on.
LEMMA AcceptCall ==
    ASSUME Inv, NEW h \in Handlers, pc[h] = "accept"
    PROVE  LET c == call[h]
               p == c.proposal
           IN /\ p \in Proposals /\ c.by \in Requests
              /\ proposal[p] # NoProposal /\ proposal[p] \in ProposalRows
              /\ c.accepted \subseteq proposal[p].pair
              /\ \A r \in c.accepted : <<p, r>> \in Consenting(h)
BY DEF Inv, TypeOK, IsCall, CallTrue, Holds, Consenting

LEMMA AcceptFirstKeeps ==
    ASSUME Inv, NEW h \in Handlers, AcceptFirst(h) PROVE Inv'
<1>1. Become(h, "idle", NoCall) /\ UNCHANGED <<request, lapsed, match>>
  BY DEF AcceptFirst, Done
<1>2. CASE UNCHANGED <<proposal, consented>>
  BY <1>1, <1>2, IdleCall, ReadKeeps DEF tables
<1>3. CASE /\ proposal[call[h].proposal].status # "ACCEPTED"
           /\ proposal' = Accepting(h) /\ consented' = Consenting(h)
  <2>1. PICK c : c = call[h]
    OBVIOUS
  <2>2. PICK p : p = c.proposal
    OBVIOUS
  <2>3. /\ p \in Proposals /\ c.by \in Requests /\ proposal[p] \in ProposalRows
        /\ proposal[p] # NoProposal /\ c.accepted \subseteq proposal[p].pair
        /\ \A r \in c.accepted : <<p, r>> \in consented'
    BY <1>3, <2>1, <2>2, AcceptCall DEF AcceptFirst
  <2>4. PICK row : row = [proposal[p] EXCEPT !.accepted = c.accepted]
    OBVIOUS
  <2>5. /\ row \in ProposalRows /\ row.accepted = c.accepted
        /\ row.pair = proposal[p].pair /\ row.status = proposal[p].status
    BY <2>3, <2>4 DEF ProposalRows, Pairs
  <2>6. /\ proposal'[p] = row /\ DOMAIN proposal' = Proposals
        /\ \A q \in Proposals : q # p => proposal'[q] = proposal[q]
    BY <1>3, <2>1, <2>2, <2>3, <2>4 DEF Inv, TypeOK, Accepting, ProposalRows
  <2>7. consented' = consented \cup {<<p, c.by>>}
    BY <1>3, <2>1, <2>2 DEF Consenting
  <2>8. PairsKept
    BY <2>5, <2>6, <2>7, NoProposalAssumption DEF PairsKept
  <2>9. Tables'
    BY <1>1, <2>3, <2>5, <2>6, <2>7 DEF Inv, TypeOK, Tables
  <2>10. MatchedByConsent'
    BY <1>1, <2>8, ConsentStays
  <2>11. ASSUME NEW q \in Proposals PROVE RowTrue(q)'
    <3>1. CASE q = p
      BY <1>3, <2>1, <2>2, <2>3, <2>5, <2>6, <3>1 DEF RowTrue
    <3>2. CASE q # p
      BY <2>6, <2>8, <3>2, RowStays DEF Inv
    <3> QED BY <3>1, <3>2
  <2> QED BY <1>1, <2>8, <2>9, <2>10, <2>11, IdleCall, HandlerKeeps
<1> QED BY <1>2, <1>3 DEF AcceptFirst

LEMMA AcceptLastKeeps ==
    ASSUME Inv, NEW h \in Handlers, AcceptLast(h) PROVE Inv'
<1>1. PICK c : c = call[h]
  OBVIOUS
<1>2. PICK p : p = c.proposal
  OBVIOUS
<1>3. /\ p \in Proposals /\ c.by \in Requests /\ proposal[p] \in ProposalRows
      /\ proposal[p] # NoProposal /\ c.accepted = proposal[p].pair
      /\ \A r \in c.accepted : <<p, r>> \in consented'
  BY <1>1, <1>2, AcceptCall DEF AcceptLast, Complete
<1>4. PICK row : row = [proposal[p] EXCEPT !.accepted = c.accepted, !.status = "ACCEPTED"]
  OBVIOUS
<1>5. /\ row \in ProposalRows /\ row.accepted = c.accepted
      /\ row.pair = proposal[p].pair /\ row.status = "ACCEPTED"
  BY <1>3, <1>4 DEF ProposalRows, Pairs
<1>6. /\ proposal'[p] = row /\ DOMAIN proposal' = Proposals
      /\ \A q \in Proposals : q # p => proposal'[q] = proposal[q]
  BY <1>1, <1>2, <1>3, <1>4 DEF AcceptLast, Inv, TypeOK, Accepting, ProposalRows
<1>7. /\ consented' = consented \cup {<<p, c.by>>} /\ UNCHANGED <<lapsed, match>>
      /\ Become(h, "accepted", p) /\ request' = Bound(proposal[p].pair)
  BY <1>1, <1>2 DEF AcceptLast, Consenting
<1>8. PairsKept
  BY <1>5, <1>6, <1>7, NoProposalAssumption DEF PairsKept
<1>9. Agreed(p)'
  BY <1>3, <1>5, <1>6, NoProposalAssumption DEF Agreed
<1>10. request' \in [Requests -> {"NEW"} \cup Active \cup Over]
  BY <1>7 DEF Inv, TypeOK, Bound, Over
<1>11. Tables'
  BY <1>3, <1>5, <1>6, <1>7, <1>10 DEF Inv, TypeOK, Tables
<1>12. MatchedByConsent'
  <2>1. ASSUME NEW r \in Requests, request'[r] = "MATCHED", request[r] # "MATCHED"
        PROVE  Holds(p, r)' /\ Agreed(p)'
    <3>1. r \in proposal[p].pair
      BY <1>7, <2>1 DEF Bound
    <3> QED BY <1>5, <1>6, <1>9, <3>1, NoProposalAssumption DEF Holds
  <2> QED BY <1>3, <1>7, <1>8, <2>1, ConsentStays
<1>13. ASSUME NEW q \in Proposals PROVE RowTrue(q)'
  <2>1. CASE q = p
    BY <1>3, <1>5, <1>6, <1>9, <2>1 DEF RowTrue
  <2>2. CASE q # p
    BY <1>6, <1>8, <2>2, RowStays DEF Inv
  <2> QED BY <2>1, <2>2
<1>14. IsCall("accepted", p) /\ CallTrue("accepted", p)'
  BY <1>3, <1>9 DEF IsCall, CallTrue
<1> QED BY <1>7, <1>8, <1>11, <1>12, <1>13, <1>14, HandlerKeeps

-----------------------------------------------------------------------------
LEMMA FinishReadKeeps ==
    ASSUME Inv, NEW h \in Handlers, NEW p \in Proposals, NEW outcome \in {"REJECTED", "EXPIRED"},
           FinishRead(h, p, outcome)
    PROVE  Inv'
<1>1. PICK c : c = [proposal |-> p, outcome |-> outcome, late |-> lapsed \cap proposal[p].pair]
  OBVIOUS
<1>2. Become(h, "finish", c) /\ UNCHANGED tables /\ proposal[p] # NoProposal
  BY <1>1 DEF FinishRead, tables
<1>3. proposal[p].pair \subseteq Requests
  BY <1>2 DEF Inv, TypeOK, ProposalRows, Pairs
<1>4. IsCall("finish", c) /\ CallTrue("finish", c)
  BY <1>1, <1>2, <1>3 DEF IsCall, CallTrue
<1> QED BY <1>2, <1>4, ReadKeeps

\* Restored matches nobody, and keeps the types.
LEMMA RestoredRequests ==
    ASSUME Inv, NEW pair, NEW late
    PROVE  /\ Restored(pair, late) \in [Requests -> {"NEW"} \cup Active \cup Over]
           /\ \A r \in Requests : Restored(pair, late)[r] = "MATCHED" => request[r] = "MATCHED"
BY DEF Restored, Inv, TypeOK, Active, Over

LEMMA FinishWriteKeeps ==
    ASSUME Inv, NEW h \in Handlers, FinishWrite(h) PROVE Inv'
<1>1. PICK c \in [proposal : Proposals, outcome : {"REJECTED", "EXPIRED"}, late : SUBSET Requests] :
          c = call[h]
  BY DEF FinishWrite, Inv, TypeOK, IsCall
<1>2. PICK p \in Proposals : p = c.proposal
  BY <1>1
<1>3. CallTrue("finish", c)
  BY <1>1 DEF FinishWrite, Inv
<1>4. proposal[p] \in ProposalRows /\ proposal[p] # NoProposal /\ RowTrue(p)
  BY <1>2, <1>3 DEF CallTrue, Inv, TypeOK
<1>5. PICK row : row = [proposal[p] EXCEPT !.status = c.outcome]
  OBVIOUS
<1>6. /\ row \in ProposalRows /\ row.accepted = proposal[p].accepted
      /\ row.pair = proposal[p].pair /\ row.status # "ACCEPTED"
  BY <1>1, <1>4, <1>5 DEF ProposalRows, Pairs
<1>7. /\ proposal'[p] = row /\ DOMAIN proposal' = Proposals
      /\ \A q \in Proposals : q # p => proposal'[q] = proposal[q]
  BY <1>1, <1>2, <1>5 DEF FinishWrite, Inv, TypeOK
<1>8. /\ Become(h, "idle", NoCall) /\ UNCHANGED <<lapsed, match, consented>>
      /\ request' = Restored(proposal[p].pair, c.late)
  BY <1>1, <1>2 DEF FinishWrite, Done
<1>9. PairsKept
  BY <1>6, <1>7, <1>8, NoProposalAssumption DEF PairsKept
<1>10. /\ request' \in [Requests -> {"NEW"} \cup Active \cup Over]
       /\ \A r \in Requests : request'[r] = "MATCHED" => request[r] = "MATCHED"
  BY <1>8, RestoredRequests
<1>11. Tables'
  BY <1>6, <1>7, <1>8, <1>10 DEF Inv, TypeOK, Tables
<1>12. MatchedByConsent'
  BY <1>8, <1>9, <1>10, ConsentStays
<1>13. ASSUME NEW q \in Proposals PROVE RowTrue(q)'
  <2>1. CASE q = p
    BY <1>4, <1>6, <1>7, <1>8, <2>1 DEF RowTrue
  <2>2. CASE q # p
    BY <1>7, <1>9, <2>2, RowStays DEF Inv
  <2> QED BY <2>1, <2>2
<1> QED BY <1>8, <1>9, <1>11, <1>12, <1>13, IdleCall, HandlerKeeps

LEMMA CancelReadKeeps ==
    ASSUME Inv, NEW h \in Handlers, NEW r \in Requests, CancelRead(h, r) PROVE Inv'
<1>1. Become(h, "cancelRequest", r) /\ UNCHANGED tables
  BY DEF CancelRead, tables
<1>2. IsCall("cancelRequest", r) /\ CallTrue("cancelRequest", r)
  BY DEF IsCall, CallTrue
<1> QED BY <1>1, <1>2, ReadKeeps

LEMMA CancelFindKeeps ==
    ASSUME Inv, NEW h \in Handlers, CancelFind(h) PROVE Inv'
<1>1. PICK r \in Requests : r = call[h]
  BY DEF CancelFind, Inv, TypeOK, IsCall
<1>2. PICK c : c = [request |-> r, proposals |-> PendingWith(r)]
  OBVIOUS
<1>3. Become(h, "cancel", c) /\ UNCHANGED tables
  BY <1>1, <1>2 DEF CancelFind, tables
<1>4. IsCall("cancel", c) /\ CallTrue("cancel", c)
  BY <1>2 DEF IsCall, CallTrue, PendingWith, Holds
<1> QED BY <1>3, <1>4, ReadKeeps

LEMMA CancelWriteKeeps ==
    ASSUME Inv, NEW h \in Handlers, CancelWrite(h) PROVE Inv'
<1>1. PICK c \in [request : Requests, proposals : SUBSET Proposals] : c = call[h]
  BY DEF CancelWrite, Inv, TypeOK, IsCall
<1>2. CallTrue("cancel", c)
  BY <1>1 DEF CancelWrite, Inv
<1>3. PICK others : others = (UNION {proposal[p].pair : p \in c.proposals}) \ {c.request}
  OBVIOUS
<1>4. /\ Become(h, "idle", NoCall) /\ UNCHANGED <<lapsed, match, consented>>
      /\ request' = [Restored(others, {}) EXCEPT ![c.request] = "CANCELLED"]
      /\ proposal' = [p \in Proposals |->
             IF p \in c.proposals THEN [proposal[p] EXCEPT !.status = "CANCELLED"]
                                  ELSE proposal[p]]
  BY <1>1, <1>3 DEF CancelWrite, Done
<1>5. ASSUME NEW p \in c.proposals
      PROVE  /\ proposal[p] # NoProposal /\ proposal'[p] \in ProposalRows
             /\ proposal'[p].pair = proposal[p].pair
             /\ proposal'[p].accepted = proposal[p].accepted
             /\ proposal'[p].status = "CANCELLED"
  <2>1. p \in Proposals /\ proposal[p] \in ProposalRows /\ proposal[p] # NoProposal
    BY <1>1, <1>2 DEF CallTrue, Inv, TypeOK
  <2> QED BY <1>4, <2>1 DEF ProposalRows, Pairs
<1>6. DOMAIN proposal' = Proposals /\ \A p \in Proposals \ c.proposals : proposal'[p] = proposal[p]
  BY <1>4
<1>7. PairsKept
  BY <1>4, <1>5, <1>6, NoProposalAssumption DEF PairsKept
<1>8. /\ request' \in [Requests -> {"NEW"} \cup Active \cup Over]
      /\ \A r \in Requests : request'[r] = "MATCHED" => request[r] = "MATCHED"
  BY <1>4, RestoredRequests DEF Over
<1>9. Tables'
  BY <1>4, <1>5, <1>6, <1>8 DEF Inv, TypeOK, Tables
<1>10. MatchedByConsent'
  BY <1>4, <1>7, <1>8, ConsentStays
<1>11. ASSUME NEW p \in Proposals PROVE RowTrue(p)'
  <2>1. CASE p \in c.proposals
    BY <1>4, <1>5, <2>1 DEF RowTrue, Inv
  <2>2. CASE p \notin c.proposals
    BY <1>6, <1>7, <2>2, RowStays DEF Inv
  <2> QED BY <2>1, <2>2
<1> QED BY <1>4, <1>7, <1>9, <1>10, <1>11, IdleCall, HandlerKeeps

-----------------------------------------------------------------------------
LEMMA RecoverMatchKeeps ==
    ASSUME Inv, NEW h \in Handlers, NEW p \in Proposals, RecoverMatch(h, p) PROVE Inv'
<1>1. Become(h, "accepted", p) /\ UNCHANGED tables
  BY DEF RecoverMatch, tables
<1>2. IsCall("accepted", p) /\ CallTrue("accepted", p)
  BY DEF RecoverMatch, IsCall, CallTrue, Inv, RowTrue
<1> QED BY <1>1, <1>2, ReadKeeps

LEMMA CreateMatchReadKeeps ==
    ASSUME Inv, NEW h \in Handlers, CreateMatchRead(h) PROVE Inv'
<1>1. PICK p : p = call[h]
  OBVIOUS
<1>2. p \in Proposals /\ Agreed(p)
  BY <1>1 DEF CreateMatchRead, Inv, TypeOK, IsCall, CallTrue
<1>3. UNCHANGED tables /\ (Become(h, "createMatch", p) \/ Become(h, "idle", NoCall))
  BY <1>1 DEF CreateMatchRead, Done, tables
<1>4. IsCall("createMatch", p) /\ CallTrue("createMatch", p)
  BY <1>2 DEF IsCall, CallTrue
<1> QED BY <1>3, <1>4, IdleCall, ReadKeeps

LEMMA CreateMatchWriteKeeps ==
    ASSUME Inv, NEW h \in Handlers, CreateMatchWrite(h) PROVE Inv'
<1>1. PICK p : p = call[h]
  OBVIOUS
<1>2. p \in Proposals /\ Agreed(p)
  BY <1>1 DEF CreateMatchWrite, Inv, TypeOK, IsCall, CallTrue
<1>3. /\ match' = match \cup {p} /\ Become(h, "idle", NoCall)
      /\ UNCHANGED <<request, proposal, lapsed, consented>>
  BY <1>1 DEF CreateMatchWrite, Done
<1>4. PairsKept /\ Tables'
  BY <1>2, <1>3 DEF PairsKept, Inv, TypeOK, Tables
<1>5. Agreed(p)'
  BY <1>2, <1>4, AgreedStays
<1>6. MatchedByConsent'
  BY <1>3, <1>4, <1>5, ConsentStays
<1>7. \A q \in Proposals : RowTrue(q)'
  BY <1>3, <1>4, RowStays DEF Inv
<1> QED BY <1>3, <1>4, <1>6, <1>7, IdleCall, HandlerKeeps

LEMMA AbortKeeps ==
    ASSUME Inv, NEW h \in Handlers, Abort(h) PROVE Inv'
BY IdleCall, ReadKeeps DEF Abort, Done, tables

-----------------------------------------------------------------------------
LEMMA InitInv == Init => Inv
<1> SUFFICES ASSUME Init PROVE Inv
  OBVIOUS
<1>1. TypeOK
  BY DEF Init, TypeOK, IsCall, Active, Over
<1>2. MatchedByConsent
  BY DEF Init, MatchedByConsent
<1>3. \A p \in Proposals : RowTrue(p)
  BY DEF Init, RowTrue
<1>4. \A h \in Handlers : CallTrue(pc[h], call[h])
  BY DEF Init, CallTrue
<1> QED BY <1>1, <1>2, <1>3, <1>4 DEF Inv

LEMMA NextKeepsInv == Inv /\ [Next]_vars => Inv'
<1> SUFFICES ASSUME Inv, [Next]_vars PROVE Inv'
  OBVIOUS
<1>1. CASE Lapse
  BY <1>1, LapseKeeps
<1>2. CASE ExpireRequests
  BY <1>2, ExpireRequestsKeeps
<1>3. ASSUME NEW h \in Handlers, Handle(h) PROVE Inv'
  <2>1. ASSUME NEW r \in Requests, CreateRequest(h, r) PROVE Inv'
    BY <2>1, CreateRequestKeeps
  <2>2. ASSUME NEW r \in Requests, CancelRead(h, r) PROVE Inv'
    BY <2>2, CancelReadKeeps
  <2>3. ASSUME NEW p \in Proposals, NEW r \in Requests, AcceptRead(h, p, r) PROVE Inv'
    BY <2>3, AcceptReadKeeps
  <2>4. ASSUME NEW p \in Proposals, NEW outcome \in {"REJECTED", "EXPIRED"}, FinishRead(h, p, outcome)
        PROVE  Inv'
    BY <2>4, FinishReadKeeps
  <2>5. ASSUME NEW p \in Proposals, RecoverMatch(h, p) PROVE Inv'
    BY <2>5, RecoverMatchKeeps
  <2>6. CASE BeginSearch(h) \/ FindBestCandidate(h) \/ CreateProposal(h)
    BY <2>6, BeginSearchKeeps, FindBestCandidateKeeps, CreateProposalKeeps
  <2>7. CASE AcceptFirst(h) \/ AcceptLast(h) \/ FinishWrite(h) \/ CancelWrite(h)
    BY <2>7, AcceptFirstKeeps, AcceptLastKeeps, FinishWriteKeeps, CancelWriteKeeps
  <2>8. CASE CancelFind(h) \/ CreateMatchRead(h) \/ CreateMatchWrite(h) \/ Abort(h)
    BY <2>8, CancelFindKeeps, CreateMatchReadKeeps, CreateMatchWriteKeeps, AbortKeeps
  <2> QED BY <1>3, <2>1, <2>2, <2>3, <2>4, <2>5, <2>6, <2>7, <2>8 DEF Handle
<1>4. CASE UNCHANGED vars
  BY <1>4, ClockKeeps DEF vars, Inv, TypeOK
<1> QED BY <1>1, <1>2, <1>3, <1>4 DEF Next

LEMMA SpecInv == Spec => []Inv
BY InitInv, NextKeepsInv, PTL DEF Spec

-----------------------------------------------------------------------------
\* No handler puts back in play what is over: whatever it has read, it writes
\* SEARCHING, EXPIRED or MATCHED only over what is PROPOSED, or in its search.
LEMMA HandlerLeavesOver ==
    ASSUME Inv, NEW h \in Handlers, Handle(h), NEW r \in Requests, request[r] \in Over
    PROVE  request'[r] \in Over
<1> USE DEF Over
<1>1. request[r] \notin {"NEW", "PENDING", "SEARCHING", "PROPOSED"}
  OBVIOUS
<1>2. DOMAIN request = Requests
  BY DEF Inv, TypeOK
<1>3. ASSUME NEW q \in Requests, CreateRequest(h, q) PROVE request'[r] \in Over
  BY <1>1, <1>2, <1>3 DEF CreateRequest
<1>4. CASE BeginSearch(h)
  BY <1>1, <1>2, <1>4 DEF BeginSearch
<1>5. CASE CreateProposal(h)
  BY <1>1, <1>2, <1>5 DEF CreateProposal, Searching
<1>6. CASE AcceptLast(h)
  BY <1>1, <1>2, <1>6 DEF AcceptLast, Bound
<1>7. CASE FinishWrite(h)
  BY <1>1, <1>2, <1>7 DEF FinishWrite, Restored
<1>8. CASE CancelWrite(h)
  BY <1>1, <1>2, <1>8 DEF CancelWrite, Restored
<1>9. CASE UNCHANGED request
  BY <1>9
<1> QED BY <1>3, <1>4, <1>5, <1>6, <1>7, <1>8, <1>9
        DEF Handle, CancelRead, CancelFind, FindBestCandidate, AcceptRead, FinishRead, RecoverMatch,
            AcceptFirst, CreateMatchRead, CreateMatchWrite, Abort

LEMMA StepLeavesOver ==
    Inv /\ [Next]_vars => \A r \in Requests : request[r] \in Over => request'[r] \in Over
<1> SUFFICES ASSUME Inv, [Next]_vars, NEW r \in Requests, request[r] \in Over
             PROVE  request'[r] \in Over
  OBVIOUS
<1>1. CASE Lapse
  BY <1>1 DEF Lapse
<1>2. CASE ExpireRequests
  BY <1>2 DEF ExpireRequests, Over, Inv, TypeOK
<1>3. ASSUME NEW h \in Handlers, Handle(h) PROVE request'[r] \in Over
  BY <1>3, HandlerLeavesOver
<1>4. CASE UNCHANGED vars
  BY <1>4 DEF vars
<1> QED BY <1>1, <1>2, <1>3, <1>4 DEF Next

-----------------------------------------------------------------------------
\* A request is in one pending proposal at most.
PendingOnce == \A r \in Requests : \A p, q \in PendingWith(r) : p = q

\* What a step does to the pending proposals of a request: it opens one for a
\* request that has none, or it opens none.  It leaves no request PROPOSED
\* whose pending proposal it ends.
PendingStep(r) ==
    \/ /\ PendingWith(r) = {}
       /\ \E p \in Proposals : PendingWith(r)' = {p}
    \/ /\ PendingWith(r)' \subseteq PendingWith(r)
       /\ request'[r] = "PROPOSED" =>
              request[r] = "PROPOSED" /\ PendingWith(r) \subseteq PendingWith(r)'

LEMMA PendingStepKeeps ==
    ASSUME ProposedIsPending, PendingOnce, \A r \in Requests : PendingStep(r)
    PROVE  ProposedIsPending' /\ PendingOnce'
<1>1. ASSUME NEW r \in Requests
      PROVE  /\ request'[r] = "PROPOSED" => PendingWith(r)' # {}
             /\ \A p, q \in PendingWith(r)' : p = q
  <2>1. PendingStep(r)
    OBVIOUS
  <2>2. CASE \E p \in Proposals : PendingWith(r)' = {p}
    BY <2>2
  <2>3. CASE PendingWith(r)' \subseteq PendingWith(r)
             /\ (request'[r] = "PROPOSED" =>
                     request[r] = "PROPOSED" /\ PendingWith(r) \subseteq PendingWith(r)')
    BY <2>3 DEF ProposedIsPending, PendingOnce
  <2> QED BY <2>1, <2>2, <2>3 DEF PendingStep
<1> QED BY <1>1 DEF ProposedIsPending, PendingOnce

\* No proposal opens or ends, and no request becomes PROPOSED.
LEMMA StatusesStand ==
    ASSUME \A p \in Proposals :
               /\ proposal'[p] = NoProposal <=> proposal[p] = NoProposal
               /\ proposal[p] # NoProposal => /\ proposal'[p].pair = proposal[p].pair
                                              /\ proposal'[p].status = proposal[p].status,
           NEW r \in Requests, request'[r] = "PROPOSED" => request[r] = "PROPOSED"
    PROVE  PendingStep(r)
BY DEF PendingStep, PendingWith, Holds

LEMMA CreateProposalPending ==
    ASSUME Inv, NEW h \in Handlers, CreateProposal(h), NEW r \in Requests
    PROVE  PendingStep(r)
<1>1. PICK pair \in Pairs : pair = call[h]
  BY DEF CreateProposal, Inv, TypeOK, IsCall
<1>2. CASE UNCHANGED <<request, proposal>>
  BY <1>2, StatusesStand
<1>3. ASSUME NEW p \in Proposals, proposal[p] = NoProposal, ProposalFree(pair),
             proposal' = [proposal EXCEPT ![p] =
                 [pair |-> pair, accepted |-> {}, status |-> "PENDING"]],
             request' = [q \in Requests |-> IF q \in pair THEN "PROPOSED" ELSE request[q]]
      PROVE  PendingStep(r)
  <2>1. PICK row : row = [pair |-> pair, accepted |-> {}, status |-> "PENDING"]
    OBVIOUS
  <2>2. row \in ProposalRows /\ row.pair = pair /\ row.status = "PENDING"
    BY <2>1 DEF ProposalRows
  <2>3. row # NoProposal
    BY <2>2, NoProposalAssumption
  <2>4. /\ proposal'[p] = row
        /\ \A q \in Proposals : q # p => proposal'[q] = proposal[q]
    BY <1>3, <2>1 DEF Inv, TypeOK
  <2>5. CASE r \in pair
    <3>1. PendingWith(r) = {}
      BY <1>3, <2>5 DEF ProposalFree
    <3>2. PendingWith(r)' = {p}
      BY <2>2, <2>3, <2>4, <2>5, <3>1 DEF PendingWith, Holds
    <3> QED BY <3>1, <3>2 DEF PendingStep
  <2>6. CASE r \notin pair
    <3>1. PendingWith(r)' = PendingWith(r)
      BY <1>3, <2>2, <2>4, <2>6 DEF PendingWith, Holds
    <3>2. request'[r] = request[r]
      BY <1>3, <2>6
    <3> QED BY <3>1, <3>2 DEF PendingStep
  <2> QED BY <2>5, <2>6
<1> QED BY <1>1, <1>2, <1>3 DEF CreateProposal

\* One proposal gets a new status, and leaves none of its pair PROPOSED.
LEMMA ProposalEnds ==
    ASSUME Inv, NEW p \in Proposals, proposal[p] # NoProposal,
           proposal'[p] # NoProposal, proposal'[p].pair = proposal[p].pair,
           proposal'[p].status # "PENDING",
           \A q \in Proposals : q # p => proposal'[q] = proposal[q],
           NEW r \in Requests, request'[r] = "PROPOSED" =>
               request[r] = "PROPOSED" /\ r \notin proposal[p].pair
    PROVE  PendingStep(r)
BY DEF PendingStep, PendingWith, Holds

LEMMA AcceptFirstPending ==
    ASSUME Inv, NEW h \in Handlers, AcceptFirst(h), NEW r \in Requests
    PROVE  PendingStep(r)
<1>1. PICK p \in Proposals : p = call[h].proposal /\ proposal[p] \in ProposalRows
                             /\ proposal[p] # NoProposal
                             /\ call[h].accepted \subseteq proposal[p].pair
  BY AcceptCall DEF AcceptFirst
<1>2. UNCHANGED request
  BY DEF AcceptFirst
<1>3. CASE UNCHANGED proposal
  BY <1>2, <1>3, StatusesStand
<1>4. CASE proposal' = Accepting(h)
  <2>1. PICK row : row = [proposal[p] EXCEPT !.accepted = call[h].accepted]
    OBVIOUS
  <2>2. row \in ProposalRows /\ row.pair = proposal[p].pair /\ row.status = proposal[p].status
    BY <1>1, <2>1 DEF ProposalRows, Pairs
  <2>3. proposal'[p] = row /\ \A q \in Proposals : q # p => proposal'[q] = proposal[q]
    BY <1>1, <1>4, <2>1 DEF Inv, TypeOK, Accepting, ProposalRows
  <2>4. row # NoProposal
    BY <2>2, NoProposalAssumption
  <2> QED BY <1>1, <1>2, <2>2, <2>3, <2>4, StatusesStand
<1> QED BY <1>3, <1>4 DEF AcceptFirst

\* What the last acceptance leaves of the proposal and of the others.
LEMMA AcceptLastLooks ==
    ASSUME Inv, NEW h \in Handlers, AcceptLast(h)
    PROVE  LET p == call[h].proposal
           IN /\ p \in Proposals /\ proposal[p] \in ProposalRows /\ proposal[p] # NoProposal
              /\ proposal'[p] # NoProposal
              /\ proposal'[p].pair = proposal[p].pair /\ proposal'[p].status = "ACCEPTED"
              /\ \A q \in Proposals : q # p => proposal'[q] = proposal[q]
              /\ request' = Bound(proposal[p].pair)
<1>1. PICK p \in Proposals : p = call[h].proposal /\ proposal[p] \in ProposalRows
                             /\ proposal[p] # NoProposal
                             /\ call[h].accepted \subseteq proposal[p].pair
  BY AcceptCall DEF AcceptLast
<1>2. PICK row : row = [proposal[p] EXCEPT !.accepted = call[h].accepted, !.status = "ACCEPTED"]
  OBVIOUS
<1>3. row \in ProposalRows /\ row.pair = proposal[p].pair /\ row.status = "ACCEPTED"
  BY <1>1, <1>2 DEF ProposalRows, Pairs
<1>4. proposal'[p] = row /\ \A q \in Proposals : q # p => proposal'[q] = proposal[q]
  BY <1>1, <1>2 DEF AcceptLast, Inv, TypeOK, Accepting, ProposalRows
<1>5. row # NoProposal
  BY <1>3, NoProposalAssumption
<1> QED BY <1>1, <1>3, <1>4, <1>5 DEF AcceptLast

LEMMA FinishWriteLooks ==
    ASSUME Inv, NEW h \in Handlers, FinishWrite(h)
    PROVE  LET p == call[h].proposal
           IN /\ p \in Proposals /\ proposal[p] \in ProposalRows /\ proposal[p] # NoProposal
              /\ proposal'[p] # NoProposal
              /\ proposal'[p].pair = proposal[p].pair
              /\ proposal'[p].status \in {"REJECTED", "EXPIRED"}
              /\ \A q \in Proposals : q # p => proposal'[q] = proposal[q]
              /\ request' = Restored(proposal[p].pair, call[h].late)
<1>1. PICK p \in Proposals : p = call[h].proposal /\ call[h].outcome \in {"REJECTED", "EXPIRED"}
  BY DEF FinishWrite, Inv, TypeOK, IsCall
<1>2. proposal[p] \in ProposalRows /\ proposal[p] # NoProposal
  BY <1>1 DEF FinishWrite, Inv, TypeOK, CallTrue
<1>3. PICK row : row = [proposal[p] EXCEPT !.status = call[h].outcome]
  OBVIOUS
<1>4. row \in ProposalRows /\ row.pair = proposal[p].pair /\ row.status = call[h].outcome
  BY <1>1, <1>2, <1>3 DEF ProposalRows, Pairs
<1>5. proposal'[p] = row /\ \A q \in Proposals : q # p => proposal'[q] = proposal[q]
  BY <1>1, <1>2, <1>3 DEF FinishWrite, Inv, TypeOK
<1>6. row # NoProposal
  BY <1>4, NoProposalAssumption
<1> QED BY <1>1, <1>2, <1>4, <1>5, <1>6 DEF FinishWrite

\* The requests in some of the proposals.
PairedBy(proposals) == UNION {proposal[p].pair : p \in proposals}

LEMMA CancelWriteLooks ==
    ASSUME Inv, NEW h \in Handlers, CancelWrite(h)
    PROVE  LET c == call[h]
           IN /\ c.request \in Requests /\ c.proposals \subseteq Proposals
              /\ \E all :
                     /\ \A r \in all : \E p \in c.proposals : r \in proposal[p].pair
                     /\ \A p \in c.proposals : proposal[p].pair \subseteq all
                     /\ request' = [Restored(all \ {c.request}, {}) EXCEPT ![c.request] = "CANCELLED"]
              /\ \A p \in c.proposals :
                     /\ proposal[p] # NoProposal /\ proposal'[p] # NoProposal
                     /\ proposal'[p].pair = proposal[p].pair
                     /\ proposal'[p].status = "CANCELLED"
              /\ \A p \in Proposals \ c.proposals : proposal'[p] = proposal[p]
<1>1. PICK c \in [request : Requests, proposals : SUBSET Proposals] : c = call[h]
  BY DEF CancelWrite, Inv, TypeOK, IsCall
<1>2. CallTrue("cancel", c)
  BY <1>1 DEF CancelWrite, Inv
<1>3. proposal' = [p \in Proposals |->
          IF p \in c.proposals THEN [proposal[p] EXCEPT !.status = "CANCELLED"] ELSE proposal[p]]
  BY <1>1 DEF CancelWrite
<1>4. ASSUME NEW p \in c.proposals
      PROVE  /\ proposal[p] # NoProposal /\ proposal'[p] # NoProposal
             /\ proposal'[p].pair = proposal[p].pair /\ proposal'[p].status = "CANCELLED"
  <2>1. p \in Proposals /\ proposal[p] # NoProposal /\ proposal[p] \in ProposalRows
    BY <1>1, <1>2 DEF CallTrue, Inv, TypeOK
  <2>2. PICK row : row = [proposal[p] EXCEPT !.status = "CANCELLED"]
    OBVIOUS
  <2>3. row \in ProposalRows /\ row.pair = proposal[p].pair /\ row.status = "CANCELLED"
    BY <2>1, <2>2 DEF ProposalRows, Pairs
  <2>4. row # NoProposal /\ proposal'[p] = row
    BY <1>3, <2>1, <2>2, <2>3, NoProposalAssumption
  <2> QED BY <2>1, <2>3, <2>4
<1>5. \A p \in Proposals \ c.proposals : proposal'[p] = proposal[p]
  BY <1>3
<1>6. \E all :
          /\ \A r \in all : \E p \in c.proposals : r \in proposal[p].pair
          /\ \A p \in c.proposals : proposal[p].pair \subseteq all
          /\ request' = [Restored(all \ {c.request}, {}) EXCEPT ![c.request] = "CANCELLED"]
  <2>1. /\ \A r \in PairedBy(c.proposals) : \E p \in c.proposals : r \in proposal[p].pair
        /\ \A p \in c.proposals : proposal[p].pair \subseteq PairedBy(c.proposals)
    BY DEF PairedBy
  <2>2. request' = [Restored(PairedBy(call[h].proposals) \ {call[h].request}, {})
                       EXCEPT ![call[h].request] = "CANCELLED"]
    BY DEF CancelWrite, PairedBy
  <2> QED BY <1>1, <2>1, <2>2
<1> QED BY <1>1, <1>4, <1>5, <1>6

LEMMA CancelWritePending ==
    ASSUME Inv, NEW h \in Handlers, CancelWrite(h), NEW r \in Requests
    PROVE  PendingStep(r)
<1>1. PICK c : c = call[h]
  OBVIOUS
<1>2. PICK all :
          /\ \A p \in c.proposals : proposal[p].pair \subseteq all
          /\ request' = [Restored(all \ {c.request}, {}) EXCEPT ![c.request] = "CANCELLED"]
  BY <1>1, CancelWriteLooks
<1>3. /\ c.proposals \subseteq Proposals /\ c.request \in Requests
      /\ \A p \in c.proposals :
             /\ proposal[p] # NoProposal /\ proposal'[p] # NoProposal
             /\ proposal'[p].pair = proposal[p].pair /\ proposal'[p].status = "CANCELLED"
      /\ \A p \in Proposals \ c.proposals : proposal'[p] = proposal[p]
  BY <1>1, CancelWriteLooks
<1>4. PendingWith(r)' \subseteq PendingWith(r)
  BY <1>3 DEF PendingWith, Holds
<1>5. ASSUME request'[r] = "PROPOSED"
      PROVE  request[r] = "PROPOSED" /\ \A p \in c.proposals : r \notin proposal[p].pair
  <2>1. r # c.request /\ r \notin all \ {c.request} /\ request[r] = "PROPOSED"
    BY <1>2, <1>3, <1>5 DEF Restored
  <2>2. \A p \in c.proposals : proposal[p].pair \subseteq all
    BY <1>2
  <2> QED BY <2>1, <2>2
<1>6. ASSUME request'[r] = "PROPOSED" PROVE PendingWith(r) \subseteq PendingWith(r)'
  BY <1>3, <1>5, <1>6 DEF PendingWith, Holds
<1> QED BY <1>4, <1>5, <1>6 DEF PendingStep

\* Every other step leaves the proposals alone and makes nobody PROPOSED.
LEMMA NextPending ==
    ASSUME Inv, [Next]_vars, NEW r \in Requests PROVE PendingStep(r)
<1>1. ASSUME UNCHANGED proposal, request'[r] = "PROPOSED" => request[r] = "PROPOSED"
      PROVE  PendingStep(r)
  BY <1>1, StatusesStand
<1>2. CASE Lapse \/ UNCHANGED vars
  BY <1>1, <1>2 DEF Lapse, vars
<1>3. CASE ExpireRequests
  BY <1>1, <1>3 DEF ExpireRequests
<1>4. ASSUME NEW h \in Handlers, Handle(h) PROVE PendingStep(r)
  <2>1. CASE CreateProposal(h)
    BY <2>1, CreateProposalPending
  <2>2. CASE AcceptFirst(h)
    BY <2>2, AcceptFirstPending
  <2>3. CASE AcceptLast(h)
    <3>1. request'[r] = "PROPOSED" =>
              request[r] = "PROPOSED" /\ r \notin proposal[call[h].proposal].pair
      BY <2>3, AcceptLastLooks DEF Bound
    <3> QED BY <2>3, <3>1, AcceptLastLooks, ProposalEnds
  <2>4. CASE FinishWrite(h)
    <3>1. request'[r] = "PROPOSED" =>
              request[r] = "PROPOSED" /\ r \notin proposal[call[h].proposal].pair
      BY <2>4, FinishWriteLooks DEF Restored
    <3> QED BY <2>4, <3>1, FinishWriteLooks, ProposalEnds
  <2>5. CASE CancelWrite(h)
    BY <2>5, CancelWritePending
  <2>6. ASSUME NEW q \in Requests, CreateRequest(h, q) PROVE PendingStep(r)
    BY <1>1, <2>6 DEF CreateRequest, Inv, TypeOK
  <2>7. CASE BeginSearch(h)
    BY <1>1, <2>7 DEF BeginSearch, Inv, TypeOK
  <2>8. CASE UNCHANGED <<request, proposal>>
    BY <1>1, <2>8
  <2> QED BY <1>4, <2>1, <2>2, <2>3, <2>4, <2>5, <2>6, <2>7, <2>8
          DEF Handle, CancelRead, CancelFind, FindBestCandidate, AcceptRead, FinishRead, RecoverMatch,
              CreateMatchRead, CreateMatchWrite, Abort
<1> QED BY <1>2, <1>3, <1>4 DEF Next

LEMMA InitPending == Init => ProposedIsPending /\ PendingOnce
BY DEF Init, ProposedIsPending, PendingOnce, PendingWith, Holds

LEMMA NextKeepsPending ==
    Inv /\ ProposedIsPending /\ PendingOnce /\ [Next]_vars => ProposedIsPending' /\ PendingOnce'
BY NextPending, PendingStepKeeps

-----------------------------------------------------------------------------
\* As long as no answer has been overtaken (crossed, in MCMatchmaking), the
\* requests of a proposal stand where it does, and what a handler has read of
\* a proposal, or of the request it cancels, still holds.

RequestsFollow(p) ==
    proposal[p] # NoProposal =>
        /\ proposal[p].status = "PENDING" => \A r \in proposal[p].pair : request[r] = "PROPOSED"
        /\ proposal[p].status = "ACCEPTED" => \A r \in proposal[p].pair : request[r] = "MATCHED"

ReadHolds(step, c) ==
    /\ step \in {"accept", "finish"} => proposal[c.proposal].status = "PENDING"
    /\ step = "cancelRequest" => request[c] # "MATCHED"
    /\ step = "cancel" => /\ c.proposals = PendingWith(c.request)
                          /\ request[c.request] # "MATCHED"

Calm ==
    /\ \A p \in Proposals : RequestsFollow(p)
    /\ \A h \in Handlers : ReadHolds(pc[h], call[h])

\* No request that is PROPOSED or MATCHED moves, nor does any proposal.
LEMMA RequestsStand ==
    ASSUME Inv, \A p \in Proposals : RequestsFollow(p), UNCHANGED proposal,
           \A r \in Requests : request[r] \in {"PROPOSED", "MATCHED"} => request'[r] = request[r]
    PROVE  \A p \in Proposals : RequestsFollow(p)'
BY DEF Inv, TypeOK, RequestsFollow, ProposalRows, Pairs

\* Two pending proposals have no request in common.
LEMMA PendingApart ==
    ASSUME Inv, PendingOnce, NEW p \in Proposals, NEW q \in Proposals, p # q,
           proposal[p] # NoProposal, proposal[p].status = "PENDING",
           proposal[q] # NoProposal, proposal[q].status = "PENDING",
           NEW r, r \in proposal[p].pair, r \in proposal[q].pair
    PROVE  FALSE
<1>1. r \in Requests
  BY DEF Inv, TypeOK, ProposalRows, Pairs
<1>2. p \in PendingWith(r) /\ q \in PendingWith(r)
  BY DEF PendingWith, Holds
<1> QED BY <1>1, <1>2 DEF PendingOnce

LEMMA CreateProposalFollows ==
    ASSUME Inv, Calm, NEW h \in Handlers, CreateProposal(h)
    PROVE  \A p \in Proposals : RequestsFollow(p)'
<1>1. PICK pair \in Pairs : pair = call[h]
  BY DEF CreateProposal, Inv, TypeOK, IsCall
<1>2. CASE UNCHANGED <<request, proposal>>
  BY <1>2, RequestsStand DEF Calm
<1>3. ASSUME NEW p \in Proposals, proposal[p] = NoProposal, \A r \in pair : Searching(r),
             proposal' = [proposal EXCEPT ![p] =
                 [pair |-> pair, accepted |-> {}, status |-> "PENDING"]],
             request' = [r \in Requests |-> IF r \in pair THEN "PROPOSED" ELSE request[r]]
      PROVE  \A q \in Proposals : RequestsFollow(q)'
  <2>1. PICK row : row = [pair |-> pair, accepted |-> {}, status |-> "PENDING"]
    OBVIOUS
  <2>2. row.pair = pair /\ row.status = "PENDING" /\ pair \subseteq Requests
    BY <2>1 DEF Pairs
  <2>3. proposal'[p] = row /\ \A q \in Proposals : q # p => proposal'[q] = proposal[q]
    BY <1>3, <2>1 DEF Inv, TypeOK
  <2>4. ASSUME NEW q \in Proposals PROVE RequestsFollow(q)'
    <3>1. CASE q = p
      BY <1>3, <2>2, <2>3, <3>1 DEF RequestsFollow
    <3>2. CASE q # p
      <4>1. RequestsFollow(q) /\ (proposal[q] # NoProposal => proposal[q].pair \subseteq Requests)
        BY DEF Calm, Inv, TypeOK, ProposalRows, Pairs
      <4> QED BY <1>3, <2>3, <3>2, <4>1 DEF RequestsFollow, Searching
    <3> QED BY <3>1, <3>2
  <2> QED BY <2>4
<1> QED BY <1>1, <1>2, <1>3 DEF CreateProposal

\* A proposal that was pending ends and takes its requests along.
LEMMA EndFollows ==
    ASSUME Inv, Calm, PendingOnce, NEW p \in Proposals,
           proposal[p] # NoProposal, proposal[p].status = "PENDING",
           proposal'[p].pair = proposal[p].pair, proposal'[p].status # "PENDING",
           \A q \in Proposals : q # p => proposal'[q] = proposal[q],
           proposal'[p].status = "ACCEPTED" => \A r \in proposal[p].pair : request'[r] = "MATCHED",
           \A r \in Requests : request[r] = "MATCHED" \/ r \notin proposal[p].pair =>
               request'[r] = request[r]
    PROVE  \A q \in Proposals : RequestsFollow(q)'
<1>1. ASSUME NEW q \in Proposals PROVE RequestsFollow(q)'
  <2>1. CASE q = p
    BY <2>1 DEF RequestsFollow
  <2>2. CASE q # p /\ proposal[q] # NoProposal /\ proposal[q].status = "PENDING"
    <3>1. ASSUME NEW r \in proposal[q].pair PROVE request'[r] = "PROPOSED"
      <4>1. r \in Requests /\ request[r] = "PROPOSED"
        BY <2>2 DEF Calm, RequestsFollow, Inv, TypeOK, ProposalRows, Pairs
      <4>2. r \notin proposal[p].pair
        BY <2>2, PendingApart
      <4> QED BY <4>1, <4>2
    <3> QED BY <2>2, <3>1 DEF RequestsFollow
  <2>3. CASE q # p /\ ~(proposal[q] # NoProposal /\ proposal[q].status = "PENDING")
    <3>1. RequestsFollow(q) /\ (proposal[q] # NoProposal => proposal[q].pair \subseteq Requests)
      BY DEF Calm, Inv, TypeOK, ProposalRows, Pairs
    <3> QED BY <2>3, <3>1 DEF RequestsFollow
  <2> QED BY <2>1, <2>2, <2>3
<1> QED BY <1>1

LEMMA CancelWriteFollows ==
    ASSUME Inv, Calm, PendingOnce, NEW h \in Handlers, CancelWrite(h)
    PROVE  \A p \in Proposals : RequestsFollow(p)'
<1>1. PICK c : c = call[h]
  OBVIOUS
<1>2. PICK all :
          /\ \A r \in all : \E p \in c.proposals : r \in proposal[p].pair
          /\ request' = [Restored(all \ {c.request}, {}) EXCEPT ![c.request] = "CANCELLED"]
  BY <1>1, CancelWriteLooks
<1>3. /\ c.proposals \subseteq Proposals /\ c.request \in Requests
      /\ \A p \in c.proposals : /\ proposal'[p] # NoProposal
                                /\ proposal'[p].status = "CANCELLED"
      /\ \A p \in Proposals \ c.proposals : proposal'[p] = proposal[p]
  BY <1>1, CancelWriteLooks
<1>4. c.proposals = PendingWith(c.request) /\ request[c.request] # "MATCHED"
  BY <1>1 DEF CancelWrite, Calm, ReadHolds
<1>5. \A r \in Requests : request'[r] = IF r = c.request THEN "CANCELLED"
                                        ELSE Restored(all \ {c.request}, {})[r]
  BY <1>2, <1>3 DEF Restored
<1>6. ASSUME NEW p \in Proposals PROVE RequestsFollow(p)'
  <2>1. CASE p \in c.proposals
    BY <1>3, <2>1 DEF RequestsFollow
  <2>2. CASE p \notin c.proposals /\ proposal[p] # NoProposal /\ proposal[p].status = "PENDING"
    <3>1. ASSUME NEW r \in proposal[p].pair PROVE request'[r] = "PROPOSED"
      <4>1. r \in Requests /\ request[r] = "PROPOSED"
        BY <2>2 DEF Calm, RequestsFollow, Inv, TypeOK, ProposalRows, Pairs
      <4>2. r # c.request
        BY <1>4, <2>2, <3>1 DEF PendingWith, Holds
      <4>3. ASSUME NEW q \in c.proposals PROVE r \notin proposal[q].pair
        <5>1. q \in Proposals /\ proposal[q] # NoProposal /\ proposal[q].status = "PENDING" /\ q # p
          BY <1>4, <2>2 DEF PendingWith, Holds
        <5> QED BY <2>2, <3>1, <5>1, PendingApart
      <4>4. r \notin all
        BY <1>2, <4>3
      <4> QED BY <1>5, <4>1, <4>2, <4>4 DEF Restored
    <3>2. proposal'[p] = proposal[p]
      BY <1>3, <2>2
    <3> QED BY <2>2, <3>1, <3>2 DEF RequestsFollow
  <2>3. CASE p \notin c.proposals /\ proposal[p] # NoProposal /\ proposal[p].status = "ACCEPTED"
    <3>1. ASSUME NEW r \in proposal[p].pair PROVE request'[r] = "MATCHED"
      <4>1. r \in Requests /\ request[r] = "MATCHED"
        BY <2>3 DEF Calm, RequestsFollow, Inv, TypeOK, ProposalRows, Pairs
      <4> QED BY <1>4, <1>5, <4>1 DEF Restored
    <3>2. proposal'[p] = proposal[p]
      BY <1>3, <2>3
    <3> QED BY <2>3, <3>1, <3>2 DEF RequestsFollow
  <2>4. CASE p \notin c.proposals
             /\ (proposal[p] # NoProposal => proposal[p].status \notin {"PENDING", "ACCEPTED"})
    BY <1>3, <2>4 DEF RequestsFollow
  <2> QED BY <2>1, <2>2, <2>3, <2>4
<1> QED BY <1>6

\* Whatever step is taken, the requests follow their proposals.
LEMMA NextFollows ==
    ASSUME Inv, Calm, PendingOnce, [Next]_vars
    PROVE  \A p \in Proposals : RequestsFollow(p)'
<1>1. \A p \in Proposals : RequestsFollow(p)
  BY DEF Calm
<1>2. CASE UNCHANGED <<request, proposal>>
  BY <1>1, <1>2, RequestsStand
<1>3. CASE ExpireRequests
  <2>1. UNCHANGED proposal
        /\ \A r \in Requests : request[r] \in {"PROPOSED", "MATCHED"} => request'[r] = request[r]
    BY <1>3 DEF ExpireRequests
  <2> QED BY <1>1, <2>1, RequestsStand
<1>4. ASSUME NEW h \in Handlers, Handle(h) PROVE \A p \in Proposals : RequestsFollow(p)'
  <2>1. ASSUME NEW q \in Requests, CreateRequest(h, q) PROVE \A p \in Proposals : RequestsFollow(p)'
    <3>1. UNCHANGED proposal
          /\ \A r \in Requests : request[r] \in {"PROPOSED", "MATCHED"} => request'[r] = request[r]
      BY <2>1 DEF CreateRequest, Inv, TypeOK
    <3> QED BY <1>1, <3>1, RequestsStand
  <2>2. CASE BeginSearch(h)
    <3>1. UNCHANGED proposal
          /\ \A r \in Requests : request[r] \in {"PROPOSED", "MATCHED"} => request'[r] = request[r]
      BY <2>2 DEF BeginSearch, Inv, TypeOK
    <3> QED BY <1>1, <3>1, RequestsStand
  <2>3. CASE CreateProposal(h)
    BY <2>3, CreateProposalFollows
  <2>4. CASE AcceptFirst(h)
    <3>1. PICK p \in Proposals : p = call[h].proposal /\ proposal[p] \in ProposalRows
                                 /\ proposal[p] # NoProposal
      BY <2>4, AcceptCall DEF AcceptFirst
    <3>2. UNCHANGED request
      BY <2>4 DEF AcceptFirst
    <3>3. CASE proposal' = Accepting(h)
      <4>1. proposal'[p].pair = proposal[p].pair /\ proposal'[p].status = proposal[p].status
        BY <3>1, <3>3 DEF Accepting, Inv, TypeOK, ProposalRows
      <4>2. \A q \in Proposals : q # p => proposal'[q] = proposal[q]
        BY <3>1, <3>3 DEF Accepting
      <4>3. ASSUME NEW q \in Proposals PROVE RequestsFollow(q)'
        BY <1>1, <3>1, <3>2, <4>1, <4>2 DEF RequestsFollow
      <4> QED BY <4>3
    <3> QED BY <1>2, <2>4, <3>2, <3>3 DEF AcceptFirst
  <2>5. CASE AcceptLast(h)
    <3>1. PICK p \in Proposals : p = call[h].proposal
      BY <2>5, AcceptLastLooks
    <3>2. /\ proposal[p] \in ProposalRows /\ proposal[p] # NoProposal
          /\ proposal'[p].pair = proposal[p].pair /\ proposal'[p].status = "ACCEPTED"
          /\ \A q \in Proposals : q # p => proposal'[q] = proposal[q]
          /\ request' = Bound(proposal[p].pair)
      BY <2>5, <3>1, AcceptLastLooks
    <3>3. proposal[p].status = "PENDING" /\ \A r \in proposal[p].pair : request[r] = "PROPOSED"
      BY <1>1, <2>5, <3>1, <3>2 DEF AcceptLast, Calm, ReadHolds, RequestsFollow
    <3>4. proposal[p].pair \subseteq Requests
      BY <3>2 DEF ProposalRows, Pairs
    <3>5. \A r \in proposal[p].pair : request'[r] = "MATCHED"
      BY <3>2, <3>3, <3>4 DEF Bound
    <3>6. \A r \in Requests : request[r] = "MATCHED" \/ r \notin proposal[p].pair =>
              request'[r] = request[r]
      BY <3>2 DEF Bound
    <3> QED BY <3>2, <3>3, <3>5, <3>6, EndFollows
  <2>6. CASE FinishWrite(h)
    <3>1. PICK p \in Proposals : p = call[h].proposal
      BY <2>6, FinishWriteLooks
    <3>2. /\ proposal[p] # NoProposal
          /\ proposal'[p].pair = proposal[p].pair
          /\ proposal'[p].status \in {"REJECTED", "EXPIRED"}
          /\ \A q \in Proposals : q # p => proposal'[q] = proposal[q]
          /\ request' = Restored(proposal[p].pair, call[h].late)
      BY <2>6, <3>1, FinishWriteLooks
    <3>3. proposal[p].status = "PENDING"
      BY <2>6, <3>1 DEF FinishWrite, Calm, ReadHolds
    <3>4. \A r \in Requests : request[r] = "MATCHED" \/ r \notin proposal[p].pair =>
              request'[r] = request[r]
      BY <3>2 DEF Restored
    <3> QED BY <3>2, <3>3, <3>4, EndFollows
  <2>7. CASE CancelWrite(h)
    BY <2>7, CancelWriteFollows
  <2> QED BY <1>2, <1>4, <2>1, <2>2, <2>3, <2>4, <2>5, <2>6, <2>7
          DEF Handle, CancelRead, CancelFind, FindBestCandidate, AcceptRead, FinishRead, RecoverMatch,
              CreateMatchRead, CreateMatchWrite, Abort
<1> QED BY <1>2, <1>3, <1>4 DEF Next, Lapse, vars

\* A handler that stands still while the proposals do keeps what it has read:
\* only the last acceptance matches a request, and that changes a proposal.
LEMMA OnlyAcceptLastMatches ==
    ASSUME Inv, Calm, [Next]_vars, UNCHANGED proposal, NEW r \in Requests, request[r] # "MATCHED"
    PROVE  request'[r] # "MATCHED"
<1>1. ASSUME NEW h \in Handlers, AcceptLast(h) PROVE FALSE
  <2>1. PICK p \in Proposals : p = call[h].proposal /\ proposal'[p].status = "ACCEPTED"
    BY <1>1, AcceptLastLooks
  <2>2. proposal[p].status = "PENDING"
    BY <1>1, <2>1 DEF AcceptLast, Calm, ReadHolds
  <2> QED BY <2>1, <2>2
<1>2. CASE UNCHANGED request
  BY <1>2
<1>3. CASE ExpireRequests
  BY <1>3 DEF ExpireRequests
<1>4. ASSUME NEW h \in Handlers, Handle(h) PROVE request'[r] # "MATCHED"
  <2>1. ASSUME NEW q \in Requests, CreateRequest(h, q) PROVE request'[r] # "MATCHED"
    BY <2>1 DEF CreateRequest, Inv, TypeOK
  <2>2. CASE BeginSearch(h)
    BY <2>2 DEF BeginSearch, Inv, TypeOK
  <2>3. CASE CreateProposal(h)
    BY <2>3 DEF CreateProposal, Inv, TypeOK
  <2>4. CASE FinishWrite(h)
    BY <2>4 DEF FinishWrite, Restored
  <2>5. CASE CancelWrite(h)
    BY <2>5, CancelWriteLooks DEF Restored
  <2> QED BY <1>1, <1>2, <1>4, <2>1, <2>2, <2>3, <2>4, <2>5
          DEF Handle, CancelRead, CancelFind, FindBestCandidate, AcceptRead, AcceptFirst, FinishRead,
              RecoverMatch, CreateMatchRead, CreateMatchWrite, Abort
<1> QED BY <1>2, <1>3, <1>4 DEF Next, Lapse, vars

LEMMA StandingReadHolds ==
    ASSUME Inv, Calm, [Next]_vars, UNCHANGED proposal, NEW g \in Handlers,
           pc'[g] = pc[g], call'[g] = call[g]
    PROVE  ReadHolds(pc[g], call[g])'
<1>1. PICK step, c : step = pc[g] /\ c = call[g]
  OBVIOUS
<1>2. /\ ReadHolds(step, c)
      /\ step = "cancelRequest" => c \in Requests
      /\ step = "cancel" => c.request \in Requests
  BY <1>1 DEF Calm, Inv, TypeOK, IsCall
<1>3. \A r : PendingWith(r)' = PendingWith(r)
  BY DEF PendingWith, Holds
<1>4. /\ step = "cancelRequest" => request'[c] # "MATCHED"
      /\ step = "cancel" => request'[c.request] # "MATCHED"
  BY <1>2, OnlyAcceptLastMatches DEF ReadHolds
<1> QED BY <1>1, <1>2, <1>3, <1>4 DEF ReadHolds

\* A handler that takes a step has read what holds.
LEMMA MovingReadHolds ==
    ASSUME Inv, ProposedIsPending, Calm, NEW h \in Handlers, Handle(h)
    PROVE  /\ ReadHolds(pc[h], call[h])'
           /\ \A g \in Handlers \ {h} : pc'[g] = pc[g] /\ call'[g] = call[g]
<1>1. DOMAIN pc = Handlers /\ DOMAIN call = Handlers
  BY DEF Inv, TypeOK
<1>2. ASSUME NEW step, NEW c, Become(h, step, c)
      PROVE  /\ pc'[h] = step /\ call'[h] = c
             /\ \A g \in Handlers \ {h} : pc'[g] = pc[g] /\ call'[g] = call[g]
  BY <1>1, <1>2 DEF Become
<1>3. ASSUME NEW step, NEW c, Become(h, step, c), step \notin {"accept", "finish", "cancelRequest", "cancel"}
      PROVE  /\ ReadHolds(pc[h], call[h])'
             /\ \A g \in Handlers \ {h} : pc'[g] = pc[g] /\ call'[g] = call[g]
  BY <1>2, <1>3 DEF ReadHolds
<1>4. ASSUME NEW p \in Proposals, NEW r \in Requests, AcceptRead(h, p, r)
      PROVE  /\ ReadHolds(pc[h], call[h])'
             /\ \A g \in Handlers \ {h} : pc'[g] = pc[g] /\ call'[g] = call[g]
  <2>1. CASE Become(h, "accepted", p)
    BY <1>3, <2>1
  <2>2. CASE Acceptable(p) /\ Become(h, "accept",
                 [proposal |-> p, by |-> r, accepted |-> proposal[p].accepted \cup {r}])
    <3>1. PICK c : c = [proposal |-> p, by |-> r, accepted |-> proposal[p].accepted \cup {r}]
      OBVIOUS
    <3>2. c.proposal = p /\ Become(h, "accept", c) /\ UNCHANGED proposal
      BY <1>4, <2>2, <3>1 DEF AcceptRead
    <3> QED BY <1>2, <2>2, <3>2 DEF ReadHolds, Acceptable
  <2> QED BY <1>4, <2>1, <2>2 DEF AcceptRead
<1>5. ASSUME NEW p \in Proposals, NEW outcome, FinishRead(h, p, outcome)
      PROVE  /\ ReadHolds(pc[h], call[h])'
             /\ \A g \in Handlers \ {h} : pc'[g] = pc[g] /\ call'[g] = call[g]
  <2>1. PICK c : c = [proposal |-> p, outcome |-> outcome, late |-> lapsed \cap proposal[p].pair]
    OBVIOUS
  <2>2. /\ c.proposal = p /\ Become(h, "finish", c) /\ UNCHANGED proposal
        /\ proposal[p].status = "PENDING"
    BY <1>5, <2>1 DEF FinishRead
  <2> QED BY <1>2, <2>2 DEF ReadHolds
<1>6. ASSUME NEW r \in Requests, CancelRead(h, r)
      PROVE  /\ ReadHolds(pc[h], call[h])'
             /\ \A g \in Handlers \ {h} : pc'[g] = pc[g] /\ call'[g] = call[g]
  <2>1. Become(h, "cancelRequest", r) /\ UNCHANGED request /\ request[r] # "MATCHED"
    BY <1>6 DEF CancelRead, Active
  <2> QED BY <1>2, <2>1 DEF ReadHolds
<1>7. ASSUME NEW r \in Requests, CreateRequest(h, r)
      PROVE  /\ ReadHolds(pc[h], call[h])'
             /\ \A g \in Handlers \ {h} : pc'[g] = pc[g] /\ call'[g] = call[g]
  BY <1>3, <1>7 DEF CreateRequest
<1>8. ASSUME NEW p \in Proposals, RecoverMatch(h, p)
      PROVE  /\ ReadHolds(pc[h], call[h])'
             /\ \A g \in Handlers \ {h} : pc'[g] = pc[g] /\ call'[g] = call[g]
  BY <1>3, <1>8 DEF RecoverMatch
<1>9. CASE BeginSearch(h) \/ CreateMatchRead(h)
  BY <1>3, <1>9 DEF BeginSearch, CreateMatchRead, Done
<1>10. CASE FindBestCandidate(h)
  <2>1. Done(h) \/ \E pair : Become(h, "propose", pair)
    BY <1>10 DEF FindBestCandidate
  <2> QED BY <1>3, <2>1 DEF Done
<1>11. CASE AcceptLast(h)
  BY <1>3, <1>11 DEF AcceptLast
<1>12. CASE Done(h)
  BY <1>3, <1>12 DEF Done
<1>13. CASE CancelFind(h)
  <2>1. PICK r : r = call[h]
    OBVIOUS
  <2>2. PICK c : c = [request |-> r, proposals |-> PendingWith(r)]
    OBVIOUS
  <2>3. /\ c.request = r /\ c.proposals = PendingWith(r) /\ Become(h, "cancel", c)
        /\ UNCHANGED <<request, proposal>> /\ request[r] # "MATCHED"
    BY <1>13, <2>1, <2>2 DEF CancelFind, Calm, ReadHolds
  <2>4. PendingWith(r)' = PendingWith(r)
    BY <2>3 DEF PendingWith, Holds
  <2> QED BY <1>2, <2>3, <2>4 DEF ReadHolds
<1> QED BY <1>4, <1>5, <1>6, <1>7, <1>8, <1>9, <1>10, <1>11, <1>12, <1>13
        DEF Handle, CreateProposal, AcceptFirst, FinishWrite, CancelWrite, CreateMatchWrite, Abort

\* While the reads hold, a proposal becomes accepted only from pending, alone.
LEMMA WhoseAcceptance ==
    ASSUME Inv, Calm, [Next]_vars, NEW p \in Proposals, Accepted(p)'
    PROVE  \/ Accepted(p) /\ proposal'[p].pair = proposal[p].pair
           \/ /\ proposal[p] # NoProposal /\ proposal[p].status = "PENDING"
              /\ proposal'[p].pair = proposal[p].pair
              /\ \A q \in Proposals : q # p => proposal'[q] = proposal[q]
<1> DEFINE Stands == Accepted(p) /\ proposal'[p].pair = proposal[p].pair
<1>1. CASE UNCHANGED proposal
  BY <1>1 DEF Accepted
<1>2. ASSUME NEW h \in Handlers, CreateProposal(h) PROVE Stands
  <2>1. CASE UNCHANGED proposal
    BY <2>1 DEF Accepted
  <2>2. ASSUME NEW q \in Proposals, NEW row, row.status = "PENDING",
               proposal' = [proposal EXCEPT ![q] = row]
        PROVE  Stands
    BY <2>2 DEF Accepted, Inv, TypeOK
  <2>3. ASSUME NEW q \in Proposals, NEW pair,
               proposal' = [proposal EXCEPT ![q] = [pair |-> pair, accepted |-> {}, status |-> "PENDING"]]
        PROVE  Stands
    BY <2>2, <2>3
  <2> QED BY <1>2, <2>1, <2>3 DEF CreateProposal
<1>3. ASSUME NEW h \in Handlers, AcceptFirst(h) PROVE Stands
  <2>1. PICK q \in Proposals : q = call[h].proposal /\ proposal[q] \in ProposalRows
    BY <1>3, AcceptCall DEF AcceptFirst
  <2>2. CASE UNCHANGED proposal
    BY <2>2 DEF Accepted
  <2>3. CASE proposal' = Accepting(h) /\ proposal[q].status # "ACCEPTED"
    <3>1. /\ proposal'[q].status = proposal[q].status /\ proposal'[q].pair = proposal[q].pair
          /\ p # q => proposal'[p] = proposal[p]
      BY <2>1, <2>3 DEF Accepting, Inv, TypeOK, ProposalRows
    <3> QED BY <2>3, <3>1 DEF Accepted
  <2> QED BY <1>3, <2>1, <2>2, <2>3 DEF AcceptFirst
<1>4. ASSUME NEW h \in Handlers, AcceptLast(h)
      PROVE  \/ Stands
             \/ /\ proposal[p] # NoProposal /\ proposal[p].status = "PENDING"
                /\ proposal'[p].pair = proposal[p].pair
                /\ \A q \in Proposals : q # p => proposal'[q] = proposal[q]
  <2>1. PICK q \in Proposals : q = call[h].proposal
    BY <1>4, AcceptLastLooks
  <2>2. /\ proposal[q] # NoProposal /\ proposal[q].status = "PENDING"
        /\ proposal'[q].pair = proposal[q].pair
        /\ \A other \in Proposals : other # q => proposal'[other] = proposal[other]
    BY <1>4, <2>1, AcceptLastLooks DEF AcceptLast, Calm, ReadHolds
  <2> QED BY <2>2 DEF Accepted
<1>5. ASSUME NEW h \in Handlers, FinishWrite(h) PROVE Stands
  <2>1. PICK q \in Proposals : q = call[h].proposal
    BY <1>5, FinishWriteLooks
  <2>2. /\ proposal'[q].status \in {"REJECTED", "EXPIRED"}
        /\ p # q => proposal'[p] = proposal[p]
    BY <1>5, <2>1, FinishWriteLooks
  <2> QED BY <2>2 DEF Accepted
<1>6. ASSUME NEW h \in Handlers, CancelWrite(h) PROVE Stands
  <2>1. PICK c : c = call[h]
    OBVIOUS
  <2>2. /\ p \in c.proposals => proposal'[p].status = "CANCELLED"
        /\ p \notin c.proposals => proposal'[p] = proposal[p]
    BY <1>6, <2>1, CancelWriteLooks
  <2> QED BY <2>2 DEF Accepted
<1> QED BY <1>1, <1>2, <1>3, <1>4, <1>5, <1>6 DEF Next, Handle, Lapse, ExpireRequests, CreateRequest,
           CancelRead, CancelFind, BeginSearch, FindBestCandidate, AcceptRead, FinishRead, RecoverMatch,
           CreateMatchRead, CreateMatchWrite, Abort, vars

\* One whose requests are proposed, the other's are matched: so they share none.
LEMMA PairedOnceStays ==
    ASSUME Inv, Calm, PairedOnce, [Next]_vars PROVE PairedOnce'
<1>1. ASSUME NEW p \in Proposals, NEW q \in Proposals, NEW r,
             Accepted(p)', Accepted(q)', r \in proposal'[p].pair, r \in proposal'[q].pair, p # q
      PROVE  FALSE
  <2>1. ASSUME NEW new \in Proposals, NEW old \in Proposals,
               proposal[new] # NoProposal, proposal[new].status = "PENDING", r \in proposal[new].pair,
               Accepted(old), r \in proposal[old].pair
        PROVE  FALSE
    BY <2>1 DEF Calm, RequestsFollow, Accepted
  <2>2. CASE Accepted(p) /\ Accepted(q) /\ r \in proposal[p].pair /\ r \in proposal[q].pair
    BY <1>1, <2>2 DEF PairedOnce
  <2>3. ASSUME NEW a \in Proposals, NEW b \in Proposals, a # b, Accepted(b)', r \in proposal'[b].pair,
               proposal[a] # NoProposal, proposal[a].status = "PENDING", r \in proposal[a].pair,
               \A c \in Proposals : c # a => proposal'[c] = proposal[c]
        PROVE  FALSE
    BY <2>1, <2>3 DEF Accepted
  <2> QED BY <1>1, <2>2, <2>3, WhoseAcceptance
<1> QED BY <1>1 DEF PairedOnce

\* The inductive invariant of the specification with the history variable.
MCInv ==
    /\ Inv
    /\ ProposedIsPending
    /\ PendingOnce
    /\ ~crossed => Calm /\ PairedOnce

LEMMA NextKeepsCalm ==
    ASSUME MCInv, [MCNext]_<<vars, crossed>>, ~crossed' PROVE Calm'
<1>1. CASE UNCHANGED <<vars, crossed>>
  <2>1. UNCHANGED vars /\ Calm
    BY <1>1 DEF MCInv
  <2> QED BY <2>1 DEF vars, Calm, RequestsFollow, ReadHolds, PendingWith, Holds
<1>2. CASE MCNext
  <2>1. ~crossed /\ \A h \in Handlers :
            pc[h] \in {"accept", "finish", "cancelRequest", "cancel"} /\ pc'[h] = pc[h] => UNCHANGED proposal
    BY <1>2 DEF MCNext
  <2>2. Inv /\ ProposedIsPending /\ PendingOnce /\ Calm /\ [Next]_vars
    BY <1>2, <2>1 DEF MCInv, MCNext
  <2>3. \A p \in Proposals : RequestsFollow(p)'
    BY <2>2, NextFollows
  <2>4. ASSUME NEW g \in Handlers, pc'[g] = pc[g], call'[g] = call[g]
        PROVE  ReadHolds(pc[g], call[g])'
    <3>1. CASE pc[g] \in {"accept", "finish", "cancelRequest", "cancel"}
      BY <2>1, <2>2, <2>4, <3>1, StandingReadHolds
    <3>2. CASE pc[g] \notin {"accept", "finish", "cancelRequest", "cancel"}
      BY <2>4, <3>2 DEF ReadHolds
    <3> QED BY <3>1, <3>2
  <2>5. CASE UNCHANGED <<pc, call>>
    BY <2>3, <2>4, <2>5 DEF Calm
  <2>6. ASSUME NEW h \in Handlers, Handle(h) PROVE Calm'
    <3>1. /\ ReadHolds(pc[h], call[h])'
          /\ \A g \in Handlers \ {h} : pc'[g] = pc[g] /\ call'[g] = call[g]
      BY <2>2, <2>6, MovingReadHolds
    <3>2. \A g \in Handlers : ReadHolds(pc[g], call[g])'
      BY <2>4, <3>1
    <3> QED BY <2>3, <3>2 DEF Calm
  <2> QED BY <1>2, <2>5, <2>6 DEF MCNext, Next, Lapse, ExpireRequests
<1> QED BY <1>1, <1>2

LEMMA NextKeepsMCInv == MCInv /\ [MCNext]_<<vars, crossed>> => MCInv'
<1> SUFFICES ASSUME MCInv, [MCNext]_<<vars, crossed>> PROVE MCInv'
  OBVIOUS
<1>1. [Next]_vars
  BY DEF MCNext
<1>2. Inv' /\ ProposedIsPending' /\ PendingOnce'
  BY <1>1, NextKeepsInv, NextKeepsPending DEF MCInv
<1>3. ASSUME ~crossed' PROVE PairedOnce'
  <2>1. ~crossed
    BY <1>3 DEF MCNext
  <2> QED BY <1>1, <2>1, PairedOnceStays DEF MCInv
<1> QED BY <1>2, <1>3, NextKeepsCalm DEF MCInv

LEMMA MCInitInv == MCInit => MCInv
<1> SUFFICES ASSUME MCInit PROVE MCInv
  OBVIOUS
<1>1. Inv /\ ProposedIsPending /\ PendingOnce
  BY InitInv, InitPending DEF MCInit
<1>2. Calm
  BY DEF MCInit, Init, Calm, RequestsFollow, ReadHolds
<1>3. PairedOnce
  BY DEF MCInit, Init, PairedOnce, Accepted
<1> QED BY <1>1, <1>2, <1>3 DEF MCInv

-----------------------------------------------------------------------------
\* The rows keep their types; in particular nobody has accepted a proposal who
\* is not one of its pair.
THEOREM TypeCorrect == Spec => []TypeOK
<1>1. Inv => TypeOK
  BY DEF Inv
<1> QED BY SpecInv, <1>1, PTL

\* A request is matched, and a match made, only when both have accepted one
\* proposal, whatever acceptances, rejections and cancellations overlap.
THEOREM ConsentedByBoth == Spec => []MatchedByConsent
<1>1. Inv => MatchedByConsent
  BY DEF Inv
<1> QED BY SpecInv, <1>1, PTL

\* No request waits for an answer that cannot come: whatever acceptances,
\* rejections, expiries and cancellations overlap, one that is PROPOSED is in
\* a proposal that is still pending.
THEOREM ProposedCanEnd == Spec => []ProposedIsPending
BY SpecInv, InitPending, NextKeepsPending, PTL DEF Spec

\* "Both users accepting marks their requests MATCHED" (docs/domain-model.md),
\* whenever no proposal is written under an answer or a cancellation that has
\* read it.
THEOREM MatchedWhenAccepted == MCSpec => []MatchedUnlessCrossed
<1>1. MCInv => MatchedUnlessCrossed
  BY DEF MCInv, MatchedUnlessCrossed, Calm, RequestsFollow
<1> QED BY MCInitInv, NextKeepsMCInv, <1>1, PTL DEF MCSpec

\* No request is in two accepted proposals, so that none plays two matches
\* (acceptProposal), whenever no proposal is written under an answer or a
\* cancellation that has read it.
THEOREM PlaysOnce == MCSpec => []PairedOnceUnlessCrossed
<1>1. MCInv => PairedOnceUnlessCrossed
  BY DEF MCInv, PairedOnceUnlessCrossed
<1> QED BY MCInitInv, NextKeepsMCInv, <1>1, PTL DEF MCSpec

\* A request that is matched, cancelled or expired is never in play again.
THEOREM OverForGood == Spec => OverStaysOver
BY SpecInv, StepLeavesOver, PTL DEF Spec, OverStaysOver
=============================================================================
