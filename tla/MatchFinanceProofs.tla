------------------------- MODULE MatchFinanceProofs -------------------------
(***************************************************************************)
(* Proofs about MatchFinance, for every finite set of participants, every  *)
(* entry, and any number of handlers.                                      *)
(***************************************************************************)
EXTENDS MCMatchFinance, FiniteSetTheorems, TLAPS

\* A settlement that was found eligible names a participant as its winner
\* when it has one.
WinnerNamed ==
    \A h \in Handlers : pc[h] = "settle" /\ call[h].type = "WINNER_TAKES_ALL" =>
        call[h].winner \in Participants

\* What PlayersPaid rests on.  Until a match ends or is played, nothing is
\* refunded or settled, nor about to be; and whoever is ready has paid.
PaidWhileLive ==
    /\ status \in {"AWAITING_READY", "READY", "IN_PROGRESS"} =>
         /\ \A p \in Participants : reservation[p] \notin {"REFUNDED", "SETTLED"}
         /\ \A h \in Handlers : pc[h] \notin {"refund", "settle"}
         /\ \A p \in readied : reservation[p] # "NONE"
    /\ status \in {"READY", "IN_PROGRESS"} => readied = Participants

UntilPlayed == "OPERATIONAL_RECOVERY" \notin RefundReasons => PaidWhileLive

\* The inductive invariant.
MInv == TypeOK /\ WinnerNamed /\ EscrowExact /\ SettlementCoversAll /\ UntilPlayed

-----------------------------------------------------------------------------
\* The steps of a match, as far as points depend on them.
OutcomeMove ==
    \/ OutcomeStep
    \/ BeginPlay
    \/ OpenDispute
    \/ \E verdict \in Verdicts : ResolveConflict(verdict)
    \/ \E p \in Participants : Satisfied(p) /\ MarkReady(p) /\ UNCHANGED money
    \/ UNCHANGED outcomeVars

\* A handler goes to its next step, with what it has read.
HandlerMove ==
    \E h \in Handlers, step \in Running \cup Idle : \E read \in Calls(step) :
        /\ Become(h, step, read)
        /\ step = "settle" =>
             /\ status \in {"VOIDED", "COMPLETED"}
             /\ read.type = "WINNER_TAKES_ALL" => read.winner \in Participants
        /\ step = "refund" => \E reason \in RefundReasons : RefundAllowed(reason)

\* The five ways in which points and reservations change.
Quiet == UNCHANGED money

ReserveMove ==
    \E p \in Participants :
        /\ reservation[p] = "NONE" /\ funds[p] >= Entry
        /\ funds' = [funds EXCEPT ![p] = @ - Entry]
        /\ escrow' = escrow + Entry
        /\ reservation' = [reservation EXCEPT ![p] = "RESERVED"]
        /\ UNCHANGED settlement

ReleaseMove == ReleaseAll /\ UNCHANGED <<funds, escrow, settlement>>

RefundMove ==
    \E rows \in SUBSET Participants :
        /\ \A p \in rows : reservation[p] = "RESERVED"
        /\ \E h \in Handlers : pc[h] = "refund"
        /\ escrow >= Cardinality(rows) * Entry
        /\ escrow' = escrow - Cardinality(rows) * Entry
        /\ funds' = [p \in Participants |-> IF p \in rows THEN funds[p] + Entry ELSE funds[p]]
        /\ reservation' = [p \in Participants |->
                             IF p \in rows THEN "REFUNDED" ELSE reservation[p]]
        /\ UNCHANGED settlement

SettleMove ==
    \E s \in Settlements :
        /\ s.type = "WINNER_TAKES_ALL" => s.winner \in Participants
        /\ \E h \in Handlers : pc[h] = "settle"
        /\ escrow = Total /\ settlement = NoSettlement
        /\ escrow' = escrow - Total
        /\ funds' = PaidOut(s.type, s.winner)
        /\ reservation' = [p \in Participants |->
                             IF s.type = "WINNER_TAKES_ALL" THEN "SETTLED" ELSE "REFUNDED"]
        /\ settlement' = s

MoneyMove == Quiet \/ ReserveMove \/ ReleaseMove \/ RefundMove \/ SettleMove

-----------------------------------------------------------------------------
LEMMA CallsByStep ==
    /\ Calls("reserve") = [participant : Participants]
    /\ Calls("refund") = [rows : SUBSET Participants]
    /\ Calls("settle") = Settlements
    /\ \A step \in (Running \cup Idle) \ {"reserve", "refund", "settle"} :
         Calls(step) = {NoCall}
BY DEF Calls, Running, Idle

LEMMA CallOf ==
    ASSUME TypeOK, NEW h \in Handlers
    PROVE  /\ pc[h] = "reserve" => call[h].participant \in Participants
           /\ pc[h] = "refund" => call[h].rows \in SUBSET Participants
           /\ pc[h] = "settle" => call[h] \in Settlements
<1>1. call[h] \in Calls(pc[h])
  BY DEF TypeOK
<1>2. ASSUME NEW c \in Calls("reserve")
      PROVE  c.participant \in Participants
  BY DEF Calls
<1>3. ASSUME NEW c \in Calls("refund")
      PROVE  c.rows \in SUBSET Participants
  BY DEF Calls
<1>4. Calls("settle") = Settlements
  BY DEF Calls
<1>5. pc[h] = "reserve" => call[h] \in Calls("reserve")
  BY <1>1
<1>6. pc[h] = "refund" => call[h] \in Calls("refund")
  BY <1>1
<1>7. pc[h] = "settle" => call[h] \in Calls("settle")
  BY <1>1
<1> QED
  BY <1>2, <1>3, <1>4, <1>5, <1>6, <1>7

LEMMA FinishedCall == NoCall \in Calls("idle") /\ "idle" \in Running \cup Idle
BY CallsByStep DEF Running, Idle

LEMMA DoneMoves ==
    ASSUME NEW h \in Handlers, Done(h)
    PROVE  HandlerMove
BY FinishedCall DEF Done, HandlerMove

LEMMA PlainMoves ==
    ASSUME NEW h \in Handlers,
           NEW step \in (Running \cup Idle) \ {"reserve", "refund", "settle"},
           Become(h, step, NoCall)
    PROVE  HandlerMove
BY CallsByStep DEF HandlerMove

\* What each step of the specification does to the match, to the handlers,
\* to the points and to the expired reservations.
StepParts ==
    /\ OutcomeMove
    /\ HandlerMove \/ UNCHANGED handlers
    /\ MoneyMove
    /\ lapsed' = lapsed \/ \E p \in Participants : lapsed' = lapsed \cup {p}

LEMMA MatchStepParts ==
    ASSUME MatchStep \/ \E verdict \in Verdicts : DecideConflict(verdict)
    PROVE  StepParts
BY DEF MatchStep, DecideConflict, StepParts, OutcomeMove, MoneyMove, Quiet, financeVars, money,
       handlers

LEMMA ParticipantStepParts ==
    ASSUME NEW p \in Participants, Lapse(p) \/ Ready(p)
    PROVE  StepParts
BY DEF Lapse, Ready, StepParts, OutcomeMove, MoneyMove, Quiet, financeVars, money, handlers,
       outcomeVars

LEMMA AdminReleaseParts ==
    ASSUME AdminRelease
    PROVE  StepParts
BY DEF AdminRelease, StepParts, OutcomeMove, MoneyMove, ReleaseMove, handlers, outcomeVars

LEMMA ReserveParts ==
    ASSUME TypeOK, NEW h \in Handlers,
           ReserveCommit(h) \/ \E p \in Participants : ReserveBegin(h, p)
    PROVE  StepParts
<1>1. ASSUME NEW p \in Participants, ReserveBegin(h, p)
      PROVE  StepParts
  <2>1. "reserve" \in Running \cup Idle /\ [participant |-> p] \in Calls("reserve")
    BY CallsByStep DEF Running
  <2> QED
    BY <1>1, <2>1 DEF ReserveBegin, StepParts, OutcomeMove, HandlerMove, MoneyMove, Quiet,
                     financeVars, money
<1>2. ASSUME ReserveCommit(h)
      PROVE  StepParts
  <2>1. pc[h] = "reserve" /\ call[h].participant \in Participants
    BY <1>2, CallOf DEF ReserveCommit
  <2>2. HandlerMove
    <3>1. "SCHEMA_REFUSED" \in (Running \cup Idle) \ {"reserve", "refund", "settle"}
      BY DEF Running, Idle
    <3> QED
      BY <1>2, <3>1, PlainMoves, DoneMoves DEF ReserveCommit
  <2>3. Quiet \/ ReserveMove
    BY <1>2, <2>1 DEF ReserveCommit, CanPay, Quiet, ReserveMove, financeVars, money
  <2>4. lapsed' = lapsed /\ UNCHANGED outcomeVars
    BY <1>2 DEF ReserveCommit, financeVars
  <2> QED
    BY <2>2, <2>3, <2>4 DEF StepParts, OutcomeMove, MoneyMove
<1> QED
  BY <1>1, <1>2

LEMMA StartParts ==
    ASSUME NEW h \in Handlers,
           StartBegin(h) \/ Start(h) \/ ReleaseCheck(h) \/ Release(h)
    PROVE  StepParts
<1>1. HandlerMove
  <2>1. {"start", "started", "release"} \subseteq
          (Running \cup Idle) \ {"reserve", "refund", "settle"}
    BY DEF Running
  <2> QED
    BY <2>1, PlainMoves, DoneMoves DEF StartBegin, Start, ReleaseCheck, Release
<1>2. OutcomeMove
  BY DEF StartBegin, Start, ReleaseCheck, Release, OutcomeMove, outcomeVars
<1>3. Quiet \/ ReleaseMove
  BY DEF StartBegin, Start, ReleaseCheck, Release, Quiet, ReleaseMove, financeVars, money
<1>4. lapsed' = lapsed
  BY DEF StartBegin, Start, ReleaseCheck, Release, financeVars
<1> QED
  BY <1>1, <1>2, <1>3, <1>4 DEF StepParts, MoneyMove

LEMMA RefundParts ==
    ASSUME TypeOK, NEW h \in Handlers,
           \/ RefundCommit(h)
           \/ \E reason \in RefundReasons, rows \in SUBSET Participants :
                RefundBegin(h, reason, rows)
    PROVE  StepParts
<1>1. ASSUME NEW reason \in RefundReasons, NEW rows \in SUBSET Participants,
             RefundBegin(h, reason, rows)
      PROVE  StepParts
  <2>1. "refund" \in Running \cup Idle /\ [rows |-> rows] \in Calls("refund")
    BY CallsByStep DEF Running
  <2> QED
    BY <1>1, <2>1 DEF RefundBegin, StepParts, OutcomeMove, HandlerMove, MoneyMove, Quiet,
                     financeVars, money
<1>2. ASSUME RefundCommit(h)
      PROVE  StepParts
  <2>1. pc[h] = "refund" /\ call[h].rows \in SUBSET Participants
    BY <1>2, CallOf DEF RefundCommit
  <2>2. HandlerMove
    BY <1>2, DoneMoves DEF RefundCommit
  <2>3. Quiet \/ RefundMove
    BY <1>2, <2>1 DEF RefundCommit, StillReserved, Quiet, RefundMove, financeVars, money
  <2>4. lapsed' = lapsed /\ UNCHANGED outcomeVars
    BY <1>2 DEF RefundCommit, financeVars
  <2> QED
    BY <2>2, <2>3, <2>4 DEF StepParts, OutcomeMove, MoneyMove
<1> QED
  BY <1>1, <1>2

\* A settlement found eligible has a winner when it awards the entries.
LEMMA EligibleWinner ==
    ASSUME TypeOK, Eligible, SettlementType = "WINNER_TAKES_ALL"
    PROVE  result \in Participants
BY DEF TypeOK, Eligible, SettlementType, Verdicts

LEMMA SettleParts ==
    ASSUME TypeOK, WinnerNamed, NEW h \in Handlers,
           SettleBegin(h) \/ SettleCommit(h)
    PROVE  StepParts
<1>1. ASSUME SettleBegin(h)
      PROVE  StepParts
  <2> DEFINE read == [type |-> SettlementType,
                      winner |-> IF SettlementType = "WINNER_TAKES_ALL" THEN result ELSE "NONE"]
  <2>1. Eligible /\ Become(h, "settle", read)
    BY <1>1 DEF SettleBegin
  <2>2. SettlementType \in SettlementTypes
    BY DEF SettlementType, SettlementTypes
  <2>3. read \in Settlements
    BY <2>1, <2>2, EligibleWinner DEF Settlements, Verdicts
  <2>4. read.type = "WINNER_TAKES_ALL" => read.winner \in Participants
    BY <2>1, EligibleWinner
  <2>5. status \in {"VOIDED", "COMPLETED"}
    BY <2>1 DEF Eligible
  <2> HIDE DEF read
  <2>6. read \in Calls("settle") /\ "settle" \in Running \cup Idle
    BY <2>3, CallsByStep DEF Running
  <2>7. HandlerMove
    BY <2>1, <2>4, <2>5, <2>6 DEF HandlerMove
  <2> QED
    BY <1>1, <2>7 DEF SettleBegin, StepParts, OutcomeMove, MoneyMove, Quiet, financeVars, money
<1>2. ASSUME SettleCommit(h)
      PROVE  StepParts
  <2> DEFINE s == call[h]
  <2>1. pc[h] = "settle" /\ s \in Settlements
    BY <1>2, CallOf DEF SettleCommit
  <2>2. s.type = "WINNER_TAKES_ALL" => s.winner \in Participants
    BY <2>1 DEF WinnerNamed
  <2>3. HandlerMove
    BY <1>2, DoneMoves DEF SettleCommit
  <2>4. Quiet \/ SettleMove
    BY <1>2, <2>1, <2>2 DEF SettleCommit, EscrowWhole, Quiet, SettleMove, financeVars, money
  <2>5. lapsed' = lapsed /\ UNCHANGED outcomeVars
    BY <1>2 DEF SettleCommit, financeVars
  <2> QED
    BY <2>3, <2>4, <2>5 DEF StepParts, OutcomeMove, MoneyMove
<1> QED
  BY <1>1, <1>2

LEMMA DisputeAndAbortParts ==
    ASSUME NEW h \in Handlers, DisputeCheck(h) \/ Dispute(h) \/ Abort(h)
    PROVE  StepParts
<1>1. HandlerMove
  <2>1. "dispute" \in (Running \cup Idle) \ {"reserve", "refund", "settle"}
    BY DEF Running
  <2> QED
    BY <2>1, PlainMoves, DoneMoves DEF DisputeCheck, Dispute, Abort
<1>2. OutcomeMove /\ UNCHANGED financeVars
  BY DEF DisputeCheck, Dispute, Abort, OutcomeMove, outcomeVars
<1> QED
  BY <1>1, <1>2 DEF StepParts, MoneyMove, Quiet, financeVars, money

LEMMA EveryStepParts ==
    ASSUME TypeOK, WinnerNamed, [Next]_vars
    PROVE  StepParts
<1>1. CASE Next
  BY <1>1, MatchStepParts, ParticipantStepParts, AdminReleaseParts, ReserveParts, StartParts,
     RefundParts, SettleParts, DisputeAndAbortParts DEF Next, HandlerStep
<1>2. CASE UNCHANGED vars
  BY <1>2 DEF vars, StepParts, OutcomeMove, MoneyMove, Quiet, financeVars, money
<1> QED
  BY <1>1, <1>2

-----------------------------------------------------------------------------
(* Type correctness.                                                       *)

LEMMA OutcomeTypeStep ==
    ASSUME OutcomeTypeOK, OutcomeMove
    PROVE  OutcomeTypeOK'
<1>1. ASSUME PassDeadline \/ PassDelay \/ SubmitRead \/ ExpireSubmissions \/ CancelDispute
      PROVE  OutcomeTypeOK'
  BY <1>1 DEF OutcomeTypeOK, PassDeadline, PassDelay, SubmitRead, ExpireSubmissions,
              CancelDispute, resultVars, disputeVars, Statuses
<1>2. ASSUME Cancel \/ ExpireUnready \/ VoidMatch
      PROVE  OutcomeTypeOK'
  BY <1>2 DEF OutcomeTypeOK, Cancel, ExpireUnready, VoidMatch, EndAs, resultVars, disputeVars, Statuses
<1>3. ASSUME NEW outcome \in Verdicts \cup {"CONFLICT"}, SubmitWrite(outcome)
      PROVE  OutcomeTypeOK'
  <2>1. (outcome = "CONFLICT") \in BOOLEAN
    OBVIOUS
  <2> QED
    BY <1>3, <2>1 DEF OutcomeTypeOK, SubmitWrite, disputeVars, Statuses
<1>4. ASSUME NEW resolution \in Verdicts \cup {"KEEP", "VOIDED"}, ResolveDispute(resolution)
      PROVE  OutcomeTypeOK'
  BY <1>4 DEF OutcomeTypeOK, ResolveDispute, Statuses
<1>5. ASSUME BeginPlay \/ OpenDispute \/ \E verdict \in Verdicts : ResolveConflict(verdict)
      PROVE  OutcomeTypeOK'
  BY <1>5 DEF OutcomeTypeOK, BeginPlay, OpenDispute, ResolveConflict, resultVars, disputeVars,
              Statuses
<1>6. ASSUME NEW p \in Participants, MarkReady(p)
      PROVE  OutcomeTypeOK'
  BY <1>6 DEF OutcomeTypeOK, MarkReady, resultVars, disputeVars, Statuses
<1>7. ASSUME UNCHANGED outcomeVars
      PROVE  OutcomeTypeOK'
  BY <1>7 DEF OutcomeTypeOK, outcomeVars
<1> QED
  BY <1>1, <1>2, <1>3, <1>4, <1>5, <1>6, <1>7 DEF OutcomeMove, OutcomeStep

LEMMA NaturalAmounts ==
    /\ IsFiniteSet(Participants)
    /\ \A S \in SUBSET Participants :
         Cardinality(S) \in Nat /\ Cardinality(S) * Entry \in Nat
    /\ Entry \in Nat /\ Entry > 0 /\ Total \in Nat
<1>1. IsFiniteSet(Participants) /\ Entry \in Nat /\ Entry > 0
  BY ParticipantsAssumption, EntryAssumption
<1>2. ASSUME NEW S \in SUBSET Participants
      PROVE  Cardinality(S) \in Nat
  BY <1>1, FS_Subset, FS_CardinalityType
<1>3. \A n \in Nat : n * Entry \in Nat
  BY <1>1
<1> QED
  BY <1>1, <1>2, <1>3 DEF Total

LEMMA MoneyTypeStep ==
    ASSUME TypeOK, MoneyMove
    PROVE  /\ funds' \in [Participants -> Nat]
           /\ escrow' \in Nat
           /\ reservation' \in [Participants -> ReservationStatuses]
           /\ settlement' \in Settlements \cup {NoSettlement}
<1> USE DEF ReservationStatuses
<1>0. /\ funds \in [Participants -> Nat] /\ escrow \in Nat
      /\ reservation \in [Participants -> ReservationStatuses]
      /\ settlement \in Settlements \cup {NoSettlement}
  BY DEF TypeOK
<1>1. CASE Quiet
  BY <1>0, <1>1 DEF Quiet, money
<1>2. CASE ReserveMove
  BY <1>0, <1>2, NaturalAmounts DEF ReserveMove
<1>3. CASE ReleaseMove
  BY <1>0, <1>3 DEF ReleaseMove, ReleaseAll
<1>4. CASE RefundMove
  BY <1>0, <1>4, NaturalAmounts DEF RefundMove
<1>5. CASE SettleMove
  <2>1. PICK s \in Settlements :
          /\ escrow = Total /\ escrow' = escrow - Total
          /\ funds' = PaidOut(s.type, s.winner)
          /\ reservation' = [p \in Participants |->
                               IF s.type = "WINNER_TAKES_ALL" THEN "SETTLED" ELSE "REFUNDED"]
          /\ settlement' = s
    BY <1>5 DEF SettleMove
  <2>2. PaidOut(s.type, s.winner) \in [Participants -> Nat]
    <3>1. \A n \in Nat : n + Total \in Nat /\ n + Entry \in Nat
      BY NaturalAmounts
    <3> QED
      BY <1>0, <3>1 DEF PaidOut
  <2>3. Total - Total = 0
    BY NaturalAmounts
  <2> QED
    BY <2>1, <2>2, <2>3
<1> QED
  BY <1>1, <1>2, <1>3, <1>4, <1>5 DEF MoneyMove

LEMMA HandlerTypeStep ==
    ASSUME TypeOK, HandlerMove \/ UNCHANGED handlers
    PROVE  /\ pc' \in [Handlers -> Running \cup Idle]
           /\ call' \in [Handlers -> UNION {Calls(step) : step \in Running \cup Idle}]
           /\ \A h \in Handlers : call'[h] \in Calls(pc'[h])
<1> DEFINE Steps == Running \cup Idle
           Read == UNION {Calls(step) : step \in Steps}
<1>0. pc \in [Handlers -> Steps] /\ call \in [Handlers -> Read]
      /\ \A h \in Handlers : call[h] \in Calls(pc[h])
  BY DEF TypeOK
<1>1. CASE UNCHANGED handlers
  BY <1>0, <1>1 DEF handlers
<1>2. CASE HandlerMove
  <2>1. PICK h \in Handlers, step \in Steps : \E read \in Calls(step) : Become(h, step, read)
    BY <1>2 DEF HandlerMove
  <2>2. PICK read \in Calls(step) : Become(h, step, read)
    BY <2>1
  <2>3. read \in Read
    OBVIOUS
  <2> HIDE DEF Steps, Read
  <2>4. pc' \in [Handlers -> Steps] /\ call' \in [Handlers -> Read]
    BY <1>0, <2>2, <2>3 DEF Become
  <2>5. \A g \in Handlers : call'[g] \in Calls(pc'[g])
    BY <1>0, <2>2 DEF Become
  <2> QED
    BY <2>4, <2>5 DEF Steps, Read
<1> QED
  BY <1>1, <1>2

LEMMA TypeStep ==
    ASSUME TypeOK, StepParts
    PROVE  TypeOK'
<1>1. OutcomeTypeOK'
  BY OutcomeTypeStep DEF TypeOK, StepParts
<1>2. /\ funds' \in [Participants -> Nat] /\ escrow' \in Nat
      /\ reservation' \in [Participants -> ReservationStatuses]
      /\ settlement' \in Settlements \cup {NoSettlement}
  BY MoneyTypeStep DEF StepParts
<1>3. lapsed' \subseteq Participants
  BY DEF TypeOK, StepParts
<1>4. /\ pc' \in [Handlers -> Running \cup Idle]
      /\ call' \in [Handlers -> UNION {Calls(step) : step \in Running \cup Idle}]
      /\ \A h \in Handlers : call'[h] \in Calls(pc'[h])
  BY HandlerTypeStep DEF StepParts
<1> QED
  BY <1>1, <1>2, <1>3, <1>4 DEF TypeOK

-----------------------------------------------------------------------------
(* The escrow holds exactly the entries that are RESERVED or RELEASED.      *)

Holders == {p \in Participants : Held(p)}

LEMMA HoldersFinite == Holders \in SUBSET Participants /\ IsFiniteSet(Holders)
BY NaturalAmounts, FS_Subset DEF Holders

\* An escrow that holds as much as everybody's entries holds everybody's entry.
LEMMA WholeEscrowHoldsAll ==
    ASSUME EscrowExact, escrow = Total
    PROVE  \A p \in Participants : Held(p)
<1>1. Cardinality(Holders) * Entry = Cardinality(Participants) * Entry
  BY DEF EscrowExact, Total, Holders
<1>2. \A m, n \in Nat, e \in Nat \ {0} : m * e = n * e => m = n
  OBVIOUS
<1>3. Cardinality(Holders) = Cardinality(Participants)
  <2>1. Entry \in Nat \ {0}
    BY EntryAssumption
  <2>2. Cardinality(Holders) \in Nat /\ Cardinality(Participants) \in Nat
    BY HoldersFinite, NaturalAmounts, FS_CardinalityType
  <2> QED
    BY <1>1, <1>2, <2>1, <2>2
<1>4. Participants = Holders
  BY <1>3, NaturalAmounts, HoldersFinite, FS_Subset
<1> QED
  BY <1>4 DEF Holders

LEMMA EscrowStep ==
    ASSUME TypeOK, EscrowExact, MoneyMove
    PROVE  EscrowExact'
<1>0. escrow = Cardinality(Holders) * Entry /\ Cardinality(Holders) \in Nat
  BY NaturalAmounts, HoldersFinite DEF EscrowExact, Holders
<1>a. reservation \in [Participants -> ReservationStatuses] /\ Entry \in Nat
  BY NaturalAmounts DEF TypeOK
<1>b. SUFFICES escrow' = Cardinality(Holders') * Entry
  BY DEF EscrowExact, Holders
<1>1. CASE Quiet \/ ReleaseMove
  <2>1. escrow' = escrow /\ Holders' = Holders
    BY <1>a, <1>1 DEF Quiet, money, ReleaseMove, ReleaseAll, Releasable, Holders, Held
  <2> QED
    BY <1>0, <2>1
<1>2. CASE ReserveMove
  <2>1. PICK p \in Participants :
          /\ reservation[p] = "NONE" /\ escrow' = escrow + Entry
          /\ reservation' = [reservation EXCEPT ![p] = "RESERVED"]
    BY <1>2 DEF ReserveMove
  <2>2. p \notin Holders /\ Holders' = Holders \cup {p}
    BY <1>a, <2>1 DEF Holders, Held
  <2>3. Cardinality(Holders') = Cardinality(Holders) + 1
    BY <2>2, HoldersFinite, FS_AddElement
  <2>4. \A n, e \in Nat : (n + 1) * e = n * e + e
    OBVIOUS
  <2> QED
    BY <1>0, <1>a, <2>1, <2>3, <2>4
<1>3. CASE RefundMove
  <2>1. PICK rows \in SUBSET Participants :
          /\ \A p \in rows : reservation[p] = "RESERVED"
          /\ escrow' = escrow - Cardinality(rows) * Entry
          /\ reservation' = [p \in Participants |->
                               IF p \in rows THEN "REFUNDED" ELSE reservation[p]]
    BY <1>3 DEF RefundMove
  <2>2. Holders' = Holders \ rows /\ Holders \cap rows = rows
    BY <2>1 DEF Holders, Held
  <2>3. Cardinality(Holders') = Cardinality(Holders) - Cardinality(rows)
    <3>1. Cardinality(Holders \ rows) = Cardinality(Holders) - Cardinality(Holders \cap rows)
      BY HoldersFinite, FS_Difference
    <3> QED
      BY <2>2, <3>1
  <2>4. \A m, n \in Nat, e \in Nat : (m - n) * e = m * e - n * e
    OBVIOUS
  <2> QED
    BY <1>0, <1>a, <2>1, <2>3, <2>4, NaturalAmounts
<1>4. CASE SettleMove
  <2>1. escrow' = 0
    BY <1>4, NaturalAmounts DEF SettleMove
  <2>2. Holders' = {}
    BY <1>4 DEF SettleMove, Holders, Held
  <2> QED
    BY <1>a, <2>1, <2>2, FS_EmptySet
<1> QED
  BY <1>1, <1>2, <1>3, <1>4 DEF MoneyMove

-----------------------------------------------------------------------------
(* A settlement covers every entry.                                         *)

LEMMA SettlementStep ==
    ASSUME TypeOK, SettlementCoversAll, MoneyMove
    PROVE  SettlementCoversAll'
<1>a. reservation \in [Participants -> ReservationStatuses]
  BY DEF TypeOK
<1>1. CASE SettleMove
  BY <1>1 DEF SettleMove, SettlementCoversAll
<1>2. CASE ~SettleMove
  <2>1. settlement' = settlement
    BY <1>2 DEF MoneyMove, Quiet, money, ReserveMove, ReleaseMove, RefundMove
  <2> SUFFICES ASSUME settlement # NoSettlement
               PROVE  reservation' = reservation
    BY <2>1 DEF SettlementCoversAll
  <2>2. \A p \in Participants : reservation[p] \notin {"NONE", "RESERVED"}
    BY DEF SettlementCoversAll
  <2>3. CASE Quiet
    BY <2>3 DEF Quiet, money
  <2>4. CASE ReserveMove
    BY <2>2, <2>4 DEF ReserveMove
  <2>5. CASE ReleaseMove
    BY <1>a, <2>2, <2>5 DEF ReleaseMove, ReleaseAll, Releasable
  <2>6. CASE RefundMove
    BY <1>a, <2>2, <2>6 DEF RefundMove
  <2> QED
    BY <1>2, <2>3, <2>4, <2>5, <2>6 DEF MoneyMove
<1> QED
  BY <1>1, <1>2

LEMMA WinnerStep ==
    ASSUME TypeOK, WinnerNamed, HandlerMove \/ UNCHANGED handlers
    PROVE  WinnerNamed'
<1>a. pc \in [Handlers -> Running \cup Idle]
      /\ call \in [Handlers -> UNION {Calls(step) : step \in Running \cup Idle}]
  BY DEF TypeOK
<1>1. CASE UNCHANGED handlers
  BY <1>1 DEF handlers, WinnerNamed
<1>2. CASE HandlerMove
  <2>1. PICK h \in Handlers, step \in Running \cup Idle :
          \E read \in Calls(step) :
            /\ Become(h, step, read)
            /\ step = "settle" /\ read.type = "WINNER_TAKES_ALL" => read.winner \in Participants
    BY <1>2 DEF HandlerMove
  <2> QED
    BY <1>a, <2>1 DEF Become, WinnerNamed
<1> QED
  BY <1>1, <1>2

-----------------------------------------------------------------------------
(* Whoever plays has paid.                                                  *)

Live == {"AWAITING_READY", "READY", "IN_PROGRESS"}
Playing == {"READY", "IN_PROGRESS"}

\* A match that is live has always been live; only a participant whose entry
\* is satisfied becomes ready; and everybody is ready once the match is.
LEMMA LiveStep ==
    ASSUME OutcomeTypeOK, OutcomeMove, status' \in Live,
           status \in Playing => readied = Participants
    PROVE  /\ status \in Live
           /\ \/ readied' = readied
              \/ \E p \in Participants : Satisfied(p) /\ readied' = readied \cup {p} /\ Quiet
           /\ status' \in Playing => readied' = Participants
<1> USE DEF Live, Playing
<1>1. CASE OutcomeStep
  BY <1>1 DEF OutcomeStep, PassDeadline, PassDelay, SubmitRead, ExpireSubmissions, CancelDispute,
              Cancel, ExpireUnready, VoidMatch, EndAs, SubmitWrite, ResolveDispute, resultVars, disputeVars
<1>2. CASE BeginPlay \/ OpenDispute \/ \E verdict \in Verdicts : ResolveConflict(verdict)
  BY <1>2 DEF BeginPlay, OpenDispute, ResolveConflict
<1>3. ASSUME NEW p \in Participants, Satisfied(p), MarkReady(p), UNCHANGED money
      PROVE  /\ status \in Live
             /\ readied' = readied \cup {p} /\ Quiet
             /\ status' \in Playing => readied' = Participants
  BY <1>3 DEF MarkReady, Quiet
<1>4. CASE UNCHANGED outcomeVars
  BY <1>4 DEF outcomeVars
<1> QED
  BY <1>1, <1>2, <1>3, <1>4 DEF OutcomeMove

\* As long as no refund of a match that has not ended begins.
LEMMA PaidWhileLiveStep ==
    ASSUME TypeOK, PaidWhileLive, StepParts, status \notin Ended => ~Begun("refund")
    PROVE  PaidWhileLive'
<1> SUFFICES ASSUME status' \in Live
             PROVE  /\ \A p \in Participants : reservation'[p] \notin {"REFUNDED", "SETTLED"}
                    /\ \A h \in Handlers : pc'[h] \notin {"refund", "settle"}
                    /\ \A p \in readied' : reservation'[p] # "NONE"
                    /\ status' \in Playing => readied' = Participants
  BY DEF PaidWhileLive, Live, Playing
<1>0. /\ reservation \in [Participants -> ReservationStatuses]
      /\ pc \in [Handlers -> Running \cup Idle]
      /\ readied \subseteq Participants
  BY DEF TypeOK, OutcomeTypeOK
<1>1. /\ status \in Live
      /\ \/ readied' = readied
         \/ \E p \in Participants : Satisfied(p) /\ readied' = readied \cup {p} /\ Quiet
      /\ status' \in Playing => readied' = Participants
  BY LiveStep DEF StepParts, TypeOK, PaidWhileLive, Playing
<1>2. /\ \A p \in Participants : reservation[p] \notin {"REFUNDED", "SETTLED"}
      /\ \A h \in Handlers : pc[h] \notin {"refund", "settle"}
      /\ \A p \in readied : reservation[p] # "NONE"
  BY <1>1 DEF PaidWhileLive, Live
<1>3. \A p \in Participants :
        /\ reservation'[p] \notin {"REFUNDED", "SETTLED"}
        /\ reservation[p] # "NONE" => reservation'[p] # "NONE"
  <2>1. Quiet \/ ReserveMove \/ ReleaseMove
    BY <1>2 DEF StepParts, MoneyMove, RefundMove, SettleMove
  <2> QED
    BY <1>0, <1>2, <2>1
    DEF Quiet, money, ReserveMove, ReleaseMove, ReleaseAll, Releasable
<1>4. \A h \in Handlers : pc'[h] \notin {"refund", "settle"}
  <2>1. CASE UNCHANGED handlers
    BY <1>2, <2>1 DEF handlers
  <2>2. CASE HandlerMove
    <3>1. PICK h \in Handlers, step \in Running \cup Idle :
            /\ pc' = [pc EXCEPT ![h] = step]
            /\ step = "settle" => status \in {"VOIDED", "COMPLETED"}
      BY <2>2 DEF HandlerMove, Become
    <3>2. step # "settle" /\ status \notin Ended
      BY <1>1, <3>1 DEF Ended, Live
    <3>3. step # "refund"
      BY <1>0, <1>2, <3>1, <3>2 DEF Begun
    <3> QED
      BY <1>0, <1>2, <3>1, <3>2, <3>3
  <2> QED
    BY <2>1, <2>2 DEF StepParts
<1>5. \A p \in readied' : reservation'[p] # "NONE"
  BY <1>0, <1>1, <1>2, <1>3 DEF Quiet, money, Satisfied, Held
<1> QED
  BY <1>1, <1>3, <1>4, <1>5

LEMMA UntilPlayedStep ==
    ASSUME TypeOK, UntilPlayed, StepParts
    PROVE  UntilPlayed'
<1> SUFFICES ASSUME "OPERATIONAL_RECOVERY" \notin RefundReasons
             PROVE  PaidWhileLive'
  BY DEF UntilPlayed
<1>1. status \notin Ended => ~Begun("refund")
  <2> SUFFICES ASSUME NEW h \in Handlers, pc[h] # "refund", pc'[h] = "refund"
               PROVE  status \in Ended
    BY DEF Begun
  <2>1. HandlerMove
    BY DEF StepParts, handlers
  <2>2. PICK g \in Handlers, step \in Running \cup Idle :
          /\ pc' = [pc EXCEPT ![g] = step]
          /\ step = "refund" => \E reason \in RefundReasons : RefundAllowed(reason)
    BY <2>1 DEF HandlerMove, Become
  <2>3. step = "refund"
    BY <2>2 DEF TypeOK
  <2> QED
    BY <2>2, <2>3 DEF RefundAllowed
<1> QED
  BY <1>1, PaidWhileLiveStep DEF UntilPlayed

-----------------------------------------------------------------------------
(* The inductive invariant.                                                 *)

LEMMA Initially ==
    ASSUME Init
    PROVE  MInv
<1>1. TypeOK
  <2>1. OutcomeTypeOK
    BY DEF Init, OutcomeInit, OutcomeTypeOK, Statuses
  <2>2. funds \in [Participants -> Nat] /\ escrow \in Nat /\ lapsed \subseteq Participants
    BY EntryAssumption DEF Init
  <2>3. reservation \in [Participants -> ReservationStatuses]
    BY DEF Init, ReservationStatuses
  <2>4. pc \in [Handlers -> Running \cup Idle] /\ \A h \in Handlers : pc[h] = "idle"
    BY FinishedCall DEF Init
  <2>5. /\ call \in [Handlers -> UNION {Calls(step) : step \in Running \cup Idle}]
        /\ \A h \in Handlers : call[h] \in Calls(pc[h])
    <3>1. NoCall \in UNION {Calls(step) : step \in Running \cup Idle}
      BY FinishedCall
    <3>2. call = [h \in Handlers |-> NoCall]
      BY DEF Init
    <3> QED
      BY <2>4, <3>1, <3>2, FinishedCall
  <2>6. settlement \in Settlements \cup {NoSettlement}
    BY DEF Init
  <2> QED
    BY <2>1, <2>2, <2>3, <2>4, <2>5, <2>6 DEF TypeOK
<1>2. EscrowExact
  <2>1. {p \in Participants : Held(p)} = {} /\ escrow = 0
    BY DEF Init, Held
  <2>2. Cardinality({}) = 0
    BY FS_EmptySet
  <2>3. 0 * Entry = 0
    BY NaturalAmounts
  <2> QED
    BY <2>1, <2>2, <2>3 DEF EscrowExact
<1>3. WinnerNamed /\ SettlementCoversAll
  BY DEF Init, WinnerNamed, SettlementCoversAll
<1>4. UntilPlayed
  BY DEF Init, OutcomeInit, UntilPlayed, PaidWhileLive
<1> QED
  BY <1>1, <1>2, <1>3, <1>4 DEF MInv

LEMMA Invariance ==
    ASSUME MInv, [Next]_vars
    PROVE  MInv'
<1>1. StepParts
  BY EveryStepParts DEF MInv
<1> QED
  BY <1>1, TypeStep, EscrowStep, SettlementStep, WinnerStep, UntilPlayedStep DEF MInv, StepParts

\* Every reachable state satisfies the inductive invariant.
THEOREM AlwaysMInv == Spec => []MInv
BY Initially, Invariance, PTL DEF Spec

\* Every column keeps its type; no participant's balance and no escrow balance
\* is ever negative.
THEOREM TypeCorrect == Spec => []TypeOK
<1>1. MInv => TypeOK
  BY DEF MInv
<1> QED
  BY <1>1, AlwaysMInv, PTL

\* The escrow balance is the sum of the held entries, whatever races.
THEOREM EscrowIsExact == Spec => []EscrowExact
<1>1. MInv => EscrowExact
  BY DEF MInv
<1> QED
  BY <1>1, AlwaysMInv, PTL

\* A settlement finalises every reservation in one and the same way, for good.
THEOREM SettlementIsTotal == Spec => []SettlementCoversAll
<1>1. MInv => SettlementCoversAll
  BY DEF MInv
<1> QED
  BY <1>1, AlwaysMInv, PTL

\* Without operational recovery, whoever is in a ready or running match has
\* the entry in escrow.
THEOREM PlayersHavePaid == Spec => []PlayersPaid
<1>1. MInv => PlayersPaid
  <2> SUFFICES ASSUME MInv, "OPERATIONAL_RECOVERY" \notin RefundReasons,
                      status \in Playing, NEW p \in Participants
               PROVE  Held(p)
    BY DEF PlayersPaid, Playing
  <2>1. reservation[p] \notin {"NONE", "REFUNDED", "SETTLED"}
    BY DEF MInv, UntilPlayed, PaidWhileLive, Playing
  <2>2. reservation[p] \in ReservationStatuses
    BY DEF MInv, TypeOK
  <2> QED
    BY <2>1, <2>2 DEF Held, ReservationStatuses
<1> QED
  BY <1>1, AlwaysMInv, PTL

-----------------------------------------------------------------------------
(* Sums.  SumFunction adds the values of a function in the order in which    *)
(* CHOOSE picks them; every sum over a subset is reached on the way.         *)

First(s) == CHOOSE x \in s : TRUE
RunningSum(g, f, S) ==
    g = [s \in SUBSET S |-> IF s = {} THEN 0 ELSE f[First(s)] + g[s \ {First(s)}]]

\* SumFunction, unfolded.
LEMMA SumIsRunning ==
    ASSUME NEW S, NEW f \in [S -> Int]
    PROVE  SumFunction(f) = (CHOOSE g : RunningSum(g, f, S))[S]
<1>1. DOMAIN f = S
  OBVIOUS
<1>2. SumFunction(f) = (CHOOSE g : RunningSum(g, f, DOMAIN f))[DOMAIN f]
  BY DEF SumFunction, SumFunctionOnSet, FoldFunctionOnSet, MapThenFoldSet, RunningSum, First
<1> QED
  BY <1>1, <1>2

\* Of the subsets of a finite set that are bad, one has no bad proper subset.
LEMMA MinimalSubset ==
    ASSUME NEW S, IsFiniteSet(S), NEW Bad \in SUBSET (SUBSET S), Bad # {}
    PROVE  \E s \in Bad : \A t \in Bad : t \subseteq s => t = s
<1>1. IsWellFoundedOn(StrictSubsetOrdering(S), SUBSET S)
  BY FS_StrictSubsetOrderingWellFounded, FS_FiniteSubsetsOfFinite
<1>2. PICK s \in Bad : \A t \in Bad : <<t, s>> \notin StrictSubsetOrdering(S)
  BY <1>1, WFMin
<1>3. ASSUME NEW t \in Bad, t \subseteq s, t # s PROVE FALSE
  BY <1>2, <1>3 DEF StrictSubsetOrdering
<1> QED
  BY <1>3

LEMMA SmallerSet ==
    ASSUME NEW s, s # {}
    PROVE  /\ First(s) \in s
           /\ s \ {First(s)} \subseteq s /\ s \ {First(s)} # s
BY DEF First

LEMMA RunningSumInt ==
    ASSUME NEW S, IsFiniteSet(S), NEW U \in SUBSET S, NEW f \in [S -> Int],
           NEW g, RunningSum(g, f, U)
    PROVE  \A s \in SUBSET U : g[s] \in Int
<1> DEFINE Bad == {s \in SUBSET U : g[s] \notin Int}
<1> SUFFICES ASSUME Bad # {} PROVE FALSE
  OBVIOUS
<1>1. PICK s \in Bad : \A t \in Bad : t \subseteq s => t = s
  <2>1. Bad \in SUBSET (SUBSET S)
    OBVIOUS
  <2> HIDE DEF Bad
  <2> QED
    BY <2>1, MinimalSubset
<1>2. g[s] = IF s = {} THEN 0 ELSE f[First(s)] + g[s \ {First(s)}]
  BY DEF RunningSum
<1>3. s # {}
  BY <1>2
<1>4. g[s \ {First(s)}] \in Int
  BY <1>1, <1>3, SmallerSet
<1> QED
  BY <1>2, <1>3, <1>4, SmallerSet

\* Two functions on S differ by d, on K.
DifferOn(e, f, S, K, d) ==
    /\ e \in [S -> Int] /\ f \in [S -> Int] /\ d \in Int
    /\ \A x \in S : f[x] = e[x] + IF x \in K THEN d ELSE 0

Raised(x, y, K, d) == y = x + Cardinality(K) * d

\* Their sums differ by d as often as a member of K is counted.
LEMMA RunningSumsDiffer ==
    ASSUME NEW S, IsFiniteSet(S), NEW U \in SUBSET S, NEW V \in SUBSET S,
           NEW e, NEW f, NEW K, NEW d, DifferOn(e, f, S, K, d),
           NEW g, RunningSum(g, e, U), NEW h, RunningSum(h, f, V),
           NEW r, r \subseteq U, r \subseteq V
    PROVE  Raised(g[r], h[r], r \cap K, d)
<1> DEFINE Off == {s \in SUBSET S : s \subseteq U /\ s \subseteq V
                                      /\ ~Raised(g[s], h[s], s \cap K, d)}
<1> SUFFICES ASSUME Off # {} PROVE FALSE
  OBVIOUS
<1>1. PICK s \in Off : \A t \in Off : t \subseteq s => t = s
  <2>1. Off \in SUBSET (SUBSET S)
    OBVIOUS
  <2> HIDE DEF Off
  <2> QED
    BY <2>1, MinimalSubset
<1> DEFINE t == s \ {First(s)}
           n == Cardinality(t \cap K)
<1>2. /\ g[s] = IF s = {} THEN 0 ELSE e[First(s)] + g[t]
      /\ h[s] = IF s = {} THEN 0 ELSE f[First(s)] + h[t]
  BY DEF RunningSum
<1>3. IsFiniteSet(s \cap K) /\ IsFiniteSet(t \cap K)
  <2>1. s \cap K \in SUBSET S /\ t \cap K \in SUBSET S
    OBVIOUS
  <2> QED BY <2>1, FS_Subset
<1>4. s # {}
  <2>1. CASE s = {}
    <3>1. s \cap K = {}
      BY <2>1
    <3>2. Cardinality(s \cap K) = 0 /\ d \in Int
      BY <3>1, FS_EmptySet DEF DifferOn
    <3>3. Raised(g[s], h[s], s \cap K, d)
      BY <1>2, <2>1, <3>2 DEF Raised
    <3> QED BY <3>3
  <2> QED BY <2>1
<1>5. h[t] = g[t] + n * d
  <2>1. Raised(g[t], h[t], t \cap K, d)
    BY <1>1, <1>4, SmallerSet
  <2> QED BY <2>1 DEF Raised
<1>6. g[t] \in Int /\ e[First(s)] \in Int /\ d \in Int
      /\ f[First(s)] = e[First(s)] + IF First(s) \in K THEN d ELSE 0
  BY <1>4, SmallerSet, RunningSumInt DEF DifferOn
<1>7. n \in Nat
  BY <1>3, FS_CardinalityType
<1>8. Cardinality(s \cap K) = IF First(s) \in K THEN n + 1 ELSE n
  <2>1. CASE First(s) \in K
    <3>1. First(s) \in s \cap K /\ t \cap K = (s \cap K) \ {First(s)}
      BY <1>4, <2>1, SmallerSet
    <3>2. Cardinality((s \cap K) \ {First(s)}) = Cardinality(s \cap K) - 1
      BY <1>3, <3>1, FS_RemoveElement
    <3>3. Cardinality(s \cap K) \in Nat
      BY <1>3, FS_CardinalityType
    <3>4. n = Cardinality((s \cap K) \ {First(s)})
      BY <3>1
    <3> HIDE DEF n, t
    <3> QED BY <2>1, <3>2, <3>3, <3>4
  <2>2. CASE First(s) \notin K
    <3>1. t \cap K = s \cap K
      BY <2>2
    <3> QED BY <2>2, <3>1
  <2> QED BY <2>1, <2>2
<1> HIDE DEF t, n
<1>9. Raised(g[s], h[s], s \cap K, d)
  <2>1. CASE First(s) \in K
    <3>1. (n + 1) * d = n * d + d /\ n * d \in Int
      BY <1>6, <1>7
    <3> HIDE DEF DifferOn
    <3> QED BY <1>2, <1>4, <1>5, <1>6, <1>8, <2>1, <3>1 DEF Raised
  <2>2. CASE First(s) \notin K
    <3>1. n * d \in Int
      BY <1>6, <1>7
    <3> QED BY <1>2, <1>4, <1>5, <1>6, <1>8, <2>2, <3>1 DEF Raised
  <2> QED BY <2>1, <2>2
<1> QED
  BY <1>9

LEMMA RunningSumExists ==
    ASSUME NEW S, IsFiniteSet(S), NEW f \in [S -> Int]
    PROVE  \E g : RunningSum(g, f, S)
<1> DEFINE Bad == {U \in SUBSET S : ~\E g : RunningSum(g, f, U)}
<1> SUFFICES ASSUME Bad # {} PROVE FALSE
  OBVIOUS
<1>1. PICK U \in Bad : \A V \in Bad : V \subseteq U => V = U
  <2>1. Bad \in SUBSET (SUBSET S)
    OBVIOUS
  <2> HIDE DEF Bad
  <2> QED
    BY <2>1, MinimalSubset
<1> DEFINE run(V) == CHOOSE g : RunningSum(g, f, V)
           value(V) == run(V)[V]
           g == [s \in SUBSET U |-> IF s = {} THEN 0
                                    ELSE f[First(s)] + value(s \ {First(s)})]
<1>2. ASSUME NEW V, V \subseteq U, V # U PROVE RunningSum(run(V), f, V)
  BY <1>1, <1>2
<1>3. ASSUME NEW V, V \subseteq U, V # U PROVE g[V] = value(V)
  <2> DEFINE W == V \ {First(V)}
  <2>1. PICK r : r = run(V) /\ RunningSum(r, f, V)
    BY <1>2, <1>3
  <2>2. value(V) = IF V = {} THEN 0 ELSE f[First(V)] + r[W]
    <3>1. V \in SUBSET V /\ value(V) = r[V]
      BY <2>1
    <3> HIDE DEF value
    <3> QED
      BY <2>1, <3>1 DEF RunningSum
  <2>3. CASE V # {}
    <3>1. W \subseteq V /\ W \subseteq U /\ W # U
      BY <1>3
    <3>2. PICK q : q = run(W) /\ RunningSum(q, f, W)
      BY <1>2, <3>1
    <3>3. value(W) = q[W]
      BY <3>2
    <3> HIDE DEF run, value
    <3>4. V \in SUBSET S /\ W \in SUBSET S /\ W \in SUBSET V
      BY <1>3, <3>1
    <3>5. r[W] \in Int
      BY <2>1, <3>4, RunningSumInt
    <3>6. PICK K, d : K = {} /\ d = 0
      OBVIOUS
    <3>7. DifferOn(f, f, S, K, d)
      BY <3>6 DEF DifferOn
    <3> HIDE DEF W
    <3>8. Raised(r[W], q[W], W \cap K, d)
      BY <2>1, <3>2, <3>4, <3>7, RunningSumsDiffer
    <3>9. q[W] = r[W]
      <4>1. W \cap K = {} /\ Cardinality({}) = 0
        BY <3>6, FS_EmptySet
      <4> QED BY <3>5, <3>6, <3>8, <4>1 DEF Raised
    <3> USE DEF W
    <3> QED
      BY <1>3, <2>2, <2>3, <3>3, <3>9
  <2> QED
    BY <1>3, <2>2, <2>3
<1>4. ASSUME NEW s \in SUBSET U, s # {} PROVE g[s] = f[First(s)] + g[s \ {First(s)}]
  BY <1>3, <1>4, SmallerSet
<1>5. RunningSum(g, f, U)
  <2> DEFINE step == [s \in SUBSET U |-> IF s = {} THEN 0 ELSE f[First(s)] + g[s \ {First(s)}]]
  <2>1. \A s \in SUBSET U : g[s] = step[s]
    BY <1>4
  <2> HIDE DEF step
  <2>2. g = step
    BY <2>1 DEF step
  <2> QED
    BY <2>2 DEF RunningSum, step
<1> QED
  BY <1>5

\* The sum of a function is an integer; raising its values on K by d raises it by
\* d for each of them.
LEMMA SumInt ==
    ASSUME NEW S, IsFiniteSet(S), NEW f \in [S -> Int]
    PROVE  SumFunction(f) \in Int
<1>1. PICK g : g = (CHOOSE r : RunningSum(r, f, S)) /\ RunningSum(g, f, S)
  BY RunningSumExists
<1> QED
  BY <1>1, SumIsRunning, RunningSumInt

LEMMA SumGrows ==
    ASSUME NEW S, IsFiniteSet(S), NEW e, NEW f, NEW K \in SUBSET S, NEW d, DifferOn(e, f, S, K, d)
    PROVE  SumFunction(f) = SumFunction(e) + Cardinality(K) * d
<1>0. e \in [S -> Int] /\ f \in [S -> Int]
  BY DEF DifferOn
<1>1. PICK g : g = (CHOOSE r : RunningSum(r, e, S)) /\ RunningSum(g, e, S)
  BY <1>0, RunningSumExists
<1>2. PICK h : h = (CHOOSE r : RunningSum(r, f, S)) /\ RunningSum(h, f, S)
  BY <1>0, RunningSumExists
<1>3. Raised(g[S], h[S], S \cap K, d)
  <2>1. RunningSum(g, e, S) /\ RunningSum(h, f, S) /\ S \in SUBSET S
    BY <1>1, <1>2
  <2> QED
    BY <2>1, RunningSumsDiffer
<1>4. S \cap K = K
  OBVIOUS
<1> HIDE DEF RunningSum
<1>5. SumFunction(e) = g[S] /\ SumFunction(f) = h[S]
  BY <1>0, <1>1, <1>2, SumIsRunning
<1> QED
  BY <1>3, <1>4, <1>5 DEF Raised

-----------------------------------------------------------------------------
(* Points: whatever moves, and however many of the rows at once.             *)

LEMMA ReservingKeepsPoints ==
    ASSUME TypeOK, ReserveMove PROVE Points' = Points
<1>1. PICK p \in Participants : /\ funds' = [funds EXCEPT ![p] = @ - Entry]
                                /\ escrow' = escrow + Entry
  BY DEF ReserveMove
<1>2. PICK d \in Int : d = 0 - Entry
  BY NaturalAmounts
<1>3. DifferOn(funds, funds', Participants, {p}, d)
  BY <1>1, <1>2, NaturalAmounts DEF DifferOn, TypeOK
<1>4. Cardinality({p}) = 1
  BY FS_Singleton
<1>5. SumFunction(funds') = SumFunction(funds) + Cardinality({p}) * d
  BY <1>3, NaturalAmounts, SumGrows
<1>6. SumFunction(funds) \in Int /\ escrow \in Int /\ Entry \in Int
  BY NaturalAmounts, SumInt DEF TypeOK
<1> QED BY <1>1, <1>2, <1>4, <1>5, <1>6 DEF Points

LEMMA RefundingKeepsPoints ==
    ASSUME TypeOK, RefundMove PROVE Points' = Points
<1>1. PICK rows \in SUBSET Participants :
        /\ escrow' = escrow - Cardinality(rows) * Entry
        /\ funds' = [p \in Participants |-> IF p \in rows THEN funds[p] + Entry ELSE funds[p]]
  BY DEF RefundMove
<1>2. DifferOn(funds, funds', Participants, rows, Entry)
  BY <1>1, NaturalAmounts DEF DifferOn, TypeOK
<1>3. SumFunction(funds') = SumFunction(funds) + Cardinality(rows) * Entry
  BY <1>2, NaturalAmounts, SumGrows
<1>4. SumFunction(funds) \in Int /\ escrow \in Int /\ Cardinality(rows) * Entry \in Int
  BY NaturalAmounts, SumInt DEF TypeOK
<1> QED BY <1>1, <1>3, <1>4 DEF Points

LEMMA SettlingKeepsPoints ==
    ASSUME TypeOK, SettleMove PROVE Points' = Points
<1>1. PICK s \in Settlements :
        /\ s.type = "WINNER_TAKES_ALL" => s.winner \in Participants
        /\ escrow' = escrow - Total
        /\ funds' = PaidOut(s.type, s.winner)
  BY DEF SettleMove
<1>2. SumFunction(funds) \in Int /\ escrow \in Int /\ Total \in Int
  BY NaturalAmounts, SumInt DEF TypeOK
<1>3. SumFunction(funds') = SumFunction(funds) + Total
  <2>1. CASE s.type = "WINNER_TAKES_ALL"
    <3>1. PICK p \in Participants : p = s.winner
      BY <1>1, <2>1
    <3>2. funds' = [funds EXCEPT ![p] = @ + Total]
      BY <1>1, <2>1, <3>1 DEF PaidOut
    <3>3. DifferOn(funds, funds', Participants, {p}, Total)
      BY <1>2, <3>2 DEF DifferOn, TypeOK
    <3>4. Cardinality({p}) = 1
      BY FS_Singleton
    <3>5. SumFunction(funds') = SumFunction(funds) + Cardinality({p}) * Total
      BY <3>3, NaturalAmounts, SumGrows
    <3> QED BY <1>2, <3>4, <3>5
  <2>2. CASE s.type # "WINNER_TAKES_ALL"
    <3>1. funds' = [p \in Participants |-> funds[p] + Entry]
      BY <1>1, <2>2 DEF PaidOut
    <3>2. DifferOn(funds, funds', Participants, Participants, Entry)
      BY <3>1, NaturalAmounts DEF DifferOn, TypeOK
    <3> QED BY <3>2, NaturalAmounts, SumGrows DEF Total
  <2> QED BY <2>1, <2>2
<1> QED BY <1>1, <1>2, <1>3 DEF Points

\* No step of any handler, and no failure between two, creates or destroys
\* points: what leaves a balance enters the escrow of the match, and what leaves
\* the escrow is credited, whether one entry moves, some of them or all.
THEOREM PointsAreConserved == Spec => PointsConserved
<1>1. ASSUME MInv, [Next]_vars PROVE Points' = Points
  <2>1. MoneyMove
    BY <1>1, EveryStepParts DEF MInv, StepParts
  <2>2. CASE Quiet \/ ReleaseMove
    BY <2>2 DEF Quiet, ReleaseMove, money, Points
  <2> QED
    BY <1>1, <2>1, <2>2, ReservingKeepsPoints, RefundingKeepsPoints, SettlingKeepsPoints
       DEF MoneyMove, MInv
<1>2. MInv /\ [Next]_vars => [Points' = Points]_vars
  BY <1>1
<1> QED BY <1>2, AlwaysMInv, PTL DEF Spec, PointsConserved

-----------------------------------------------------------------------------
(* The escrow implements EntryCustody.                                      *)

CustodyOf ==
    [p \in Participants |->
       CASE reservation[p] = "NONE" -> "none"
         [] reservation[p] = "REFUNDED" -> "returned"
         [] reservation[p] = "SETTLED" -> "awarded"
         [] OTHER -> "held"]

LEMMA CustodyCases ==
    ASSUME NEW p \in Participants
    PROVE  /\ reservation[p] = "NONE" => CustodyOf[p] = "none"
           /\ reservation[p] = "REFUNDED" => CustodyOf[p] = "returned"
           /\ reservation[p] = "SETTLED" => CustodyOf[p] = "awarded"
           /\ Held(p) => CustodyOf[p] = "held"
BY DEF CustodyOf, Held

LEMMA CustodyInitially ==
    ASSUME Init
    PROVE  Custody!CustodyInit
BY DEF Init, Custody!CustodyInit

LEMMA CustodyStep ==
    ASSUME MInv, MoneyMove
    PROVE  [Custody!CustodyNext]_(Custody!custodyVars)
<1>0. /\ reservation \in [Participants -> ReservationStatuses]
      /\ funds \in [Participants -> Nat]
  BY DEF MInv, TypeOK
<1>1. CASE Quiet
  <2>1. funds' = funds /\ reservation' = reservation
    BY <1>1 DEF Quiet, money
  <2>2. CustodyOf' = CustodyOf
    BY <2>1 DEF CustodyOf
  <2> QED
    BY <2>1, <2>2 DEF Custody!custodyVars, CustodyOf
<1>2. CASE ReleaseMove
  <2>1. funds' = funds /\ CustodyOf' = CustodyOf
    BY <1>0, <1>2 DEF ReleaseMove, ReleaseAll, Releasable, CustodyOf
  <2> QED
    BY <2>1 DEF Custody!custodyVars, CustodyOf
<1>3. CASE ReserveMove
  <2>1. PICK p \in Participants :
          /\ reservation[p] = "NONE" /\ funds[p] >= Entry
          /\ funds' = [funds EXCEPT ![p] = @ - Entry]
          /\ reservation' = [reservation EXCEPT ![p] = "RESERVED"]
    BY <1>3 DEF ReserveMove
  <2>2. CustodyOf[p] = "none" /\ CustodyOf' = [CustodyOf EXCEPT ![p] = "held"]
    BY <1>0, <2>1 DEF CustodyOf
  <2>3. Custody!Deposit(p)
    BY <2>1, <2>2 DEF Custody!Deposit, CustodyOf
  <2> QED
    BY <2>3 DEF Custody!CustodyNext
<1>4. CASE RefundMove
  <2>1. PICK rows \in SUBSET Participants :
          /\ \A p \in rows : reservation[p] = "RESERVED"
          /\ funds' = [p \in Participants |->
                         IF p \in rows THEN funds[p] + Entry ELSE funds[p]]
          /\ reservation' = [p \in Participants |->
                               IF p \in rows THEN "REFUNDED" ELSE reservation[p]]
    BY <1>4 DEF RefundMove
  <2>2. /\ \A p \in rows : CustodyOf[p] = "held"
        /\ CustodyOf' = [p \in Participants |-> IF p \in rows THEN "returned" ELSE CustodyOf[p]]
    BY <2>1 DEF CustodyOf
  <2>3. Custody!GiveBack(rows)
    BY <2>1, <2>2 DEF Custody!GiveBack, CustodyOf
  <2> QED
    BY <2>3 DEF Custody!CustodyNext
<1>5. CASE SettleMove
  <2>1. PICK s \in Settlements :
          /\ s.type = "WINNER_TAKES_ALL" => s.winner \in Participants
          /\ escrow = Total
          /\ funds' = PaidOut(s.type, s.winner)
          /\ reservation' = [p \in Participants |->
                               IF s.type = "WINNER_TAKES_ALL" THEN "SETTLED" ELSE "REFUNDED"]
    BY <1>5 DEF SettleMove
  <2>2. \A p \in Participants : CustodyOf[p] = "held"
    BY <2>1, WholeEscrowHoldsAll, CustodyCases DEF MInv
  <2>3. CASE s.type = "WINNER_TAKES_ALL"
    <3>1. CustodyOf' = [p \in Participants |-> "awarded"]
      BY <2>1, <2>3 DEF CustodyOf
    <3>2. Custody!Cardinality(Participants) = Cardinality(Participants)
      BY DEF Custody!Cardinality, Cardinality
    <3>3. Custody!Award(s.winner)
      BY <2>1, <2>2, <2>3, <3>2, <3>1 DEF Custody!Award, CustodyOf, PaidOut, Total
    <3> QED
      BY <2>1, <2>3, <3>3 DEF Custody!CustodyNext
  <2>4. CASE s.type # "WINNER_TAKES_ALL"
    <3>1. CustodyOf' = [p \in Participants |-> "returned"]
      BY <2>1, <2>4 DEF CustodyOf
    <3>2. Custody!GiveBack(Participants)
      BY <2>1, <2>2, <2>4, <3>1 DEF Custody!GiveBack, CustodyOf, PaidOut
    <3> QED
      BY <3>2 DEF Custody!CustodyNext
  <2> QED
    BY <2>3, <2>4
<1> QED
  BY <1>1, <1>2, <1>3, <1>4, <1>5 DEF MoneyMove

\* Whatever handlers do concurrently, each entry is taken at most once and
\* leaves the escrow at most once, to its owner or to the one winner.
THEOREM ImplementsCustody == Spec => EntriesInCustody
<1>1. ASSUME MInv, [Next]_vars
      PROVE  [Custody!CustodyNext]_(Custody!custodyVars)
  <2>1. MoneyMove
    BY <1>1, EveryStepParts DEF MInv, StepParts
  <2> QED
    BY <1>1, <2>1, CustodyStep
<1> QED
  BY <1>1, CustodyInitially, AlwaysMInv, PTL DEF Spec, EntriesInCustody, Custody!CustodySpec

-----------------------------------------------------------------------------
(* What holds until an administrator recovers or releases, or a dispute     *)
(* meets a settlement (past, in MCMatchFinance).                            *)

\* The match has not begun to be played, and will not if it has ended.
Unplayed == {"AWAITING_READY", "READY", "CANCELLED", "EXPIRED"}

\* Entries are released by the start of a match, which cannot end afterwards
\* as if it had not been played.
ReleasedByStart ==
    status \in Unplayed =>
        /\ \A p \in Participants : reservation[p] # "RELEASED"
        /\ \A h \in Handlers : pc[h] \notin {"started", "release"}

\* A settlement has found no dispute.
SettlesUndisputed == \A h \in Handlers : pc[h] = "settle" => ~disputed

PastInv ==
    /\ "recovered" \notin past => PaidWhileLive
    /\ "released" \notin past => ReleasedByStart
    /\ "contested" \notin past => SettlesUndisputed

MCInv == MInv /\ PastInv

\* A match that has not begun to be played never had.
LEMMA UnplayedStep ==
    ASSUME OutcomeMove, status' \in Unplayed
    PROVE  status \in Unplayed
<1> USE DEF Unplayed
<1>1. CASE OutcomeStep
  BY <1>1 DEF OutcomeStep, PassDeadline, PassDelay, SubmitRead, ExpireSubmissions, CancelDispute,
              Cancel, ExpireUnready, VoidMatch, EndAs, SubmitWrite, ResolveDispute, resultVars, disputeVars
<1>2. CASE BeginPlay \/ OpenDispute \/ \E verdict \in Verdicts : ResolveConflict(verdict)
  BY <1>2 DEF BeginPlay, OpenDispute, ResolveConflict
<1>3. CASE \E p \in Participants : MarkReady(p)
  BY <1>3 DEF MarkReady
<1>4. CASE UNCHANGED outcomeVars
  BY <1>4 DEF outcomeVars
<1> QED
  BY <1>1, <1>2, <1>3, <1>4 DEF OutcomeMove

\* Only the start of a match leads a handler to the release of its entries.
LEMMA WhoReleases ==
    ASSUME TypeOK, Next, NEW h \in Handlers, pc'[h] \in {"started", "release"}
    PROVE  \/ pc[h] \in {"started", "release"}
           \/ status' = "IN_PROGRESS"
<1>0. DOMAIN pc = Handlers
  BY DEF TypeOK
<1> DEFINE Still == pc'[h] = pc[h]
<1>1. ASSUME NEW g \in Handlers, NEW step, NEW read, Become(g, step, read),
             g # h \/ step \notin {"started", "release"}
      PROVE  Still
  BY <1>0, <1>1 DEF Become
<1>2. ASSUME NEW g \in Handlers, Done(g) PROVE Still
  BY <1>1, <1>2 DEF Done
<1>3. CASE UNCHANGED handlers
  BY <1>3 DEF handlers
<1>4. ASSUME NEW g \in Handlers, NEW p \in Participants, ReserveBegin(g, p) PROVE Still
  <2>1. PICK read : Become(g, "reserve", read)
    BY <1>4 DEF ReserveBegin
  <2> QED
    BY <1>1, <2>1
<1>5. ASSUME NEW g \in Handlers, ReserveCommit(g) \/ StartBegin(g) \/ DisputeCheck(g) PROVE Still
  <2>1. Done(g) \/ \E step \in {"SCHEMA_REFUSED", "start", "dispute"} : Become(g, step, NoCall)
    BY <1>5 DEF ReserveCommit, StartBegin, DisputeCheck
  <2> QED
    BY <1>1, <1>2, <2>1
<1>6. ASSUME NEW g \in Handlers, Start(g) PROVE Still \/ status' = "IN_PROGRESS"
  BY <1>2, <1>6 DEF Start, BeginPlay
<1>7. ASSUME NEW g \in Handlers, ReleaseCheck(g) PROVE Still \/ pc[h] = "started"
  BY <1>1, <1>2, <1>7 DEF ReleaseCheck
<1>8. ASSUME NEW g \in Handlers, NEW reason, NEW rows, RefundBegin(g, reason, rows) PROVE Still
  <2>1. PICK read : Become(g, "refund", read)
    BY <1>8 DEF RefundBegin
  <2> QED
    BY <1>1, <2>1
<1>9. ASSUME NEW g \in Handlers, SettleBegin(g) PROVE Still
  <2>1. PICK read : Become(g, "settle", read)
    BY <1>9 DEF SettleBegin
  <2> QED
    BY <1>1, <2>1
<1>10. ASSUME NEW g \in Handlers,
              Release(g) \/ RefundCommit(g) \/ SettleCommit(g) \/ Dispute(g) \/ Abort(g)
       PROVE  Still
  BY <1>2, <1>10 DEF Release, RefundCommit, SettleCommit, Dispute, Abort
<1>11. ASSUME \/ MatchStep \/ AdminRelease
              \/ \E p \in Participants : Lapse(p) \/ Ready(p)
              \/ \E verdict \in Verdicts : DecideConflict(verdict)
       PROVE  UNCHANGED handlers
  BY <1>11 DEF MatchStep, AdminRelease, Lapse, Ready, DecideConflict
<1> QED
  BY <1>3, <1>4, <1>5, <1>6, <1>7, <1>8, <1>9, <1>10, <1>11 DEF Next, HandlerStep

\* An entry is released by a handler that was led there, or by an administrator.
LEMMA WhatReleases ==
    ASSUME TypeOK, WinnerNamed, Next, NEW p \in Participants,
           reservation[p] # "RELEASED", reservation'[p] = "RELEASED"
    PROVE  \/ \E h \in Handlers : pc[h] = "release"
           \/ reservation' # reservation /\ handlers' = handlers
<1>1. ASSUME Quiet \/ ReserveMove \/ RefundMove \/ SettleMove PROVE FALSE
  <2>1. CASE Quiet
    BY <2>1 DEF Quiet, money
  <2>2. CASE ReserveMove
    BY <2>2 DEF ReserveMove, TypeOK
  <2>3. CASE RefundMove
    BY <2>3 DEF RefundMove
  <2>4. CASE SettleMove
    <3>1. PICK s : reservation' = [q \in Participants |->
                        IF s.type = "WINNER_TAKES_ALL" THEN "SETTLED" ELSE "REFUNDED"]
      BY <2>4 DEF SettleMove
    <3> QED
      BY <3>1
  <2> QED
    BY <1>1, <2>1, <2>2, <2>3, <2>4
<1>2. CASE AdminRelease
  BY <1>2 DEF AdminRelease
<1>3. ASSUME NEW h \in Handlers, Release(h) PROVE pc[h] = "release"
  BY <1>3 DEF Release
<1>4. ASSUME NEW h \in Handlers,
             \/ \E q \in Participants : ReserveBegin(h, q)
             \/ ReserveCommit(h) \/ StartBegin(h) \/ Start(h) \/ ReleaseCheck(h)
             \/ \E reason \in RefundReasons, rows \in SUBSET Participants :
                    RefundBegin(h, reason, rows)
             \/ RefundCommit(h) \/ SettleBegin(h) \/ SettleCommit(h)
             \/ DisputeCheck(h) \/ Dispute(h) \/ Abort(h)
      PROVE  Quiet \/ ReserveMove \/ RefundMove \/ SettleMove
  <2>1. ASSUME UNCHANGED financeVars PROVE Quiet
    BY <2>1 DEF financeVars, Quiet, money
  <2>2. ASSUME ReserveCommit(h) PROVE Quiet \/ ReserveMove
    <3>1. call[h].participant \in Participants
      BY <2>2, CallOf DEF ReserveCommit
    <3> QED
      BY <2>1, <2>2, <3>1 DEF ReserveCommit, CanPay, ReserveMove
  <2>3. ASSUME RefundCommit(h) PROVE Quiet \/ RefundMove
    <3>1. call[h].rows \in SUBSET Participants
      BY <2>3, CallOf DEF RefundCommit
    <3> QED
      BY <2>1, <2>3, <3>1 DEF RefundCommit, StillReserved, RefundMove
  <2>4. ASSUME SettleCommit(h) PROVE Quiet \/ SettleMove
    <3>1. /\ call[h] \in Settlements
          /\ call[h].type = "WINNER_TAKES_ALL" => call[h].winner \in Participants
      BY <2>4, CallOf DEF SettleCommit, WinnerNamed
    <3> QED
      BY <2>1, <2>4, <3>1 DEF SettleCommit, EscrowWhole, SettleMove
  <2> QED
    BY <1>4, <2>1, <2>2, <2>3, <2>4
       DEF ReserveBegin, StartBegin, Start, ReleaseCheck, RefundBegin, SettleBegin, DisputeCheck,
           Dispute, Abort
<1>5. ASSUME \/ MatchStep
             \/ \E q \in Participants : Lapse(q) \/ Ready(q)
             \/ \E verdict \in Verdicts : DecideConflict(verdict)
      PROVE  Quiet
  BY <1>5 DEF MatchStep, Lapse, Ready, DecideConflict, Quiet, money, financeVars
<1> QED
  BY <1>1, <1>2, <1>3, <1>4, <1>5 DEF Next, HandlerStep

LEMMA ReleasedByStartStep ==
    ASSUME MInv, ReleasedByStart, Next, ~(reservation' # reservation /\ handlers' = handlers)
    PROVE  ReleasedByStart'
<1> SUFFICES ASSUME status' \in Unplayed
             PROVE  /\ \A p \in Participants : reservation'[p] # "RELEASED"
                    /\ \A h \in Handlers : pc'[h] \notin {"started", "release"}
  BY DEF ReleasedByStart
<1>1. TypeOK /\ WinnerNamed /\ OutcomeMove
  BY EveryStepParts DEF MInv, StepParts
<1>2. /\ \A p \in Participants : reservation[p] # "RELEASED"
      /\ \A h \in Handlers : pc[h] \notin {"started", "release"}
  BY <1>1, UnplayedStep DEF ReleasedByStart
<1>3. status' # "IN_PROGRESS"
  BY DEF Unplayed
<1> QED
  BY <1>1, <1>2, <1>3, WhatReleases, WhoReleases

\* Only an eligible settlement, of a match that is not disputed, is begun.
LEMMA WhoSettles ==
    ASSUME TypeOK, Next, NEW h \in Handlers, pc'[h] = "settle"
    PROVE  \/ pc[h] = "settle"
           \/ ~disputed /\ ~disputed'
<1>0. DOMAIN pc = Handlers
  BY DEF TypeOK
<1>1. ASSUME NEW g \in Handlers, NEW step, NEW read, Become(g, step, read),
             g # h \/ step # "settle"
      PROVE  pc'[h] = pc[h]
  BY <1>0, <1>1 DEF Become
<1>2. ASSUME NEW g \in Handlers, Done(g) PROVE pc'[h] = pc[h]
  BY <1>1, <1>2 DEF Done
<1>3. CASE UNCHANGED handlers
  BY <1>3 DEF handlers
<1>4. ASSUME NEW g \in Handlers, NEW p \in Participants, ReserveBegin(g, p)
      PROVE  pc'[h] = pc[h]
  <2>1. PICK read : Become(g, "reserve", read)
    BY <1>4 DEF ReserveBegin
  <2> QED
    BY <1>1, <2>1
<1>5. ASSUME NEW g \in Handlers,
             \/ ReserveCommit(g) \/ StartBegin(g) \/ Start(g) \/ ReleaseCheck(g) \/ Release(g)
             \/ RefundCommit(g) \/ SettleCommit(g) \/ DisputeCheck(g) \/ Dispute(g) \/ Abort(g)
      PROVE  pc'[h] = pc[h]
  <2>1. \/ Done(g)
        \/ \E step \in {"SCHEMA_REFUSED", "start", "started", "release", "dispute"} :
              Become(g, step, NoCall)
    BY <1>5 DEF ReserveCommit, StartBegin, Start, ReleaseCheck, Release, RefundCommit,
       SettleCommit, DisputeCheck, Dispute, Abort
  <2> QED
    BY <1>1, <1>2, <2>1
<1>6. ASSUME NEW g \in Handlers, NEW reason, NEW rows, RefundBegin(g, reason, rows)
      PROVE  pc'[h] = pc[h]
  <2>1. PICK read : Become(g, "refund", read)
    BY <1>6 DEF RefundBegin
  <2> QED
    BY <1>1, <2>1
<1>7. ASSUME NEW g \in Handlers, SettleBegin(g) PROVE ~disputed /\ disputed' = disputed
  BY <1>7 DEF SettleBegin, Eligible, outcomeVars
<1>8. ASSUME \/ MatchStep \/ AdminRelease
             \/ \E p \in Participants : Lapse(p) \/ Ready(p)
             \/ \E verdict \in Verdicts : DecideConflict(verdict)
      PROVE  UNCHANGED handlers
  BY <1>8 DEF MatchStep, AdminRelease, Lapse, Ready, DecideConflict
<1> QED
  BY <1>3, <1>4, <1>5, <1>6, <1>7, <1>8 DEF Next, HandlerStep

LEMMA SettlesUndisputedStep ==
    ASSUME TypeOK, SettlesUndisputed, Next,
           ~(~disputed /\ disputed' /\ \E h \in Handlers : pc[h] = "settle")
    PROVE  SettlesUndisputed'
BY WhoSettles DEF SettlesUndisputed

LEMMA PastInvStep ==
    ASSUME MCInv, MCNext
    PROVE  PastInv'
<1>1. MInv /\ Next /\ TypeOK /\ WinnerNamed /\ StepParts
  BY EveryStepParts DEF MCInv, MCNext, MInv
<1>2. past' = past \cup Remembered
  BY DEF MCNext
<1>3. Begun("refund") /\ status \notin Ended => "recovered" \in Remembered
  BY DEF Remembered
<1>4. reservation' # reservation /\ handlers' = handlers => "released" \in Remembered
  BY DEF Remembered
<1>5. ~disputed /\ disputed' /\ (\E h \in Handlers : pc[h] = "settle") => "contested" \in Remembered
  BY DEF Remembered
<1>6. "recovered" \notin past' => PaidWhileLive'
  BY <1>1, <1>2, <1>3, PaidWhileLiveStep DEF MCInv, PastInv
<1>7. "released" \notin past' => ReleasedByStart'
  BY <1>1, <1>2, <1>4, ReleasedByStartStep DEF MCInv, PastInv
<1>8. "contested" \notin past' => SettlesUndisputed'
  BY <1>1, <1>2, <1>5, SettlesUndisputedStep DEF MCInv, PastInv
<1> QED
  BY <1>6, <1>7, <1>8 DEF PastInv

LEMMA MCInitially == MCInit => MCInv
<1> SUFFICES ASSUME MCInit PROVE MCInv
  OBVIOUS
<1>1. MInv
  BY Initially DEF MCInit
<1>2. PaidWhileLive /\ ReleasedByStart /\ SettlesUndisputed
  BY DEF MCInit, Init, OutcomeInit, PaidWhileLive, ReleasedByStart, SettlesUndisputed
<1> QED
  BY <1>1, <1>2 DEF MCInv, PastInv

LEMMA MCInvariance == MCInv /\ [MCNext]_<<vars, past>> => MCInv'
<1>1. ASSUME MCInv, MCNext PROVE MCInv'
  BY <1>1, Invariance, PastInvStep DEF MCInv, MCNext
<1>2. ASSUME MCInv, UNCHANGED <<vars, past>> PROVE MCInv'
  <2>1. MInv'
    BY <1>2, Invariance DEF MCInv
  <2> QED
    BY <1>2, <2>1 DEF MCInv, PastInv, PaidWhileLive, ReleasedByStart, SettlesUndisputed, vars,
       outcomeVars, financeVars, handlers
<1> QED
  BY <1>1, <1>2

\* As long as administrators refund only what has ended, every entry of a
\* ready or running match is held, whatever handlers and expiries race.
THEOREM PlayersHavePaidUnlessRecovered == MCSpec => []PaidUnlessRecovered
<1>1. MCInv => PaidUnlessRecovered
  <2> SUFFICES ASSUME MCInv, "recovered" \notin past, status \in Playing,
                      NEW p \in Participants
               PROVE  Held(p)
    BY DEF PaidUnlessRecovered, Playing
  <2>1. reservation[p] \notin {"NONE", "REFUNDED", "SETTLED"}
    BY DEF MCInv, PastInv, PaidWhileLive, Playing
  <2>2. reservation[p] \in ReservationStatuses
    BY DEF MCInv, MInv, TypeOK
  <2> QED
    BY <2>1, <2>2 DEF Held, ReservationStatuses
<1> QED
  BY <1>1, MCInitially, MCInvariance, PTL DEF MCSpec

\* The entries of a match that was cancelled or has expired are not released,
\* and so can be refunded, also when it was being started meanwhile, unless
\* an administrator releases them.
THEOREM EndedRemainsRefundable == MCSpec => []RefundableUnlessReleased
<1>1. MCInv => RefundableUnlessReleased
  BY DEF MCInv, PastInv, ReleasedByStart, Unplayed, RefundableUnlessReleased
<1> QED
  BY <1>1, MCInitially, MCInvariance, PTL DEF MCSpec

\* No settlement is written over an active dispute, unless the dispute was
\* opened between the reads and the writes of the settlement.
THEOREM DisputesBlockSettlement == MCSpec => DisputeBlocksUnlessContested
<1> DEFINE Blocked == settlement' # settlement /\ "contested" \notin past => ~disputed
<1>1. MCInv /\ [MCNext]_<<vars, past>> => Blocked
  <2> SUFFICES ASSUME MCInv, [MCNext]_<<vars, past>>, settlement' # settlement,
                      "contested" \notin past
               PROVE  ~disputed
    OBVIOUS
  <2>1. StepParts
    <3>1. [Next]_vars
      BY DEF MCNext
    <3> QED
      BY <3>1, EveryStepParts DEF MCInv, MInv
  <2>2. SettleMove
    BY <2>1 DEF StepParts, MoneyMove, Quiet, ReserveMove, ReleaseMove, RefundMove, money
  <2>3. PICK h \in Handlers : pc[h] = "settle"
    BY <2>2 DEF SettleMove
  <2> QED
    BY <2>3 DEF MCInv, PastInv, SettlesUndisputed
<1> QED
  BY <1>1, MCInitially, MCInvariance, PTL DEF MCSpec, DisputeBlocksUnlessContested
=============================================================================
