---------------------------- MODULE MatchFinance ----------------------------
(***************************************************************************)
(* The ARENA_POINT entries of one match (packages/match-finance): a        *)
(* required entry is reserved into the match escrow, released when the     *)
(* match starts, and refunded by an administrator or settled.              *)
(*                                                                         *)
(* Handlers run the operations concurrently.  An operation's unlocked      *)
(* reads and checks are one step (...Begin, ...Check); its writes, from    *)
(* the first guarded update to COMMIT, are another.  Refused and replayed  *)
(* requests change nothing and leave the handler idle.                     *)
(***************************************************************************)
EXTENDS MatchOutcome, Integers, FiniteSetsExt

CONSTANTS
    Entry,          \* amountPerParticipant of the ruleset snapshot (required entry)
    MaxFunds,       \* bound on the points a participant starts with
    RefundReasons,  \* reasons administrators give: MATCH_ENDED, OPERATIONAL_RECOVERY
    Handlers,       \* concurrent request handlers
    NoCall,         \* "the handler is serving nothing"
    NoSettlement,   \* "the match has no settlement"
    ShippedChecks   \* whether the CHECK constraints of the migrations are in force

ASSUME EntryAssumption == Entry \in Nat \ {0} /\ MaxFunds \in Nat
ASSUME ReasonsAssumption == RefundReasons \subseteq {"MATCH_ENDED", "OPERATIONAL_RECOVERY"}
ASSUME ShippedChecksAssumption == ShippedChecks \in BOOLEAN

Ended == {"CANCELLED", "EXPIRED", "VOIDED"}
SettlementTypes == {"WINNER_TAKES_ALL", "DRAW_REFUND", "VOID_REFUND"}
Settlements == [type : SettlementTypes, winner : Verdicts \cup {"NONE"}]
ASSUME NoSettlementAssumption == NoSettlement \notin Settlements

VARIABLES
    funds,          \* the participants' USER_AVAILABLE balances
    escrow,         \* balance of the account match_escrow:<match>
    reservation,    \* status of each participant's reservation
    lapsed,         \* reservations whose expires_at has passed before the deadline
    settlement,     \* the match_settlements row
    pc, call        \* per handler: where its request is, and what it has read

financeVars == <<funds, escrow, reservation, lapsed, settlement>>
money == <<funds, escrow, reservation, settlement>>
handlers == <<pc, call>>
vars == <<outcomeVars, financeVars, handlers>>

ReservationStatuses == {"NONE", "RESERVED", "RELEASED", "REFUNDED", "SETTLED"}
Running == {"reserve", "start", "started", "release", "refund", "settle", "dispute"}
Idle == {"idle", "SCHEMA_REFUSED"}

Total == Cardinality(Participants) * Entry

-----------------------------------------------------------------------------
(* Slips that the properties at the end must tell from the definitions      *)
(* below; no definition uses them.                                         *)

RefundedAgain(rows) == TRUE                               \* for StillReserved
NotEmptied == escrow >= 0                                 \* for EscrowWhole
LoserKept(type, winner) ==                                \* for PaidOut
    [p \in Participants |-> funds[p] + (IF p = winner THEN Total ELSE Entry)]
AnyReservation(p) == reservation[p] # "NONE"              \* for Releasable
MissingPasses(p) ==                                       \* for Satisfied
    reservation[p] \notin {"REFUNDED", "SETTLED"} /\ ~deadlinePassed /\ p \notin lapsed

-----------------------------------------------------------------------------
Held(p) == reservation[p] \in {"RESERVED", "RELEASED"}

\* assertEntrySatisfied: also after the release, the reservation must not
\* have expired; expires_at is never after the ready deadline.
Satisfied(p) == Held(p) /\ ~deadlinePassed /\ p \notin lapsed
AllSatisfied == \A p \in Participants : Satisfied(p)

\* The guards of the statements that move points and reservations.
CanPay(p) == funds[p] >= Entry
Releasable(p) == reservation[p] = "RESERVED"
StillReserved(rows) == \A p \in rows : reservation[p] = "RESERVED"
EscrowWhole == escrow = Total
RefundAllowed(reason) == reason = "OPERATIONAL_RECOVERY" \/ status \in Ended

SettlementType ==
    IF status = "VOIDED" THEN "VOID_REFUND"
    ELSE IF result = "DRAW" THEN "DRAW_REFUND" ELSE "WINNER_TAKES_ALL"

EligibleThoughDisputed ==                                 \* for Eligible
    /\ settlement = NoSettlement /\ EscrowWhole
    /\ status = "COMPLETED" /\ result \in Verdicts
    /\ \A p \in Participants : reservation[p] = "RELEASED"

\* evaluateMatchSettlementEligibility
Eligible ==
    /\ settlement = NoSettlement /\ ~disputed /\ EscrowWhole
    /\ \/ status = "VOIDED" /\ \A p \in Participants : Held(p)
       \/ /\ status = "COMPLETED" /\ result \in Verdicts
          /\ \A p \in Participants : reservation[p] = "RELEASED"
          /\ delayElapsed \/ resolvedLast

\* The participants' points after the credits of postSettlement.
PaidOut(type, winner) ==
    IF type = "WINNER_TAKES_ALL"
      THEN [funds EXCEPT ![winner] = @ + Total]
      ELSE [p \in Participants |-> funds[p] + Entry]

Become(h, step, read) ==
    /\ pc' = [pc EXCEPT ![h] = step]
    /\ call' = [call EXCEPT ![h] = read]

Done(h) == Become(h, "idle", NoCall)

Init ==
    /\ OutcomeInit
    /\ funds \in [Participants -> 0..MaxFunds]
    /\ escrow = 0
    /\ reservation = [p \in Participants |-> "NONE"]
    /\ lapsed = {}
    /\ settlement = NoSettlement
    /\ pc = [h \in Handlers |-> "idle"]
    /\ call = [h \in Handlers |-> NoCall]

-----------------------------------------------------------------------------
\* The match moves on without touching points.
MatchStep == OutcomeStep /\ UNCHANGED <<financeVars, handlers>>

\* MATCH_ENTRY_RESERVATION_TTL passes before the ready deadline does.
Lapse(p) ==
    /\ reservation[p] # "NONE" /\ p \notin lapsed
    /\ lapsed' = lapsed \cup {p}
    /\ UNCHANGED <<outcomeVars, money, handlers>>

\* MatchService.ready; markReady repeats the checks of the match, and start
\* those of the entry, so check and update are one step.
Ready(p) ==
    /\ Satisfied(p)
    /\ MarkReady(p)
    /\ UNCHANGED <<financeVars, handlers>>

\* AdminMatchResultService.resolve.
DecideConflict(verdict) ==
    /\ settlement = NoSettlement
    /\ ResolveConflict(verdict)
    /\ UNCHANGED <<financeVars, handlers>>

ReserveBegin(h, p) ==
    /\ pc[h] \in Idle
    /\ status = "AWAITING_READY" /\ ~deadlinePassed /\ reservation[p] = "NONE"
    /\ Become(h, "reserve", [participant |-> p])
    /\ UNCHANGED <<outcomeVars, financeVars>>

\* The shipped CHECKs admit neither an account of type MATCH_ESCROW nor a
\* transaction that references a match.
ReserveCommit(h) ==
    LET p == call[h].participant
    IN /\ pc[h] = "reserve"
       /\ IF ShippedChecks
            THEN Become(h, "SCHEMA_REFUSED", NoCall) /\ UNCHANGED financeVars
            ELSE /\ Done(h)
                 /\ IF CanPay(p) /\ reservation[p] = "NONE"
                      THEN /\ funds' = [funds EXCEPT ![p] = @ - Entry]
                           /\ escrow' = escrow + Entry
                           /\ reservation' = [reservation EXCEPT ![p] = "RESERVED"]
                           /\ UNCHANGED <<lapsed, settlement>>
                      ELSE UNCHANGED financeVars
       /\ UNCHANGED outcomeVars

ReleasedFirst(h) ==                                       \* for StartBegin
    /\ pc[h] \in Idle /\ AllSatisfied
    /\ Become(h, "release", NoCall)
    /\ UNCHANGED <<outcomeVars, financeVars>>

\* MatchStartService.start: assert the entries, start the match, assert the
\* entries again, release them; each is a transaction of its own.
StartBegin(h) ==
    /\ pc[h] \in Idle
    /\ status = "READY" /\ AllSatisfied
    /\ Become(h, "start", NoCall)
    /\ UNCHANGED <<outcomeVars, financeVars>>

Start(h) ==
    /\ pc[h] = "start"
    /\ \/ BeginPlay /\ Become(h, "started", NoCall)
       \/ status # "READY" /\ Done(h) /\ UNCHANGED outcomeVars
    /\ UNCHANGED financeVars

ReleaseCheck(h) ==
    /\ pc[h] = "started"
    /\ IF AllSatisfied THEN Become(h, "release", NoCall) ELSE Done(h)
    /\ UNCHANGED <<outcomeVars, financeVars>>

ReleaseAll ==
    reservation' = [p \in Participants |->
                      IF Releasable(p) THEN "RELEASED" ELSE reservation[p]]

Release(h) ==
    /\ pc[h] = "release"
    /\ ReleaseAll
    /\ Done(h)
    /\ UNCHANGED <<outcomeVars, funds, escrow, lapsed, settlement>>

\* An administrator releases the reservations of a match in any status.
AdminRelease ==
    /\ \E p \in Participants : Releasable(p)
    /\ ReleaseAll
    /\ UNCHANGED <<outcomeVars, funds, escrow, lapsed, settlement, handlers>>

\* AdminMatchFinanceService.refund: a limit selects some of the rows.
RefundBegin(h, reason, rows) ==
    /\ pc[h] \in Idle
    /\ RefundAllowed(reason)
    /\ rows # {} /\ \A p \in rows : reservation[p] = "RESERVED"
    /\ Become(h, "refund", [rows |-> rows])
    /\ UNCHANGED <<outcomeVars, financeVars>>

RefundCommit(h) ==
    LET rows == call[h].rows
        amount == Cardinality(rows) * Entry
    IN /\ pc[h] = "refund"
       /\ IF StillReserved(rows) /\ escrow >= amount
            THEN /\ escrow' = escrow - amount
                 /\ funds' = [p \in Participants |->
                                IF p \in rows THEN funds[p] + Entry ELSE funds[p]]
                 /\ reservation' = [p \in Participants |->
                                      IF p \in rows THEN "REFUNDED" ELSE reservation[p]]
                 /\ UNCHANGED <<lapsed, settlement>>
            ELSE UNCHANGED financeVars
       /\ Done(h)
       /\ UNCHANGED outcomeVars

\* MatchSettlementService.settle; a repeated request finds the settlement and
\* changes nothing, whatever it is answered.
SettleBegin(h) ==
    /\ pc[h] \in Idle
    /\ Eligible
    /\ Become(h, "settle",
              [type |-> SettlementType,
               winner |-> IF SettlementType = "WINNER_TAKES_ALL" THEN result ELSE "NONE"])
    /\ UNCHANGED <<outcomeVars, financeVars>>

\* The debit is guarded by the escrow balance, the reservations are not
\* looked at again, and the match has one settlement.
SettleCommit(h) ==
    LET s == call[h]
        after == IF s.type = "WINNER_TAKES_ALL" THEN "SETTLED" ELSE "REFUNDED"
    IN /\ pc[h] = "settle"
       /\ IF EscrowWhole /\ settlement = NoSettlement
            THEN /\ escrow' = escrow - Total
                 /\ funds' = PaidOut(s.type, s.winner)
                 /\ reservation' = [p \in Participants |-> after]
                 /\ settlement' = s
                 /\ UNCHANGED lapsed
            ELSE UNCHANGED financeVars
       /\ Done(h)
       /\ UNCHANGED outcomeVars

\* MatchDisputeService.open; the insert does not repeat the checks.
DisputeCheck(h) ==
    /\ pc[h] \in Idle
    /\ settlement = NoSettlement
    /\ status \in {"COMPLETED", "RESULT_CONFLICT"} /\ ~disputed
    /\ Become(h, "dispute", NoCall)
    /\ UNCHANGED <<outcomeVars, financeVars>>

Dispute(h) ==
    /\ pc[h] = "dispute"
    /\ \/ OpenDispute
       \/ disputed /\ UNCHANGED outcomeVars
    /\ Done(h)
    /\ UNCHANGED financeVars

\* A handler fails, or its process dies, between two of its transactions or
\* inside one, which is then rolled back.
Abort(h) ==
    /\ pc[h] \in Running
    /\ Done(h)
    /\ UNCHANGED <<outcomeVars, financeVars>>

HandlerStep(h) ==
    \/ \E p \in Participants : ReserveBegin(h, p)
    \/ ReserveCommit(h)
    \/ StartBegin(h) \/ Start(h) \/ ReleaseCheck(h) \/ Release(h)
    \/ \E reason \in RefundReasons, rows \in SUBSET Participants : RefundBegin(h, reason, rows)
    \/ RefundCommit(h)
    \/ SettleBegin(h) \/ SettleCommit(h)
    \/ DisputeCheck(h) \/ Dispute(h)
    \/ Abort(h)

Next ==
    \/ MatchStep
    \/ \E p \in Participants : Lapse(p) \/ Ready(p)
    \/ \E verdict \in Verdicts : DecideConflict(verdict)
    \/ AdminRelease
    \/ \E h \in Handlers : HandlerStep(h)

Spec == Init /\ [][Next]_vars

-----------------------------------------------------------------------------
Calls(step) ==
    CASE step = "reserve" -> [participant : Participants]
      [] step = "refund" -> [rows : SUBSET Participants]
      [] step = "settle" -> Settlements
      [] OTHER -> {NoCall}

\* The columns have their types; in particular no balance is negative, which
\* rests on the guarded decrements.
TypeOK ==
    /\ OutcomeTypeOK
    /\ funds \in [Participants -> Nat]
    /\ escrow \in Nat
    /\ reservation \in [Participants -> ReservationStatuses]
    /\ lapsed \subseteq Participants
    /\ settlement \in Settlements \cup {NoSettlement}
    /\ pc \in [Handlers -> Running \cup Idle]
    /\ call \in [Handlers -> UNION {Calls(step) : step \in Running \cup Idle}]
    /\ \A h \in Handlers : call[h] \in Calls(pc[h])

\* Reconciliation never reports drift: the escrow of the match is the sum of
\* the entries that are RESERVED or RELEASED, however refunds, releases and
\* settlements race.
EscrowExact == escrow = Cardinality({p \in Participants : Held(p)}) * Entry

\* A settlement covers every entry, in one way: SETTLED and REFUNDED are
\* mutually exclusive, and nothing reopens a settled reservation.
SettlementCoversAll ==
    settlement # NoSettlement =>
        \A p \in Participants : reservation[p] =
            IF settlement.type = "WINNER_TAKES_ALL" THEN "SETTLED" ELSE "REFUNDED"

\* Nobody plays for an entry that is not in escrow: unless administrators
\* refund for operational recovery, every entry of a READY or running match
\* is held.
PlayersPaid ==
    "OPERATIONAL_RECOVERY" \notin RefundReasons /\ status \in {"READY", "IN_PROGRESS"} =>
        \A p \in Participants : Held(p)

Points == escrow + SumFunction(funds)

\* No operation creates or destroys points, whichever of its steps fails.
PointsConserved == [][Points' = Points]_vars

\* Every entry is taken at most once and leaves the escrow at most once, to
\* its owner or with all others to one winner.
Custody == INSTANCE EntryCustody WITH
    custody <- [p \in Participants |->
                  CASE reservation[p] = "NONE" -> "none"
                    [] reservation[p] = "REFUNDED" -> "returned"
                    [] reservation[p] = "SETTLED" -> "awarded"
                    [] OTHER -> "held"]
EntriesInCustody == Custody!CustodySpec

\* "Required entry debits USER_AVAILABLE and credits match-specific
\* MATCH_ESCROW": a reservation is not refused by the schema.
SchemaAdmitsReservation == \A h \in Handlers : pc[h] # "SCHEMA_REFUSED"
=============================================================================
