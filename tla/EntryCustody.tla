---------------------------- MODULE EntryCustody ----------------------------
(***************************************************************************)
(* What the escrow of a match promises.  A participant's entry is taken    *)
(* out of the participant's points at most once, is held, and leaves       *)
(* custody at most once: either it is given back to its owner, or it goes   *)
(* to the one participant who is awarded every entry of the match.         *)
(***************************************************************************)
EXTENDS Integers, FiniteSets

CONSTANTS Participants, Entry, MaxFunds

VARIABLES
    funds,      \* points each participant can spend
    custody     \* where each participant's entry is

custodyVars == <<funds, custody>>

CustodyInit ==
    /\ funds \in [Participants -> 0..MaxFunds]
    /\ custody = [p \in Participants |-> "none"]

Deposit(p) ==
    /\ custody[p] = "none" /\ funds[p] >= Entry
    /\ funds' = [funds EXCEPT ![p] = @ - Entry]
    /\ custody' = [custody EXCEPT ![p] = "held"]

GiveBack(owners) ==
    /\ \A p \in owners : custody[p] = "held"
    /\ funds' = [p \in Participants |-> IF p \in owners THEN funds[p] + Entry ELSE funds[p]]
    /\ custody' = [p \in Participants |-> IF p \in owners THEN "returned" ELSE custody[p]]

Award(winner) ==
    /\ \A p \in Participants : custody[p] = "held"
    /\ funds' = [funds EXCEPT ![winner] = @ + Cardinality(Participants) * Entry]
    /\ custody' = [p \in Participants |-> "awarded"]

CustodyNext ==
    \/ \E p \in Participants : Deposit(p) \/ Award(p)
    \/ \E owners \in SUBSET Participants : GiveBack(owners)

CustodySpec == CustodyInit /\ [][CustodyNext]_custodyVars
=============================================================================
