---------------------------- MODULE WalletLedger ----------------------------
(***************************************************************************)
(* The double-entry ARENA_POINT ledger of packages/wallet.                 *)
(*                                                                         *)
(* Request handlers run the administrative operations of                   *)
(* WalletLedgerService (post, reverse) over PrismaWalletRepository.  A      *)
(* repository operation is one READ COMMITTED transaction; it is split     *)
(* where it reads data it does not yet hold a lock on:                     *)
(*                                                                         *)
(*   ...Begin   the lookups and the reads taken before lockAccounts,       *)
(*   ...Commit  everything from lockAccounts to COMMIT.                    *)
(*                                                                         *)
(* From lockAccounts on, every row the transaction reads or writes is      *)
(* locked (FOR UPDATE, or a unique key being inserted), so that part is    *)
(* one step.  A transaction that fails has no effect.                      *)
(*                                                                         *)
(* packages/match-finance moves points over the same accounts, in and out  *)
(* of the escrow of a match; what of it concerns the ledger is here, which *)
(* entry it is and why it moves in MatchFinance.                           *)
(***************************************************************************)
EXTENDS Integers, FiniteSets, FiniteSetsExt

CONSTANTS
    Users,          \* owners of a USER_AVAILABLE account
    Keys,           \* idempotency keys; a committed transaction is named by its key
    Amounts,        \* amounts a request may carry
    ReversalKeys,   \* the keys administrators use for reversals
    Handlers,       \* concurrent request handlers
    NoTx,           \* "no transaction has this key"
    NoCall          \* "the handler has served nothing yet"

ASSUME UsersAssumption ==
    IsFiniteSet(Users) /\ Users \cap {"ISSUANCE", "ADJUSTMENT", "ESCROW"} = {}
ASSUME AmountsAssumption == Amounts \subseteq Nat \ {0}
ASSUME KeysAssumption == IsFiniteSet(Keys) /\ ReversalKeys \subseteq Keys /\ NoTx \notin Keys

SystemAccounts == {"ISSUANCE", "ADJUSTMENT", "ESCROW"}
Accounts == Users \cup SystemAccounts
Directions == {"CREDIT", "DEBIT"}
Opposite(direction) == IF direction = "CREDIT" THEN "DEBIT" ELSE "CREDIT"

\* What requestFingerprint hashes: two requests have the same fingerprint
\* exactly when they are the same record.
PostRequests ==
    [op : {"ISSUANCE"}, user : Users, direction : {"CREDIT"}, amount : Amounts, of : {NoTx}]
        \cup
    [op : {"ADMIN_ADJUSTMENT"}, user : Users, direction : Directions,
     amount : Amounts, of : {NoTx}]

\* What match-finance writes: an entry is taken, comes back, or all of the escrow
\* goes to the winner.
EntryMoves ==
    [op : {"MATCH_ENTRY_RESERVATION"}, user : Users, direction : {"DEBIT"},
     amount : Amounts, of : {NoTx}]
        \cup
    [op : {"MATCH_ENTRY_REFUND", "MATCH_WINNER_SETTLEMENT"}, user : Users,
     direction : {"CREDIT"}, amount : Amounts, of : {NoTx}]

Reversals ==
    [op : {"REVERSAL"}, user : Users, direction : Directions, amount : Amounts, of : Keys]

Requests == PostRequests \cup EntryMoves \cup Reversals

Transactions ==
    [request : Requests, system : SystemAccounts,
     status : {"POSTED", "REVERSED"}]

ASSUME NoTxAssumption == NoTx \notin Transactions

VARIABLES
    opened,     \* accounts that have a ledger_accounts row
    balance,    \* ledger_accounts.current_balance (0 while there is no row)
    ledger,     \* ledger_transactions with their two entries, by idempotency key
    pc,         \* per handler: where its request is, or how it ended
    call        \* per handler: the request and what its transaction has read

vars == <<opened, balance, ledger, pc, call>>

Running == {"post", "checked", "reverse"}
Outcomes == {"POSTED", "REPLAYED", "CONFLICT", "INSUFFICIENT", "NOT_FOUND",
             "NOT_REVERSIBLE", "FAILED"}

-----------------------------------------------------------------------------
(* Slips that the properties at the end must tell from the definitions      *)
(* below; no definition uses them.                                         *)

SignIgnored(current, direction, amount) == current + amount   \* for NextBalance
SecondReversalAllowed(key) == TRUE                   \* for ReversalFree
AnyRequestMatches(key, request) == TRUE              \* for SameRequest
NoRequestMatches(key, request) == FALSE              \* for SameRequest
BalanceBeforeLock(c) == c.userSeen                   \* for FreshBalance
OverdraftAllowed(after) == TRUE                      \* for Affordable

-----------------------------------------------------------------------------
SystemOf(request) ==
    CASE request.op = "ISSUANCE" -> "ISSUANCE"
      [] request.op = "ADMIN_ADJUSTMENT" -> "ADJUSTMENT"
      [] OTHER -> "ESCROW"

\* nextBalance without its refusal to go below zero.
NextBalance(current, direction, amount) ==
    IF direction = "CREDIT" THEN current + amount ELSE current - amount

ReversalOf(key) ==
    LET r == ledger[key].request
    IN [op |-> "REVERSAL", user |-> r.user, direction |-> Opposite(r.direction),
        amount |-> r.amount, of |-> key]

\* The unique indexes on idempotency_key and reverses_transaction_id.
KeyFree(key) == ledger[key] = NoTx
Reversed(key) == \E other \in Keys : ledger[other] # NoTx /\ ledger[other].request.of = key
ReversalFree(key) == ~Reversed(key)

SameRequest(key, request) == ledger[key].request = request

\* The user's balance a post starts from: re-read under the row lock.
FreshBalance(c) == balance[c.request.user]

\* The refusal of nextBalance: a user's balance stays at or above zero.
Affordable(after) == after >= 0

\* The conditions in the updates that debit a user, or the escrow of a match.
Covered(move) ==
    CASE move.op = "MATCH_ENTRY_RESERVATION" -> balance[move.user] >= move.amount
      [] move.op = "MATCH_ENTRY_REFUND" -> balance["ESCROW"] >= move.amount
      [] move.op = "MATCH_WINNER_SETTLEMENT" -> balance["ESCROW"] = move.amount

\* Not a reversal; anything else, also what match-finance has posted.
Reversible(key) ==
    ledger[key] # NoTx /\ ledger[key].status = "POSTED" /\ ledger[key].request.op # "REVERSAL"

Calls ==
    [key : Keys, request : Requests,
     userSeen : Int, systemSeen : Int, missing : SUBSET Accounts]

\* The reads of a request, of the balances of its user and system account.
Reads(key, request, system, missing) ==
    [key |-> key, request |-> request, userSeen |-> balance[request.user],
     systemSeen |-> balance[system], missing |-> missing]

Init ==
    /\ opened = {}
    /\ balance = [a \in Accounts |-> 0]
    /\ ledger = [k \in Keys |-> NoTx]
    /\ pc = [h \in Handlers |-> "idle"]
    /\ call = [h \in Handlers |-> NoCall]

-----------------------------------------------------------------------------
Answer(h, outcome) ==
    /\ pc' = [pc EXCEPT ![h] = outcome]
    /\ UNCHANGED <<opened, balance, ledger>>

\* The key is already taken: the same request is answered with the stored
\* transaction, another one is refused.
AnswerFromLedger(h, key, request) ==
    Answer(h, IF SameRequest(key, request) THEN "REPLAYED" ELSE "CONFLICT")

EnsureWallet(user) ==
    /\ user \notin opened
    /\ opened' = opened \cup {user}
    /\ UNCHANGED <<balance, ledger, pc, call>>

\* A new request: key lookup, ensureAccounts and systemAccount.  The balance
\* of the system account is taken from this read.
PostBegin(h, key, request) ==
    /\ pc[h] \notin Running
    /\ call' = [call EXCEPT ![h] =
                  Reads(key, request, SystemOf(request),
                        {request.user, SystemOf(request)} \ opened)]
    /\ IF ledger[key] # NoTx
         THEN AnswerFromLedger(h, key, request)
         ELSE /\ pc' = [pc EXCEPT ![h] = "post"]
              /\ UNCHANGED <<opened, balance, ledger>>

\* A row of the account, or of the key, that another transaction inserted
\* first makes the insert fail (P2002, reported as an idempotency conflict).
PostCommit(h) ==
    LET c == call[h]
        r == c.request
        system == SystemOf(r)
        userAfter == NextBalance(FreshBalance(c), r.direction, r.amount)
        systemAfter == NextBalance(c.systemSeen, Opposite(r.direction), r.amount)
        rowsFree == c.missing \cap opened = {}
    IN /\ pc[h] = "post"
       /\ UNCHANGED call
       /\ \/ ~rowsFree /\ Answer(h, "CONFLICT")
          \/ rowsFree /\ ~Affordable(userAfter) /\ Answer(h, "INSUFFICIENT")
          \/ rowsFree /\ Affordable(userAfter) /\ ~KeyFree(c.key) /\ Answer(h, "CONFLICT")
          \/ /\ rowsFree /\ Affordable(userAfter) /\ KeyFree(c.key)
             /\ opened' = opened \cup {r.user, system}
             /\ balance' = [balance EXCEPT ![r.user] = userAfter, ![system] = systemAfter]
             /\ ledger' = [ledger EXCEPT ![c.key] =
                             [request |-> r, system |-> system, status |-> "POSTED"]]
             /\ pc' = [pc EXCEPT ![h] = "POSTED"]

\* WalletLedgerService.reverse looks at the original before it looks up the
\* key; the fingerprint of the reversal is derived from the original.
ReverseCheck(h, key, original) ==
    /\ pc[h] \notin Running
    /\ IF ledger[original] = NoTx
         THEN Answer(h, "NOT_FOUND") /\ call' = [call EXCEPT ![h] = NoCall]
         ELSE /\ call' = [call EXCEPT ![h] = Reads(key, ReversalOf(original), ledger[original].system, {})]
              /\ IF Reversible(original)
                   THEN /\ pc' = [pc EXCEPT ![h] = "checked"]
                        /\ UNCHANGED <<opened, balance, ledger>>
                   ELSE Answer(h, "NOT_REVERSIBLE")

\* The lookups of the reversing transaction and its reads of the balances,
\* all before lockAccounts.
ReverseBegin(h) ==
    LET c == call[h]
    IN /\ pc[h] = "checked"
       /\ call' = [call EXCEPT ![h] = Reads(c.key, c.request, ledger[c.request.of].system, {})]
       /\ IF ledger[c.key] # NoTx
            THEN AnswerFromLedger(h, c.key, c.request)
            ELSE IF Reversible(c.request.of)
            THEN /\ pc' = [pc EXCEPT ![h] = "reverse"]
                 /\ UNCHANGED <<opened, balance, ledger>>
            ELSE Answer(h, "NOT_REVERSIBLE")

\* Both new balances are computed from the reads of ReverseBegin.
ReverseCommit(h) ==
    LET c == call[h]
        r == c.request
        system == ledger[r.of].system
        userAfter == NextBalance(c.userSeen, r.direction, r.amount)
        systemAfter == NextBalance(c.systemSeen, Opposite(r.direction), r.amount)
    IN /\ pc[h] = "reverse"
       /\ UNCHANGED call
       /\ \/ ~Affordable(userAfter) /\ Answer(h, "INSUFFICIENT")
          \/ /\ Affordable(userAfter)
             /\ ~KeyFree(c.key) \/ ~ReversalFree(r.of)
             /\ Answer(h, "CONFLICT")
          \/ /\ Affordable(userAfter) /\ KeyFree(c.key) /\ ReversalFree(r.of)
             /\ balance' = [balance EXCEPT ![r.user] = userAfter, ![system] = systemAfter]
             /\ ledger' = [ledger EXCEPT
                             ![c.key] = [request |-> r, system |-> system, status |-> "POSTED"],
                             ![r.of].status = "REVERSED"]
             /\ pc' = [pc EXCEPT ![h] = "POSTED"]
             /\ UNCHANGED opened

\* reserve, refund and postSettlement of packages/match-finance: both balances
\* are moved by an update each, and one of the two has a condition.
EntryMoved(key, move) ==
    LET after(account, direction) == NextBalance(balance[account], direction, move.amount) IN
    /\ KeyFree(key) /\ Covered(move)
    /\ move.direction = "CREDIT" => move.user \in opened
    /\ opened' = opened \cup {move.user, "ESCROW"}
    /\ balance' = [balance EXCEPT ![move.user] = after(move.user, move.direction),
                                  !["ESCROW"] = after("ESCROW", Opposite(move.direction))]
    /\ ledger' = [ledger EXCEPT ![key] =
                     [request |-> move, system |-> "ESCROW", status |-> "POSTED"]]
    /\ UNCHANGED <<pc, call>>

\* A transaction that times out, is chosen as a deadlock victim or whose
\* process dies is rolled back.
Abort(h) ==
    /\ pc[h] \in Running
    /\ Answer(h, "FAILED")
    /\ UNCHANGED call

Next ==
    \/ \E user \in Users : EnsureWallet(user)
    \/ \E key \in Keys, move \in EntryMoves : EntryMoved(key, move)
    \/ \E h \in Handlers :
         \/ \E key \in Keys, request \in PostRequests : PostBegin(h, key, request)
         \/ PostCommit(h)
         \/ \E key \in ReversalKeys, original \in Keys : ReverseCheck(h, key, original)
         \/ ReverseBegin(h)
         \/ ReverseCommit(h)
         \/ Abort(h)

Spec == Init /\ [][Next]_vars

-----------------------------------------------------------------------------
\* The rows have their types; a request that is running, or that was
\* answered with a transaction, is recorded.
TypeOK ==
    /\ opened \subseteq Accounts
    /\ balance \in [Accounts -> Int]
    /\ ledger \in [Keys -> Transactions \cup {NoTx}]
    /\ pc \in [Handlers -> {"idle"} \cup Running \cup Outcomes]
    /\ call \in [Handlers -> Calls \cup {NoCall}]
    /\ \A h \in Handlers : pc[h] \in Running \cup {"POSTED", "REPLAYED"} => call[h] \in Calls

\* The signed amount a transaction's entry adds to an account.
EntryAmount(key, account) ==
    LET t == ledger[key]
        signed(direction) == IF direction = "CREDIT" THEN t.request.amount
                                                     ELSE 0 - t.request.amount
    IN IF t = NoTx THEN 0
       ELSE IF account = t.request.user THEN signed(t.request.direction)
       ELSE IF account = t.system THEN signed(Opposite(t.request.direction))
       ELSE 0

\* What reconcile derives: the sum of the entries of the account.
DerivedBalance(account) == SumFunction([key \in Keys |-> EntryAmount(key, account)])

\* "An atomic projection while entries remain the source of truth": the
\* balance of a user equals the sum of the user's entries.
UserProjectionExact == \A u \in Users : balance[u] = DerivedBalance(u)

\* The same of the system counter-accounts.
SystemProjectionExact == \A a \in SystemAccounts : balance[a] = DerivedBalance(a)

\* Posts and entries of matches alone never lose an update of a user's balance,
\* however they interleave, also with reversals still running: each starts from
\* a read taken under the row lock, or is itself an increment.
PostsKeepUserExact == (\A k \in Keys : ~Reversed(k)) => UserProjectionExact

\* "User balances cannot become negative": neither debits racing with each other
\* and with entries of matches, nor a reversal of a credit already spent, takes
\* a user below zero.
UserNeverNegative == \A u \in Users : balance[u] >= 0

\* "Conditional user/escrow debits prevent negative balances" (docs/security.md):
\* no more leaves the escrow of a match than was paid into it.
EscrowNeverNegative == balance["ESCROW"] >= 0

\* Nothing but the reversal of an entry of a match overdraws it, however
\* posts, reversals and entries race.
EscrowReversed == \E k \in Keys : Reversed(k) /\ ledger[k].system = "ESCROW"
EscrowCoveredUnlessReversed == EscrowReversed \/ EscrowNeverNegative

\* A transaction is reversed at most once, by whichever of several racing
\* reversals (under any keys) commits first, and a reversal is never itself
\* reversed; an original is REVERSED exactly when its reversal is stored.
ReversedOnce ==
    /\ \A k1, k2 \in Keys :
         /\ ledger[k1] # NoTx /\ ledger[k2] # NoTx
         /\ ledger[k1].request.of # NoTx
         /\ ledger[k1].request.of = ledger[k2].request.of
         => k1 = k2
    /\ \A k \in Keys : ledger[k] # NoTx =>
         /\ ledger[k].status = "REVERSED" <=> Reversed(k)
         /\ Reversed(k) => ledger[k].request.op # "REVERSAL"
         /\ ledger[k].request.op = "REVERSAL" =>
              ledger[ledger[k].request.of] # NoTx

\* A caller told "posted" or given the stored transaction finds its own
\* request under its key, whatever raced with it.
AnswerTruthful ==
    \A h \in Handlers : pc[h] \in {"POSTED", "REPLAYED"} =>
        /\ ledger[call[h].key] # NoTx
        /\ ledger[call[h].key].request = call[h].request

\* History is never edited: a stored transaction stays, unchanged but for
\* POSTED becoming REVERSED.
AppendOnly ==
    [][\A k \in Keys : ledger[k] # NoTx =>
         /\ ledger'[k].request = ledger[k].request
         /\ ledger[k].status = "REVERSED" => ledger'[k] = ledger[k]]_vars
=============================================================================
