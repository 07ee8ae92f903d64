------------------------- MODULE WalletLedgerProofs -------------------------
(***************************************************************************)
(* Proofs about WalletLedger, for every set of users, keys, amounts and    *)
(* handlers.                                                               *)
(***************************************************************************)
EXTENDS MCWalletLedger, FiniteSetTheorems, TLAPS

\* What a request in flight has established and later steps rely on: a post
\* carries a post request, a reversal an original that is stored and is not
\* itself a reversal.
InFlight ==
    \A h \in Handlers :
        /\ pc[h] = "post" => call[h].request \in PostRequests
        /\ pc[h] \in {"checked", "reverse"} =>
             /\ call[h].request \in Reversals
             /\ ledger[call[h].request.of] # NoTx
             /\ ledger[call[h].request.of].request.op # "REVERSAL"

\* The inductive invariant.
IInv == TypeOK /\ InFlight /\ UserNeverNegative /\ ReversedOnce /\ AnswerTruthful
-----------------------------------------------------------------------------
\* The entries of a transaction go to a user and to a system account.
LEMMA RequestParts ==
    ASSUME NEW r \in Requests
    PROVE  /\ r.user \in Users
           /\ r.direction \in Directions
           /\ r.amount \in Amounts
           /\ SystemOf(r) \in SystemAccounts
           /\ r \in PostRequests \cup EntryMoves => r.of = NoTx /\ r.op # "REVERSAL"
           /\ r \in Reversals => r.of \in Keys /\ r.op = "REVERSAL"
BY DEF Requests, PostRequests, EntryMoves, Reversals, SystemOf, SystemAccounts, Directions

LEMMA KindsOfRequests == PostRequests \cup EntryMoves \cup Reversals = Requests
BY DEF Requests

LEMMA UserIsNotSystem == \A u \in Users : u \notin SystemAccounts
BY UsersAssumption DEF SystemAccounts

LEMMA NextBalanceInt ==
    ASSUME NEW current \in Int, NEW direction, NEW amount \in Amounts
    PROVE  NextBalance(current, direction, amount) \in Int
BY AmountsAssumption DEF NextBalance

\* The request a reversal of a stored transaction carries is well formed.
LEMMA ReversalOfStored ==
    ASSUME TypeOK, NEW key \in Keys, ledger[key] # NoTx
    PROVE  ReversalOf(key) \in Reversals /\ ReversalOf(key).of = key
<1> DEFINE r == ledger[key].request
<1>1. ledger[key] \in Transactions
  BY DEF TypeOK
<1>2. r \in Requests
  BY <1>1 DEF Transactions
<1>3. ReversalOf(key) = [op |-> "REVERSAL", user |-> r.user, direction |-> Opposite(r.direction),
                         amount |-> r.amount, of |-> key]
  BY DEF ReversalOf
<1>4. Opposite(r.direction) \in Directions
  BY DEF Opposite, Directions
<1> QED
  BY <1>2, <1>3, <1>4, RequestParts, KindsOfRequests DEF Reversals

LEMMA ReadsType ==
    ASSUME TypeOK, NEW key \in Keys, NEW request \in Requests,
           NEW system \in SystemAccounts, NEW missing \in SUBSET Accounts
    PROVE  Reads(key, request, system, missing) \in Calls
BY RequestParts, KindsOfRequests DEF Reads, Calls, TypeOK, Accounts

-----------------------------------------------------------------------------
\* A step of one handler that stores no transaction.
LEMMA QuietStep ==
    ASSUME IInv,
           NEW h \in Handlers,
           NEW outcome \in {"idle"} \cup Running \cup Outcomes,
           NEW c \in Calls \cup {NoCall},
           opened' = opened, balance' = balance, ledger' = ledger,
           pc' = [pc EXCEPT ![h] = outcome],
           call' = [call EXCEPT ![h] = c],
           outcome \in Running \cup {"POSTED", "REPLAYED"} => c \in Calls,
           outcome = "post" => c.request \in PostRequests,
           outcome \in {"checked", "reverse"} =>
             /\ c.request \in Reversals
             /\ ledger[c.request.of] # NoTx
             /\ ledger[c.request.of].request.op # "REVERSAL",
           outcome \in {"POSTED", "REPLAYED"} =>
             ledger[c.key] # NoTx /\ ledger[c.key].request = c.request
    PROVE  IInv'
<1>1. TypeOK'
  BY DEF IInv, TypeOK
<1>2. InFlight'
  BY DEF IInv, TypeOK, InFlight
<1>3. UserNeverNegative'
  BY DEF IInv, UserNeverNegative
<1>4. ReversedOnce'
  BY DEF IInv, ReversedOnce, Reversed
<1>5. AnswerTruthful'
  BY DEF IInv, TypeOK, AnswerTruthful
<1> QED
  BY <1>1, <1>2, <1>3, <1>4, <1>5 DEF IInv

LEMMA EnsureWalletStep ==
    ASSUME IInv, NEW user \in Users, EnsureWallet(user)
    PROVE  IInv'
BY DEF IInv, TypeOK, InFlight, UserNeverNegative, ReversedOnce, Reversed, AnswerTruthful,
       EnsureWallet, Accounts

LEMMA PostBeginStep ==
    ASSUME IInv, NEW h \in Handlers, NEW key \in Keys, NEW request \in PostRequests,
           PostBegin(h, key, request)
    PROVE  IInv'
<1> DEFINE c == Reads(key, request, SystemOf(request),
                      {request.user, SystemOf(request)} \ opened)
<1>1. c \in Calls
  BY RequestParts, KindsOfRequests, ReadsType DEF IInv, Accounts
<1>2. c.key = key /\ c.request = request
  BY DEF Reads
<1>3. call' = [call EXCEPT ![h] = c]
  BY DEF PostBegin
<1> HIDE DEF c
<1>4. CASE ledger[key] = NoTx
  <2>1. pc' = [pc EXCEPT ![h] = "post"] /\ UNCHANGED <<opened, balance, ledger>>
    BY <1>4 DEF PostBegin
  <2> QED
    BY <1>1, <1>2, <1>3, <2>1, QuietStep DEF Running
<1>5. CASE ledger[key] # NoTx
  <2> DEFINE outcome == IF SameRequest(key, request) THEN "REPLAYED" ELSE "CONFLICT"
  <2>1. pc' = [pc EXCEPT ![h] = outcome] /\ UNCHANGED <<opened, balance, ledger>>
    BY <1>5 DEF PostBegin, AnswerFromLedger, Answer
  <2>2. outcome \in Outcomes /\ outcome \notin Running /\ outcome # "POSTED"
    BY DEF Outcomes, Running
  <2>3. outcome = "REPLAYED" => ledger[key].request = request
    BY DEF SameRequest
  <2> HIDE DEF outcome
  <2> QED
    BY <1>1, <1>2, <1>3, <1>5, <2>1, <2>2, <2>3, QuietStep DEF Running
<1> QED
  BY <1>4, <1>5

\* A new transaction that is not a reversal disturbs no reversal.
LEMMA NewRowStep ==
    ASSUME IInv, NEW key \in Keys, ledger[key] = NoTx,
           NEW row \in Transactions, row # NoTx, row.status = "POSTED",
           row.request.of = NoTx, row.request.op # "REVERSAL",
           ledger' = [ledger EXCEPT ![key] = row]
    PROVE  ReversedOnce'
<1>1. /\ ledger'[key] = row
      /\ \A k \in Keys : k # key => ledger'[k] = ledger[k]
  BY DEF IInv, TypeOK
<1>2. \A k \in Keys : Reversed(k)' <=> Reversed(k)
  BY <1>1, KeysAssumption DEF Reversed
<1>3. ~Reversed(key)
  <2> SUFFICES ASSUME NEW k \in Keys, ledger[k] # NoTx, ledger[k].request.of = key
               PROVE  FALSE
    BY DEF Reversed
  <2>1. ledger[k].request \in Reversals
    BY KeysAssumption, RequestParts, KindsOfRequests DEF IInv, TypeOK, Transactions
  <2> QED
    BY <2>1, RequestParts, KindsOfRequests DEF IInv, ReversedOnce
<1>4. \A k1, k2 \in Keys :
        /\ ledger'[k1] # NoTx /\ ledger'[k2] # NoTx
        /\ ledger'[k1].request.of # NoTx
        /\ ledger'[k1].request.of = ledger'[k2].request.of
        => k1 = k2
  BY <1>1 DEF IInv, ReversedOnce
<1>5. ASSUME NEW k \in Keys, ledger'[k] # NoTx
      PROVE  /\ ledger'[k].status = "REVERSED" <=> Reversed(k)'
             /\ Reversed(k)' => ledger'[k].request.op # "REVERSAL"
             /\ ledger'[k].request.op = "REVERSAL" =>
                  ledger'[ledger'[k].request.of] # NoTx
  <2>1. CASE k = key
    BY <2>1, <1>1, <1>2, <1>3
  <2>2. CASE k # key
    <3>1. ledger'[k] = ledger[k] /\ ledger[k] # NoTx
      BY <2>2, <1>1, <1>5
    <3>2. ledger[k].request.op = "REVERSAL" => ledger[k].request.of \in Keys \ {key}
      BY <3>1, RequestParts, KindsOfRequests DEF IInv, ReversedOnce, TypeOK, Transactions
    <3> QED
      BY <3>1, <3>2, <1>1, <1>2 DEF IInv, ReversedOnce
  <2> QED
    BY <2>1, <2>2
<1> QED
  BY <1>4, <1>5 DEF ReversedOnce

LEMMA PostCommitStep ==
    ASSUME IInv, NEW h \in Handlers, PostCommit(h)
    PROVE  IInv'
<1> DEFINE c == call[h]
           r == c.request
           system == SystemOf(r)
           userAfter == NextBalance(FreshBalance(c), r.direction, r.amount)
           systemAfter == NextBalance(c.systemSeen, Opposite(r.direction), r.amount)
           row == [request |-> r, system |-> system, status |-> "POSTED"]
<1>1. /\ pc[h] = "post" /\ call' = call
      /\ c \in Calls /\ c.key \in Keys /\ c.systemSeen \in Int
      /\ r \in PostRequests
  BY DEF PostCommit, IInv, TypeOK, InFlight, Running, Calls
<1>2. call' = [call EXCEPT ![h] = c]
  BY <1>1 DEF IInv, TypeOK
<1>3. r.user \in Users /\ r.amount \in Amounts /\ system \in SystemAccounts /\ system \notin Users
  BY <1>1, RequestParts, KindsOfRequests, UserIsNotSystem
<1>4. userAfter \in Int /\ systemAfter \in Int
  BY <1>1, <1>3, NextBalanceInt DEF IInv, TypeOK, FreshBalance, Accounts
<1>5. CASE \E outcome \in {"CONFLICT", "INSUFFICIENT"} : Answer(h, outcome)
  BY <1>1, <1>2, <1>5, QuietStep DEF Answer, Outcomes, Running
<1>6. CASE /\ Affordable(userAfter) /\ KeyFree(c.key)
           /\ opened' = opened \cup {r.user, system}
           /\ balance' = [balance EXCEPT ![r.user] = userAfter, ![system] = systemAfter]
           /\ ledger' = [ledger EXCEPT ![c.key] = row]
           /\ pc' = [pc EXCEPT ![h] = "POSTED"]
  <2>1. row \in Transactions /\ row # NoTx /\ row.request = r /\ row.status = "POSTED"
    BY <1>1, <1>3, NoTxAssumption, KindsOfRequests DEF Transactions
  <2>2. ledger[c.key] = NoTx
    BY <1>6 DEF KeyFree
  <2> HIDE DEF row, userAfter, systemAfter, system
  <2>3. TypeOK'
    BY <1>1, <1>3, <1>4, <1>6, <2>1 DEF IInv, TypeOK, Accounts, Outcomes, Running
  <2>4. InFlight'
    <3> SUFFICES ASSUME NEW g \in Handlers, pc'[g] \in {"post", "checked", "reverse"}
                 PROVE  /\ pc'[g] = "post" => call'[g].request \in PostRequests
                        /\ pc'[g] \in {"checked", "reverse"} =>
                             /\ call'[g].request \in Reversals
                             /\ ledger'[call'[g].request.of] # NoTx
                             /\ ledger'[call'[g].request.of].request.op # "REVERSAL"
      BY DEF InFlight
    <3>1. g # h /\ pc'[g] = pc[g] /\ call'[g] = call[g]
      BY <1>1, <1>6 DEF IInv, TypeOK
    <3>2. pc[g] \in {"checked", "reverse"} => call[g].request.of \in Keys \ {c.key}
      BY <3>1, <2>2, RequestParts, KindsOfRequests DEF IInv, InFlight
    <3> QED
      BY <1>6, <3>1, <3>2 DEF IInv, InFlight, TypeOK
  <2>5. UserNeverNegative'
    BY <1>3, <1>6 DEF IInv, TypeOK, UserNeverNegative, Affordable, Accounts
  <2>6. ReversedOnce'
    BY <1>1, <1>6, <2>1, <2>2, RequestParts, KindsOfRequests, NewRowStep
  <2>7. AnswerTruthful'
    BY <1>1, <1>6, <2>1, <2>2 DEF IInv, TypeOK, AnswerTruthful, Calls
  <2> QED
    BY <2>3, <2>4, <2>5, <2>6, <2>7 DEF IInv
<1> QED
  BY <1>5, <1>6 DEF PostCommit

LEMMA EntryMovedStep ==
    ASSUME IInv, NEW key \in Keys, NEW move \in EntryMoves, EntryMoved(key, move)
    PROVE  IInv'
<1> DEFINE userAfter == NextBalance(balance[move.user], move.direction, move.amount)
           escrowAfter == NextBalance(balance["ESCROW"], Opposite(move.direction), move.amount)
           row == [request |-> move, system |-> "ESCROW", status |-> "POSTED"]
<1>1. /\ ledger[key] = NoTx /\ Covered(move)
      /\ opened' = opened \cup {move.user, "ESCROW"}
      /\ balance' = [balance EXCEPT ![move.user] = userAfter, !["ESCROW"] = escrowAfter]
      /\ ledger' = [ledger EXCEPT ![key] = row]
      /\ pc' = pc /\ call' = call
  BY DEF EntryMoved, KeyFree
<1>2. /\ move.user \in Users /\ move.amount \in Amounts /\ "ESCROW" \notin Users
      /\ move.of = NoTx /\ move.op # "REVERSAL" /\ "ESCROW" \in SystemAccounts
  BY RequestParts, KindsOfRequests, UsersAssumption DEF SystemAccounts
<1>3. balance[move.user] \in Int /\ balance["ESCROW"] \in Int
  BY <1>2 DEF IInv, TypeOK, Accounts
<1>4. userAfter \in Int /\ escrowAfter \in Int
  BY <1>2, <1>3, NextBalanceInt
<1>5. userAfter >= 0
  <2>1. move.amount \in Int /\ move.amount > 0 /\ balance[move.user] >= 0
    <3>1. move.amount \in Nat \ {0}
      BY <1>2, AmountsAssumption
    <3>2. balance[move.user] >= 0
      BY <1>2 DEF IInv, UserNeverNegative
    <3> QED
      BY <3>1, <3>2
  <2>2. CASE move.op = "MATCH_ENTRY_RESERVATION"
    <3>1. move.direction = "DEBIT"
      BY <2>2 DEF EntryMoves
    <3>2. balance[move.user] >= move.amount
      BY <1>1, <2>2 DEF Covered
    <3> QED
      BY <1>3, <2>1, <3>1, <3>2 DEF NextBalance
  <2>3. CASE move.op # "MATCH_ENTRY_RESERVATION"
    <3>1. move.direction = "CREDIT"
      BY <2>3 DEF EntryMoves
    <3> QED
      BY <1>3, <2>1, <3>1 DEF NextBalance
  <2> QED
    BY <2>2, <2>3
<1>6. row \in Transactions /\ row # NoTx /\ row.request = move /\ row.status = "POSTED"
  BY <1>2, NoTxAssumption, KindsOfRequests DEF Transactions
<1> HIDE DEF row, userAfter, escrowAfter
<1>7. \A k \in Keys : ledger[k] # NoTx => ledger'[k] = ledger[k]
  BY <1>1 DEF IInv, TypeOK
<1>8. TypeOK'
  BY <1>1, <1>2, <1>4, <1>6 DEF IInv, TypeOK, Accounts
<1>9. InFlight'
  <2> SUFFICES ASSUME NEW h \in Handlers, pc[h] \in {"checked", "reverse"}
               PROVE  ledger'[call[h].request.of] = ledger[call[h].request.of]
    BY <1>1 DEF IInv, InFlight
  <2> QED
    BY <1>7, RequestParts, KindsOfRequests DEF IInv, InFlight
<1>10. UserNeverNegative'
  BY <1>1, <1>2, <1>5 DEF IInv, TypeOK, UserNeverNegative, Accounts
<1>11. ReversedOnce'
  BY <1>1, <1>2, <1>6, NewRowStep
<1>12. AnswerTruthful'
  <2> SUFFICES ASSUME NEW h \in Handlers, pc[h] \in {"POSTED", "REPLAYED"}
               PROVE  ledger'[call[h].key] = ledger[call[h].key]
    BY <1>1 DEF IInv, AnswerTruthful
  <2> QED
    BY <1>7 DEF IInv, TypeOK, AnswerTruthful, Calls
<1> QED
  BY <1>8, <1>9, <1>10, <1>11, <1>12 DEF IInv

LEMMA ReverseCheckStep ==
    ASSUME IInv, NEW h \in Handlers, NEW key \in ReversalKeys, NEW original \in Keys,
           ReverseCheck(h, key, original)
    PROVE  IInv'
<1> DEFINE c == Reads(key, ReversalOf(original), ledger[original].system, {})
<1>1. CASE ledger[original] = NoTx
  <2>1. call' = [call EXCEPT ![h] = NoCall] /\ Answer(h, "NOT_FOUND")
    BY <1>1 DEF ReverseCheck
  <2> QED
    BY <2>1, QuietStep DEF Answer, Outcomes, Running
<1>2. CASE ledger[original] # NoTx
  <2>1. ReversalOf(original) \in Reversals /\ ReversalOf(original).of = original
    BY <1>2, ReversalOfStored DEF IInv
  <2>2. c \in Calls
    <3>1. ledger[original].system \in SystemAccounts
      BY <1>2 DEF IInv, TypeOK, Transactions
    <3> QED
      BY <2>1, <3>1, ReadsType, KeysAssumption, KindsOfRequests DEF IInv
  <2>3. c.request = ReversalOf(original)
    BY DEF Reads
  <2>4. call' = [call EXCEPT ![h] = c]
    BY <1>2 DEF ReverseCheck
  <2> HIDE DEF c
  <2>5. CASE Reversible(original)
    <3>1. pc' = [pc EXCEPT ![h] = "checked"] /\ UNCHANGED <<opened, balance, ledger>>
      BY <1>2, <2>5 DEF ReverseCheck
    <3> QED
      BY <1>2, <2>1, <2>2, <2>3, <2>4, <2>5, <3>1, QuietStep DEF Running, Reversible
  <2>6. CASE ~Reversible(original)
    <3>1. Answer(h, "NOT_REVERSIBLE")
      BY <1>2, <2>6 DEF ReverseCheck
    <3> QED
      BY <2>2, <2>4, <3>1, QuietStep DEF Answer, Outcomes, Running
  <2> QED
    BY <2>5, <2>6
<1> QED
  BY <1>1, <1>2

LEMMA ReverseBeginStep ==
    ASSUME IInv, NEW h \in Handlers, ReverseBegin(h)
    PROVE  IInv'
<1> DEFINE d == call[h]
           c == Reads(d.key, d.request, ledger[d.request.of].system, {})
<1>1. /\ pc[h] = "checked" /\ d.key \in Keys /\ d.request \in Reversals
      /\ ledger[d.request.of] # NoTx /\ ledger[d.request.of].request.op # "REVERSAL"
  BY DEF ReverseBegin, IInv, TypeOK, InFlight, Running, Calls
<1>2. ledger[d.request.of].system \in SystemAccounts
  BY <1>1, RequestParts, KindsOfRequests DEF IInv, TypeOK, Transactions
<1>3. c \in Calls
  BY <1>1, <1>2, ReadsType, KindsOfRequests DEF IInv
<1>4. c.key = d.key /\ c.request = d.request
  BY DEF Reads
<1>5. call' = [call EXCEPT ![h] = c]
  BY DEF ReverseBegin
<1> HIDE DEF c
<1>6. CASE ledger[d.key] # NoTx
  <2> DEFINE outcome == IF SameRequest(d.key, d.request) THEN "REPLAYED" ELSE "CONFLICT"
  <2>1. pc' = [pc EXCEPT ![h] = outcome] /\ UNCHANGED <<opened, balance, ledger>>
    BY <1>6 DEF ReverseBegin, AnswerFromLedger, Answer
  <2>2. outcome \in Outcomes /\ outcome \notin Running /\ outcome # "POSTED"
    BY DEF Outcomes, Running
  <2>3. outcome = "REPLAYED" => ledger[d.key].request = d.request
    BY DEF SameRequest
  <2> HIDE DEF outcome
  <2> QED
    BY <1>3, <1>4, <1>5, <1>6, <2>1, <2>2, <2>3, QuietStep DEF Running
<1>7. CASE ledger[d.key] = NoTx /\ Reversible(d.request.of)
  <2>1. pc' = [pc EXCEPT ![h] = "reverse"] /\ UNCHANGED <<opened, balance, ledger>>
    BY <1>7 DEF ReverseBegin
  <2> QED
    BY <1>1, <1>3, <1>4, <1>5, <2>1, QuietStep DEF Running
<1>8. CASE ledger[d.key] = NoTx /\ ~Reversible(d.request.of)
  <2>1. Answer(h, "NOT_REVERSIBLE")
    BY <1>8 DEF ReverseBegin
  <2> QED
    BY <1>3, <1>5, <2>1, QuietStep DEF Answer, Outcomes, Running
<1> QED
  BY <1>6, <1>7, <1>8

LEMMA AbortStep ==
    ASSUME IInv, NEW h \in Handlers, Abort(h)
    PROVE  IInv'
<1>1. call[h] \in Calls /\ call' = [call EXCEPT ![h] = call[h]]
  BY DEF Abort, IInv, TypeOK
<1> QED
  BY <1>1, QuietStep DEF Abort, Answer, Outcomes, Running
LEMMA ReverseCommitStep ==
    ASSUME IInv, NEW h \in Handlers, ReverseCommit(h)
    PROVE  IInv'
<1> DEFINE c == call[h]
           r == c.request
           system == ledger[r.of].system
           userAfter == NextBalance(c.userSeen, r.direction, r.amount)
           systemAfter == NextBalance(c.systemSeen, Opposite(r.direction), r.amount)
           row == [request |-> r, system |-> system, status |-> "POSTED"]
           closed == [ledger[r.of] EXCEPT !.status = "REVERSED"]
<1>1. /\ pc[h] = "reverse" /\ call' = call
      /\ c \in Calls /\ c.key \in Keys /\ c.systemSeen \in Int /\ c.userSeen \in Int
      /\ r \in Reversals /\ r.of \in Keys
      /\ ledger[r.of] # NoTx /\ ledger[r.of].request.op # "REVERSAL"
  BY RequestParts, KindsOfRequests DEF ReverseCommit, IInv, TypeOK, InFlight, Running, Calls
<1>2. call' = [call EXCEPT ![h] = c]
  BY <1>1 DEF IInv, TypeOK
<1>3. ledger[r.of] \in Transactions /\ system \in SystemAccounts
  BY <1>1 DEF IInv, TypeOK, Transactions
<1>4. r.user \in Users /\ r.amount \in Amounts /\ r.op = "REVERSAL" /\ system \notin Users
  BY <1>1, <1>3, RequestParts, KindsOfRequests, UserIsNotSystem
<1>5. userAfter \in Int /\ systemAfter \in Int
  BY <1>1, <1>4, NextBalanceInt
<1>6. CASE \E outcome \in {"CONFLICT", "INSUFFICIENT"} : Answer(h, outcome)
  <2> PICK outcome \in {"CONFLICT", "INSUFFICIENT"} : Answer(h, outcome)
    BY <1>6
  <2> QED
    BY <1>1, <1>2, QuietStep DEF Answer, Outcomes, Running
<1>7. CASE /\ Affordable(userAfter) /\ KeyFree(c.key) /\ ReversalFree(r.of)
           /\ balance' = [balance EXCEPT ![r.user] = userAfter, ![system] = systemAfter]
           /\ ledger' = [ledger EXCEPT ![c.key] = row, ![r.of].status = "REVERSED"]
           /\ pc' = [pc EXCEPT ![h] = "POSTED"]
           /\ UNCHANGED opened
  <2>1. row \in Transactions /\ row # NoTx /\ row.request = r /\ row.status = "POSTED"
    BY <1>1, <1>3, NoTxAssumption, KindsOfRequests DEF Transactions
  <2>2. ledger[c.key] = NoTx /\ c.key # r.of /\ ~Reversed(r.of)
    BY <1>1, <1>7 DEF KeyFree, ReversalFree
  <2>3. /\ closed \in Transactions /\ closed # NoTx
        /\ closed.status = "REVERSED" /\ closed.request = ledger[r.of].request
    BY <1>3, NoTxAssumption DEF Transactions
  <2>4. /\ ledger'[c.key] = row
        /\ ledger'[r.of] = closed
        /\ \A k \in Keys \ {c.key, r.of} : ledger'[k] = ledger[k]
    BY <1>1, <1>7, <2>2 DEF IInv, TypeOK
  <2>5. ledger' \in [Keys -> Transactions \cup {NoTx}]
    <3>1. ledger' = [k \in Keys |-> IF k = c.key THEN row
                                    ELSE IF k = r.of THEN closed ELSE ledger[k]]
      BY <1>1, <1>7, <2>2 DEF IInv, TypeOK
    <3> QED
      BY <2>1, <2>3, <3>1 DEF IInv, TypeOK
  <2> HIDE DEF row, closed, userAfter, systemAfter, system
  <2>6. TypeOK'
    BY <1>1, <1>3, <1>4, <1>5, <1>7, <2>5 DEF IInv, TypeOK, Accounts, Outcomes, Running
  <2>7. \A k \in Keys : ledger[k] # NoTx =>
          ledger'[k] # NoTx /\ ledger'[k].request = ledger[k].request
    BY <2>2, <2>3, <2>4
  <2>8. InFlight'
    <3> SUFFICES ASSUME NEW g \in Handlers, pc'[g] \in {"post", "checked", "reverse"}
                 PROVE  /\ pc'[g] = "post" => call'[g].request \in PostRequests
                        /\ pc'[g] \in {"checked", "reverse"} =>
                             /\ call'[g].request \in Reversals
                             /\ ledger'[call'[g].request.of] # NoTx
                             /\ ledger'[call'[g].request.of].request.op # "REVERSAL"
      BY DEF InFlight
    <3>1. g # h /\ pc'[g] = pc[g] /\ call'[g] = call[g]
      BY <1>1, <1>7 DEF IInv, TypeOK
    <3>2. pc[g] \in {"checked", "reverse"} => call[g].request.of \in Keys
      BY <3>1, RequestParts, KindsOfRequests DEF IInv, InFlight
    <3> QED
      BY <2>7, <3>1, <3>2 DEF IInv, InFlight
  <2>9. UserNeverNegative'
    BY <1>4, <1>7 DEF IInv, TypeOK, UserNeverNegative, Affordable, Accounts
  <2>10. ReversedOnce'
    <3>1. \A k \in Keys : Reversed(k)' <=> Reversed(k) \/ k = r.of
      BY <1>1, <2>1, <2>2, <2>3, <2>4 DEF Reversed
    <3>2. ~Reversed(c.key)
      <4> SUFFICES ASSUME NEW k \in Keys, ledger[k] # NoTx, ledger[k].request.of = c.key
                   PROVE  FALSE
        BY DEF Reversed
      <4>1. ledger[k].request \in Reversals
        BY <1>1, KeysAssumption, RequestParts, KindsOfRequests DEF IInv, TypeOK, Transactions
      <4> QED
        BY <4>1, <2>2, RequestParts, KindsOfRequests DEF IInv, ReversedOnce
    <3>3. \A k \in Keys : ledger[k] # NoTx => ledger[k].request.of # r.of
      BY <2>2 DEF Reversed
    <3>4. ASSUME NEW k1 \in Keys, NEW k2 \in Keys,
                 ledger'[k1] # NoTx, ledger'[k2] # NoTx,
                 ledger'[k1].request.of # NoTx,
                 ledger'[k1].request.of = ledger'[k2].request.of
          PROVE  k1 = k2
      <4>1. \A k \in Keys : k # c.key /\ ledger'[k] # NoTx =>
              ledger[k] # NoTx /\ ledger'[k].request = ledger[k].request
        BY <1>1, <2>3, <2>4
      <4> QED
        BY <3>3, <3>4, <4>1, <2>1, <2>4 DEF IInv, ReversedOnce
    <3>5. ASSUME NEW k \in Keys, ledger'[k] # NoTx
          PROVE  /\ ledger'[k].status = "REVERSED" <=> Reversed(k)'
                 /\ Reversed(k)' => ledger'[k].request.op # "REVERSAL"
                 /\ ledger'[k].request.op = "REVERSAL" =>
                      ledger'[ledger'[k].request.of] # NoTx
      <4>1. CASE k = c.key
        BY <4>1, <1>1, <2>1, <2>2, <2>3, <2>4, <3>1, <3>2
      <4>2. CASE k = r.of
        BY <4>2, <1>1, <2>3, <2>4, <3>1
      <4>3. CASE k \notin {c.key, r.of}
        <5>1. ledger'[k] = ledger[k] /\ ledger[k] # NoTx
          BY <4>3, <2>4, <3>5
        <5>2. ledger[k].request.op = "REVERSAL" => ledger[k].request.of \in Keys
          BY <5>1, RequestParts, KindsOfRequests DEF IInv, TypeOK, Transactions
        <5> QED
          BY <4>3, <5>1, <5>2, <2>7, <3>1 DEF IInv, ReversedOnce
      <4> QED
        BY <4>1, <4>2, <4>3
    <3> QED
      BY <3>4, <3>5 DEF ReversedOnce
  <2>11. AnswerTruthful'
    <3> SUFFICES ASSUME NEW g \in Handlers, pc'[g] \in {"POSTED", "REPLAYED"}
                 PROVE  /\ ledger'[call'[g].key] # NoTx
                        /\ ledger'[call'[g].key].request = call'[g].request
      BY DEF AnswerTruthful
    <3>1. CASE g = h
      BY <3>1, <1>1, <2>1, <2>4
    <3>2. CASE g # h
      <4>1. pc'[g] = pc[g] /\ call'[g] = call[g] /\ pc[g] \in {"POSTED", "REPLAYED"}
        BY <3>2, <1>1, <1>7 DEF IInv, TypeOK
      <4>2. ledger[call[g].key] # NoTx /\ ledger[call[g].key].request = call[g].request
        BY <4>1 DEF IInv, AnswerTruthful
      <4>3. call[g].key \in Keys
        BY <4>1 DEF IInv, TypeOK, Calls
      <4> QED
        BY <4>1, <4>2, <4>3, <2>7
    <3> QED
      BY <3>1, <3>2
  <2> QED
    BY <2>6, <2>8, <2>9, <2>10, <2>11 DEF IInv
<1> QED
  BY <1>6, <1>7 DEF ReverseCommit

-----------------------------------------------------------------------------
(* Sums.  SumFunction adds the values of a function in the order in which    *)
(* CHOOSE picks them; every sum over a subset is reached on the way.         *)

First(s) == CHOOSE x \in s : TRUE
RunningSum(g, f, S) ==
    g = [s \in SUBSET S |-> IF s = {} THEN 0 ELSE f[First(s)] + g[s \ {First(s)}]]

\* SumFunction, unfolded.
LEMMA SumIsRunning ==
    ASSUME NEW S, NEW f \in [S -> Int]
    PROVE  SumFunction(f) = (CHOOSE g : RunningSum(g, f, S))[S]
<1>1. DOMAIN f = S
  OBVIOUS
<1>2. SumFunction(f) = (CHOOSE g : RunningSum(g, f, DOMAIN f))[DOMAIN f]
  BY DEF SumFunction, SumFunctionOnSet, FoldFunctionOnSet, MapThenFoldSet, RunningSum, First
<1> QED
  BY <1>1, <1>2

\* Of the subsets of a finite set that are bad, one has no bad proper subset.
LEMMA MinimalSubset ==
    ASSUME NEW S, IsFiniteSet(S), NEW Bad \in SUBSET (SUBSET S), Bad # {}
    PROVE  \E s \in Bad : \A t \in Bad : t \subseteq s => t = s
<1>1. IsWellFoundedOn(StrictSubsetOrdering(S), SUBSET S)
  BY FS_StrictSubsetOrderingWellFounded, FS_FiniteSubsetsOfFinite
<1>2. PICK s \in Bad : \A t \in Bad : <<t, s>> \notin StrictSubsetOrdering(S)
  BY <1>1, WFMin
<1>3. ASSUME NEW t \in Bad, t \subseteq s, t # s PROVE FALSE
  BY <1>2, <1>3 DEF StrictSubsetOrdering
<1> QED
  BY <1>3

LEMMA SmallerSet ==
    ASSUME NEW s, s # {}
    PROVE  /\ First(s) \in s
           /\ s \ {First(s)} \subseteq s /\ s \ {First(s)} # s
BY DEF First

LEMMA RunningSumInt ==
    ASSUME NEW S, IsFiniteSet(S), NEW U \in SUBSET S, NEW f \in [S -> Int],
           NEW g, RunningSum(g, f, U)
    PROVE  \A s \in SUBSET U : g[s] \in Int
<1> DEFINE Bad == {s \in SUBSET U : g[s] \notin Int}
<1> SUFFICES ASSUME Bad # {} PROVE FALSE
  OBVIOUS
<1>1. PICK s \in Bad : \A t \in Bad : t \subseteq s => t = s
  <2>1. Bad \in SUBSET (SUBSET S)
    OBVIOUS
  <2> HIDE DEF Bad
  <2> QED
    BY <2>1, MinimalSubset
<1>2. g[s] = IF s = {} THEN 0 ELSE f[First(s)] + g[s \ {First(s)}]
  BY DEF RunningSum
<1>3. s # {}
  BY <1>2
<1>4. g[s \ {First(s)}] \in Int
  BY <1>1, <1>3, SmallerSet
<1> QED
  BY <1>2, <1>3, <1>4, SmallerSet

\* Two functions on S differ by d, and only at k.
DifferAt(e, f, S, k, d) ==
    /\ e \in [S -> Int] /\ f \in [S -> Int] /\ d \in Int
    /\ \A x \in S : f[x] = e[x] + IF x = k THEN d ELSE 0

\* Their sums differ by d where k is counted.
LEMMA RunningSumsDiffer ==
    ASSUME NEW S, IsFiniteSet(S), NEW U \in SUBSET S, NEW V \in SUBSET S,
           NEW e, NEW f, NEW k, NEW d, DifferAt(e, f, S, k, d),
           NEW g, RunningSum(g, e, U), NEW h, RunningSum(h, f, V),
           NEW r, r \subseteq U, r \subseteq V
    PROVE  /\ k \in r => h[r] = g[r] + d
           /\ k \notin r => h[r] = g[r]
<1> DEFINE Off == {s \in SUBSET S : s \subseteq U /\ s \subseteq V
                                      /\ h[s] # g[s] + IF k \in s THEN d ELSE 0}
<1>0. g[r] \in Int
  BY RunningSumInt DEF DifferAt
<1> SUFFICES ASSUME Off # {} PROVE FALSE
  BY <1>0
<1>1. PICK s \in Off : \A t \in Off : t \subseteq s => t = s
  <2>1. Off \in SUBSET (SUBSET S)
    OBVIOUS
  <2> HIDE DEF Off
  <2> QED
    BY <2>1, MinimalSubset
<1> DEFINE t == s \ {First(s)}
<1>2. /\ g[s] = IF s = {} THEN 0 ELSE e[First(s)] + g[t]
      /\ h[s] = IF s = {} THEN 0 ELSE f[First(s)] + h[t]
  BY DEF RunningSum
<1>3. s # {}
  BY <1>2
<1>4. h[t] = g[t] + IF k \in t THEN d ELSE 0
  BY <1>1, <1>3, SmallerSet
<1>5. g[t] \in Int /\ e[First(s)] \in Int /\ f[First(s)] = e[First(s)] + IF First(s) = k THEN d ELSE 0
  BY <1>3, SmallerSet, RunningSumInt DEF DifferAt
<1>6. k \in s <=> k \in t \/ First(s) = k
  BY <1>3, SmallerSet
<1>7. ~(k \in t /\ First(s) = k)
  OBVIOUS
<1> HIDE DEF t
<1>8. h[s] = g[s] + IF k \in s THEN d ELSE 0
  BY <1>2, <1>3, <1>4, <1>5, <1>6, <1>7 DEF DifferAt
<1> QED
  BY <1>8

LEMMA RunningSumExists ==
    ASSUME NEW S, IsFiniteSet(S), NEW f \in [S -> Int]
    PROVE  \E g : RunningSum(g, f, S)
<1> DEFINE Bad == {U \in SUBSET S : ~\E g : RunningSum(g, f, U)}
<1> SUFFICES ASSUME Bad # {} PROVE FALSE
  OBVIOUS
<1>1. PICK U \in Bad : \A V \in Bad : V \subseteq U => V = U
  <2>1. Bad \in SUBSET (SUBSET S)
    OBVIOUS
  <2> HIDE DEF Bad
  <2> QED
    BY <2>1, MinimalSubset
<1> DEFINE run(V) == CHOOSE g : RunningSum(g, f, V)
           value(V) == run(V)[V]
           g == [s \in SUBSET U |-> IF s = {} THEN 0
                                    ELSE f[First(s)] + value(s \ {First(s)})]
<1>2. ASSUME NEW V, V \subseteq U, V # U PROVE RunningSum(run(V), f, V)
  BY <1>1, <1>2
<1>3. ASSUME NEW V, V \subseteq U, V # U PROVE g[V] = value(V)
  <2> DEFINE W == V \ {First(V)}
  <2>1. PICK r : r = run(V) /\ RunningSum(r, f, V)
    BY <1>2, <1>3
  <2>2. value(V) = IF V = {} THEN 0 ELSE f[First(V)] + r[W]
    <3>1. V \in SUBSET V /\ value(V) = r[V]
      BY <2>1
    <3> HIDE DEF value
    <3> QED
      BY <2>1, <3>1 DEF RunningSum
  <2>3. CASE V # {}
    <3>1. W \subseteq V /\ W \subseteq U /\ W # U
      BY <1>3
    <3>2. PICK q : q = run(W) /\ RunningSum(q, f, W)
      BY <1>2, <3>1
    <3>3. value(W) = q[W]
      BY <3>2
    <3> HIDE DEF run, value
    <3>4. V \in SUBSET S /\ W \in SUBSET S /\ W \in SUBSET V
      BY <1>3, <3>1
    <3>5. r[W] \in Int
      BY <2>1, <3>4, RunningSumInt
    <3>6. PICK k, d : k = S /\ d = 0
      OBVIOUS
    <3>7. DifferAt(f, f, S, k, d)
      BY <3>6 DEF DifferAt
    <3> HIDE DEF W
    <3>8. q[W] = r[W] + d \/ q[W] = r[W]
      BY <2>1, <3>2, <3>4, <3>7, RunningSumsDiffer
    <3>9. q[W] = r[W]
      BY <3>5, <3>6, <3>8
    <3> USE DEF W
    <3> QED
      BY <1>3, <2>2, <2>3, <3>3, <3>9
  <2> QED
    BY <1>3, <2>2, <2>3
<1>4. ASSUME NEW s \in SUBSET U, s # {} PROVE g[s] = f[First(s)] + g[s \ {First(s)}]
  BY <1>3, <1>4, SmallerSet
<1>5. RunningSum(g, f, U)
  <2> DEFINE step == [s \in SUBSET U |-> IF s = {} THEN 0 ELSE f[First(s)] + g[s \ {First(s)}]]
  <2>1. \A s \in SUBSET U : g[s] = step[s]
    BY <1>4
  <2> HIDE DEF step
  <2>2. g = step
    BY <2>1 DEF step
  <2> QED
    BY <2>2 DEF RunningSum, step
<1> QED
  BY <1>5

\* The sum of a function is an integer; changing one of its values changes the
\* sum as much.
LEMMA SumInt ==
    ASSUME NEW S, IsFiniteSet(S), NEW f \in [S -> Int]
    PROVE  SumFunction(f) \in Int
<1>1. PICK g : g = (CHOOSE r : RunningSum(r, f, S)) /\ RunningSum(g, f, S)
  BY RunningSumExists
<1> QED
  BY <1>1, SumIsRunning, RunningSumInt

LEMMA SumChanges ==
    ASSUME NEW S, IsFiniteSet(S), NEW e \in [S -> Int], NEW f \in [S -> Int],
           NEW k \in S, \A x \in S \ {k} : f[x] = e[x]
    PROVE  SumFunction(f) = SumFunction(e) + f[k] - e[k]
<1>1. PICK g : g = (CHOOSE r : RunningSum(r, e, S)) /\ RunningSum(g, e, S)
  BY RunningSumExists
<1>2. PICK h : h = (CHOOSE r : RunningSum(r, f, S)) /\ RunningSum(h, f, S)
  BY RunningSumExists
<1>3. PICK d \in Int : d = f[k] - e[k]
  OBVIOUS
<1>4. DifferAt(e, f, S, k, d)
  BY <1>3 DEF DifferAt
<1>5. S \in SUBSET S
  OBVIOUS
<1>6. h[S] = g[S] + d
  <2>1. RunningSum(g, e, S) /\ RunningSum(h, f, S)
    BY <1>1, <1>2
  <2> QED
    BY <2>1, <1>4, <1>5, RunningSumsDiffer
<1>7. g[S] \in Int
  BY <1>1, <1>5, RunningSumInt
<1> HIDE DEF RunningSum
<1>8. SumFunction(e) = g[S] /\ SumFunction(f) = h[S]
  BY <1>1, <1>2, SumIsRunning
<1> QED
  BY <1>3, <1>6, <1>7, <1>8

LEMMA SumOfZeros ==
    ASSUME NEW S, IsFiniteSet(S), NEW f \in [S -> {0}]
    PROVE  SumFunction(f) = 0
<1>1. PICK g : g = (CHOOSE r : RunningSum(r, f, S)) /\ RunningSum(g, f, S)
  BY RunningSumExists
<1> DEFINE Bad == {s \in SUBSET S : g[s] # 0}
<1>2. Bad = {}
  <2> SUFFICES ASSUME Bad # {} PROVE FALSE
    OBVIOUS
  <2>1. PICK s \in Bad : \A t \in Bad : t \subseteq s => t = s
    <3>1. Bad \in SUBSET (SUBSET S)
      OBVIOUS
    <3> HIDE DEF Bad
    <3> QED
      BY <3>1, MinimalSubset
  <2>2. g[s] = IF s = {} THEN 0 ELSE f[First(s)] + g[s \ {First(s)}]
    BY <1>1 DEF RunningSum
  <2>3. s # {}
    BY <2>2
  <2>4. g[s \ {First(s)}] = 0 /\ f[First(s)] = 0
    BY <2>1, <2>3, SmallerSet
  <2> QED
    BY <2>2, <2>3, <2>4
<1> QED
  BY <1>1, <1>2, SumIsRunning

-----------------------------------------------------------------------------
(* What a stored transaction does to the sums of the entries.               *)

AmountsInt == \A account \in Accounts, key \in Keys : EntryAmount(key, account) \in Int

LEMMA EntriesInt == TypeOK => AmountsInt
<1> SUFFICES ASSUME TypeOK, NEW account \in Accounts, NEW key \in Keys
             PROVE  EntryAmount(key, account) \in Int
  BY DEF AmountsInt
<1>1. CASE ledger[key] = NoTx
  BY <1>1 DEF EntryAmount
<1>2. CASE ledger[key] # NoTx
  <2>1. ledger[key].request \in Requests
    BY <1>2 DEF TypeOK, Transactions
  <2>2. ledger[key].request.amount \in Nat
    BY <2>1, RequestParts, AmountsAssumption
  <2> QED BY <1>2, <2>2 DEF EntryAmount
<1> QED BY <1>1, <1>2

\* The same entries have the same sum.
LEMMA DerivedSame ==
    ASSUME ledger' = ledger, NEW account
    PROVE  DerivedBalance(account)' = DerivedBalance(account)
BY DEF DerivedBalance, EntryAmount

\* One transaction more: every sum grows by its entry.
LEMMA DerivedChanges ==
    ASSUME TypeOK, TypeOK', NEW account \in Accounts,
           NEW key \in Keys, ledger[key] = NoTx,
           \A k \in Keys \ {key} :
               \/ ledger'[k] = ledger[k]
               \/ /\ ledger[k] # NoTx /\ ledger'[k] # NoTx
                  /\ ledger'[k].request = ledger[k].request
                  /\ ledger'[k].system = ledger[k].system
    PROVE  /\ DerivedBalance(account) \in Int
           /\ DerivedBalance(account)' = DerivedBalance(account) + EntryAmount(key, account)'
<1> DEFINE e == [k \in Keys |-> EntryAmount(k, account)]
           f == [k \in Keys |-> EntryAmount(k, account)']
<1>1. e \in [Keys -> Int]
  BY EntriesInt DEF AmountsInt
<1>2. f \in [Keys -> Int]
  <2>1. AmountsInt'
    BY EntriesInt, PTL
  <2> QED BY <2>1 DEF AmountsInt
<1>3. \A k \in Keys \ {key} : f[k] = e[k]
  BY DEF EntryAmount
<1>4. e[key] = 0
  BY DEF EntryAmount
<1>5. f[key] = EntryAmount(key, account)'
  OBVIOUS
<1>6. DerivedBalance(account) = SumFunction(e) /\ DerivedBalance(account)' = SumFunction(f)
  BY DEF DerivedBalance
<1> HIDE DEF e, f
<1>7. SumFunction(e) \in Int
  BY <1>1, SumInt, KeysAssumption
<1>8. SumFunction(f) = SumFunction(e) + f[key] - e[key]
  BY <1>1, <1>2, <1>3, SumChanges, KeysAssumption
<1>9. f[key] \in Int
  BY <1>2
<1> QED BY <1>4, <1>5, <1>6, <1>7, <1>8, <1>9

\* The entries of a transaction on r between r.user and a system account, from
\* whatever reading of the latter.
Books(key, r, system, seen) ==
    /\ ledger[key] = NoTx
    /\ ledger'[key] = [request |-> r, system |-> system, status |-> "POSTED"]
    /\ balance' = [balance EXCEPT ![r.user] = NextBalance(balance[r.user], r.direction, r.amount),
                                  ![system] = NextBalance(seen, Opposite(r.direction), r.amount)]
    /\ \A k \in Keys \ {key} :
          \/ ledger'[k] = ledger[k]
          \/ /\ ledger[k] # NoTx /\ ledger'[k] # NoTx
             /\ ledger'[k].request = ledger[k].request
             /\ ledger'[k].system = ledger[k].system

LEMMA BooksAreExact ==
    ASSUME TypeOK, TypeOK', NEW key \in Keys, NEW r \in Requests, NEW system \in SystemAccounts,
           NEW seen \in Int, Books(key, r, system, seen), NEW account \in Accounts,
           balance[account] = DerivedBalance(account),
           account \in Users \/ seen = balance[system]
    PROVE  (balance[account] = DerivedBalance(account))'
<1>1. r.user \in Users /\ system \notin Users /\ r.amount \in Nat /\ r.direction \in Directions
  BY RequestParts, UserIsNotSystem, AmountsAssumption
<1>2. /\ DerivedBalance(account) \in Int
      /\ DerivedBalance(account)' = DerivedBalance(account) + EntryAmount(key, account)'
  BY DerivedChanges DEF Books
<1>3. balance[account] \in Int
  BY DEF TypeOK
<1>4. [request |-> r, system |-> system, status |-> "POSTED"] # NoTx
  BY NoTxAssumption DEF Transactions
<1>5. CASE account = r.user
  <2>1. balance'[account] = NextBalance(balance[account], r.direction, r.amount)
    BY <1>1, <1>5 DEF Books, TypeOK, Accounts
  <2>2. EntryAmount(key, account)' = IF r.direction = "CREDIT" THEN r.amount ELSE 0 - r.amount
    BY <1>4, <1>5 DEF Books, EntryAmount
  <2> QED BY <1>1, <1>2, <1>3, <2>1, <2>2 DEF NextBalance
<1>6. CASE account = system
  <2>1. balance'[account] = NextBalance(seen, Opposite(r.direction), r.amount)
    BY <1>1, <1>6 DEF Books, TypeOK, Accounts
  <2>2. EntryAmount(key, account)' =
          IF Opposite(r.direction) = "CREDIT" THEN r.amount ELSE 0 - r.amount
    BY <1>1, <1>4, <1>6 DEF Books, EntryAmount
  <2>3. seen = balance[account]
    BY <1>1, <1>6
  <2> QED BY <1>1, <1>2, <1>3, <2>1, <2>2, <2>3 DEF NextBalance
<1>7. CASE account \notin {r.user, system}
  <2>1. balance'[account] = balance[account]
    BY <1>7 DEF Books, TypeOK
  <2>2. EntryAmount(key, account)' = 0
    BY <1>4, <1>7 DEF Books, EntryAmount
  <2> QED BY <1>2, <1>3, <2>1, <2>2
<1> QED BY <1>5, <1>6, <1>7

\* A post, a reversal, or an entry of a match stores the transaction, on what it
\* took for the balance of the system account.
BooksBy(key, r, system, seen) ==
    \/ \E h \in Handlers :
          /\ pc[h] = "post" /\ system = SystemOf(call[h].request)
          /\ seen = call[h].systemSeen
          /\ Books(key, r, system, seen)
    \/ \E h \in Handlers :
          /\ pc[h] = "reverse" /\ system = ledger[call[h].request.of].system
          /\ r = call[h].request
          /\ seen = call[h].systemSeen
          /\ ledger'[key] = [request |-> r, system |-> system, status |-> "POSTED"]
          /\ call[h].userSeen = balance[r.user] => Books(key, r, system, seen)
    \/ seen = balance[system] /\ Books(key, r, system, seen)

\* A step that touches the books stores a transaction.
LEMMA WhoBooks ==
    ASSUME IInv, Next, ledger' # ledger \/ balance' # balance
    PROVE  \E key \in Keys, r \in Requests, system \in SystemAccounts, seen \in Int :
             ledger' # ledger /\ BooksBy(key, r, system, seen)
<1>1. CASE \E key \in Keys, move \in EntryMoves : EntryMoved(key, move)
  <2>1. PICK key \in Keys, move \in EntryMoves : EntryMoved(key, move)
    BY <1>1
  <2> DEFINE row == [request |-> move, system |-> "ESCROW", status |-> "POSTED"]
  <2>2. move \in Requests /\ "ESCROW" \in SystemAccounts /\ row # NoTx /\ balance["ESCROW"] \in Int
    BY NoTxAssumption, KindsOfRequests DEF Transactions, SystemAccounts, IInv, TypeOK, Accounts
  <2>3. ledger[key] = NoTx /\ ledger' = [ledger EXCEPT ![key] = row]
    BY <2>1 DEF EntryMoved, KeyFree
  <2> HIDE DEF row
  <2>4. ledger'[key] = row /\ \A k \in Keys \ {key} : ledger'[k] = ledger[k]
    BY <2>3 DEF IInv, TypeOK
  <2>5. Books(key, move, "ESCROW", balance["ESCROW"])
    BY <2>1, <2>3, <2>4 DEF Books, EntryMoved, row
  <2> QED BY <2>2, <2>3, <2>4, <2>5 DEF BooksBy
<1>2. CASE \E h \in Handlers : PostCommit(h)
  <2>1. PICK h \in Handlers : PostCommit(h)
    BY <1>2
  <2>2. PICK c \in Calls : c = call[h]
    BY <2>1 DEF PostCommit, IInv, TypeOK, Running
  <2>3. PICK r : r = c.request
    OBVIOUS
  <2>4. PICK system : system = SystemOf(r)
    OBVIOUS
  <2> DEFINE row == [request |-> r, system |-> system, status |-> "POSTED"]
  <2>5. /\ ledger[c.key] = NoTx /\ pc[h] = "post"
        /\ ledger' = [ledger EXCEPT ![c.key] = row]
        /\ balance' = [balance EXCEPT
                          ![r.user] = NextBalance(balance[r.user], r.direction, r.amount),
                          ![system] = NextBalance(c.systemSeen, Opposite(r.direction), r.amount)]
    BY <2>1, <2>2, <2>3, <2>4 DEF PostCommit, KeyFree, FreshBalance, Answer
  <2>6. c.key \in Keys /\ c.systemSeen \in Int /\ r \in Requests /\ system \in SystemAccounts
    BY <2>2, <2>3, <2>4, RequestParts DEF Calls
  <2>7. row # NoTx
    BY <2>6, NoTxAssumption DEF Transactions
  <2> HIDE DEF row
  <2>8. ledger'[c.key] = row /\ \A k \in Keys \ {c.key} : ledger'[k] = ledger[k]
    BY <2>5, <2>6 DEF IInv, TypeOK
  <2>9. Books(c.key, r, system, c.systemSeen)
    BY <2>5, <2>8 DEF Books, row
  <2> QED BY <2>2, <2>3, <2>4, <2>5, <2>6, <2>7, <2>8, <2>9 DEF BooksBy
<1>3. CASE \E h \in Handlers : ReverseCommit(h)
  <2>1. PICK h \in Handlers : ReverseCommit(h)
    BY <1>3
  <2>2. PICK c \in Calls : c = call[h]
    BY <2>1 DEF ReverseCommit, IInv, TypeOK, Running
  <2>3. PICK r : r = c.request
    OBVIOUS
  <2>4. PICK system : system = ledger[r.of].system
    OBVIOUS
  <2> DEFINE row == [request |-> r, system |-> system, status |-> "POSTED"]
  <2>5. /\ ledger[c.key] = NoTx /\ pc[h] = "reverse"
        /\ ledger' = [ledger EXCEPT ![c.key] = row, ![r.of].status = "REVERSED"]
        /\ balance' = [balance EXCEPT
                          ![r.user] = NextBalance(c.userSeen, r.direction, r.amount),
                          ![system] = NextBalance(c.systemSeen, Opposite(r.direction), r.amount)]
    BY <2>1, <2>2, <2>3, <2>4 DEF ReverseCommit, KeyFree, Answer
  <2>6. /\ c.key \in Keys /\ c.systemSeen \in Int
        /\ r \in Requests /\ r.of \in Keys /\ ledger[r.of] # NoTx
    BY <2>2, <2>3, <2>5, RequestParts, KindsOfRequests DEF IInv, InFlight, Calls
  <2>7. ledger[r.of] \in Transactions /\ system \in SystemAccounts
    BY <2>4, <2>6 DEF IInv, TypeOK, Transactions
  <2>8. row # NoTx
    BY <2>6, <2>7, NoTxAssumption DEF Transactions
  <2> HIDE DEF row
  <2>9. /\ ledger'[c.key] = row
        /\ ledger'[r.of] = [ledger[r.of] EXCEPT !.status = "REVERSED"]
        /\ \A k \in Keys \ {c.key, r.of} : ledger'[k] = ledger[k]
    BY <2>5, <2>6 DEF IInv, TypeOK
  <2>10. /\ ledger'[r.of] # NoTx
         /\ ledger'[r.of].request = ledger[r.of].request
         /\ ledger'[r.of].system = ledger[r.of].system
    <3>1. ledger'[r.of] \in Transactions
      BY <2>7, <2>9 DEF Transactions
    <3> QED BY <2>7, <2>9, <3>1, NoTxAssumption DEF Transactions
  <2>11. c.userSeen = balance[r.user] => Books(c.key, r, system, c.systemSeen)
    BY <2>5, <2>6, <2>9, <2>10 DEF Books, row
  <2>12. ledger' # ledger
    BY <2>5, <2>8, <2>9
  <2>13. ledger'[c.key] = [request |-> r, system |-> system, status |-> "POSTED"]
    BY <2>9 DEF row
  <2>14. /\ pc[h] = "reverse" /\ system = ledger[call[h].request.of].system
         /\ r = call[h].request /\ c.systemSeen = call[h].systemSeen
         /\ call[h].userSeen = balance[r.user] => Books(c.key, r, system, c.systemSeen)
    BY <2>2, <2>3, <2>4, <2>5, <2>11
  <2>15. c.key \in Keys /\ r \in Requests /\ system \in SystemAccounts /\ c.systemSeen \in Int
    BY <2>6, <2>7
  <2> QED BY <2>12, <2>13, <2>14, <2>15 DEF BooksBy
<1> QED
  BY <1>1, <1>2, <1>3 DEF Next, EnsureWallet, PostBegin, AnswerFromLedger, Answer, ReverseCheck,
     ReverseBegin, Abort

-----------------------------------------------------------------------------
LEMMA InitHolds == Init => IInv
BY DEF Init, IInv, TypeOK, InFlight, UserNeverNegative, ReversedOnce, Reversed,
       AnswerTruthful, Accounts, Running

LEMMA StepHolds == IInv /\ [Next]_vars => IInv'
<1> SUFFICES ASSUME IInv, [Next]_vars PROVE IInv'
  OBVIOUS
<1>1. CASE UNCHANGED vars
  BY <1>1 DEF vars, IInv, TypeOK, InFlight, UserNeverNegative, ReversedOnce, Reversed,
              AnswerTruthful
<1>2. CASE Next
  BY <1>2, EnsureWalletStep, EntryMovedStep, PostBeginStep, PostCommitStep, ReverseCheckStep,
     ReverseBeginStep, ReverseCommitStep, AbortStep DEF Next
<1> QED
  BY <1>1, <1>2
\* What a step does to a stored transaction.
Kept == \A k \in Keys : ledger[k] # NoTx =>
          /\ ledger'[k] # NoTx
          /\ ledger'[k].request = ledger[k].request
          /\ ledger[k].status = "REVERSED" => ledger'[k] = ledger[k]

LEMMA RowsKept == IInv /\ [Next]_vars => Kept
<1>1. ASSUME IInv, [Next]_vars PROVE Kept
  <2>1. CASE ledger' = ledger
    BY <2>1 DEF Kept
  <2>2. CASE \E h \in Handlers : PostCommit(h)
    BY <1>1, <2>2 DEF PostCommit, KeyFree, Answer, IInv, TypeOK, Kept
  <2>4. CASE \E key \in Keys, move \in EntryMoves : EntryMoved(key, move)
    BY <1>1, <2>4 DEF EntryMoved, KeyFree, IInv, TypeOK, Kept
  <2>3. CASE \E h \in Handlers : ReverseCommit(h)
    <3>1. PICK h \in Handlers : ReverseCommit(h)
      BY <2>3
    <3> DEFINE of == call[h].request.of
    <3>2. pc[h] = "reverse"
      BY <3>1 DEF ReverseCommit
    <3>3. of \in Keys /\ ledger[of] # NoTx
      BY <1>1, <3>2, RequestParts, KindsOfRequests DEF IInv, InFlight
    <3>4. ledger[of].status = "REVERSED" <=> ~ReversalFree(of)
      BY <1>1, <3>3 DEF IInv, ReversedOnce, ReversalFree
    <3>5. ledger[of] \in Transactions
      BY <1>1, <3>3 DEF IInv, TypeOK
    <3>6. CASE ledger' # ledger
      <4>1. /\ ledger[call[h].key] = NoTx
            /\ ReversalFree(of)
            /\ \E row : ledger' = [ledger EXCEPT ![call[h].key] = row, ![of].status = "REVERSED"]
        BY <3>1, <3>6 DEF ReverseCommit, Answer, KeyFree
      <4>2. /\ ledger'[of] = [ledger[of] EXCEPT !.status = "REVERSED"]
            /\ \A k \in Keys \ {call[h].key, of} : ledger'[k] = ledger[k]
        BY <1>1, <3>3, <4>1 DEF IInv, TypeOK
      <4>3. [ledger[of] EXCEPT !.status = "REVERSED"] \in Transactions
        BY <3>5 DEF Transactions
      <4> QED
        BY <3>4, <3>5, <4>1, <4>2, <4>3, NoTxAssumption DEF Transactions, Kept
    <3> QED
      BY <2>1, <3>6
  <2> QED
    BY <1>1, <2>1, <2>2, <2>3, <2>4 DEF Next, vars, EnsureWallet, PostBegin, AnswerFromLedger, Answer,
       ReverseCheck, ReverseBegin, Abort
<1> QED BY <1>1

-----------------------------------------------------------------------------
(* Posts alone: every user's balance is the sum of the user's entries.       *)

NoReversal == \A k \in Keys : ~Reversed(k)

LEMMA PostsKeep ==
    ASSUME IInv, Next, PostsKeepUserExact PROVE PostsKeepUserExact'
<1>0. TypeOK /\ TypeOK'
  BY StepHolds DEF IInv
<1> SUFFICES ASSUME NoReversal', NEW u \in Users PROVE (balance[u] = DerivedBalance(u))'
  BY DEF PostsKeepUserExact, UserProjectionExact, NoReversal
<1>1. NoReversal
  BY RowsKept DEF NoReversal, Reversed, Kept
<1>2. balance[u] = DerivedBalance(u)
  BY <1>1 DEF PostsKeepUserExact, UserProjectionExact, NoReversal
<1>3. CASE UNCHANGED <<ledger, balance>>
  BY <1>2, <1>3, DerivedSame
<1>4. CASE ~UNCHANGED <<ledger, balance>>
  <2>1. PICK key \in Keys, r \in Requests, system \in SystemAccounts, seen \in Int :
          \/ Books(key, r, system, seen)
          \/ \E h \in Handlers :
               /\ pc[h] = "reverse" /\ r = call[h].request
               /\ ledger'[key] = [request |-> r, system |-> system, status |-> "POSTED"]
    BY <1>4, WhoBooks DEF BooksBy
  <2>2. CASE Books(key, r, system, seen)
    BY <1>0, <1>2, <2>2, BooksAreExact DEF Accounts
  <2>3. ASSUME NEW h \in Handlers, pc[h] = "reverse", r = call[h].request,
               ledger'[key] = [request |-> r, system |-> system, status |-> "POSTED"]
        PROVE  FALSE
    <3>1. r.of \in Keys
      BY <2>3, RequestParts, KindsOfRequests DEF IInv, InFlight
    <3>2. [request |-> r, system |-> system, status |-> "POSTED"] # NoTx
      BY NoTxAssumption DEF Transactions
    <3> QED BY <2>3, <3>1, <3>2 DEF NoReversal, Reversed
  <2> QED BY <2>1, <2>2, <2>3
<1> QED BY <1>3, <1>4

-----------------------------------------------------------------------------
(* Only a reversal overdraws the escrow of a match.                          *)

\* What a reversal that is stored writes: a row of its own, and the mark on the
\* original, whose accounts stay.
LEMMA ReversalWrites ==
    ASSUME IInv, NEW h \in Handlers, ReverseCommit(h), ledger' # ledger \/ balance' # balance
    PROVE  \E key \in Keys, r \in Reversals :
             LET system == ledger[r.of].system
             IN /\ ledger[key] = NoTx /\ ledger[r.of] # NoTx
                /\ ledger'[key] = [request |-> r, system |-> system, status |-> "POSTED"]
                /\ ledger'[r.of] = [ledger[r.of] EXCEPT !.status = "REVERSED"]
                /\ \A k \in Keys \ {key, r.of} : ledger'[k] = ledger[k]
                /\ \E x, y : balance' = [balance EXCEPT ![r.user] = x, ![system] = y]
<1>1. PICK c \in Calls : c = call[h]
  BY DEF ReverseCommit, IInv, TypeOK, Running
<1>2. PICK r : r = c.request
  OBVIOUS
<1>3. PICK system : system = ledger[r.of].system
  OBVIOUS
<1>4. PICK row : row = [request |-> r, system |-> system, status |-> "POSTED"]
  OBVIOUS
<1>5. /\ ledger[c.key] = NoTx /\ pc[h] = "reverse"
      /\ ledger' = [ledger EXCEPT ![c.key] = row, ![r.of].status = "REVERSED"]
      /\ \E x, y : balance' = [balance EXCEPT ![r.user] = x, ![system] = y]
  BY <1>1, <1>2, <1>3, <1>4 DEF ReverseCommit, KeyFree, Answer
<1>6. c.key \in Keys /\ r \in Reversals /\ r.of \in Keys /\ ledger[r.of] # NoTx
  BY <1>1, <1>2, <1>5, RequestParts, KindsOfRequests DEF IInv, InFlight, Calls
<1>7. /\ ledger'[c.key] = row
      /\ ledger'[r.of] = [ledger[r.of] EXCEPT !.status = "REVERSED"]
      /\ \A k \in Keys \ {c.key, r.of} : ledger'[k] = ledger[k]
  BY <1>5, <1>6 DEF IInv, TypeOK
<1>8. PICK x, y : balance' = [balance EXCEPT ![r.user] = x, ![ledger[r.of].system] = y]
  BY <1>3, <1>5
<1>9. ledger'[c.key] = [request |-> r, system |-> ledger[r.of].system, status |-> "POSTED"]
  BY <1>3, <1>4, <1>7
<1>10. c.key \in Keys /\ r \in Reversals
  BY <1>6
<1> USE <1>10
<1> WITNESS c.key \in Keys, r \in Reversals
<1> QED BY <1>5, <1>6, <1>7, <1>8, <1>9

LEMMA SystemsKept ==
    ASSUME IInv, Next, NEW k \in Keys, ledger[k] # NoTx
    PROVE  ledger'[k].system = ledger[k].system
<1>1. CASE ledger' = ledger
  BY <1>1
<1>2. ASSUME NEW h \in Handlers, PostCommit(h) PROVE ledger'[k] = ledger[k]
  BY <1>2 DEF PostCommit, KeyFree, Answer, IInv, TypeOK
<1>3. ASSUME NEW key \in Keys, NEW move \in EntryMoves, EntryMoved(key, move)
      PROVE  ledger'[k] = ledger[k]
  BY <1>3 DEF EntryMoved, KeyFree, IInv, TypeOK
<1>4. ASSUME NEW h \in Handlers, ReverseCommit(h), ledger' # ledger
      PROVE  ledger'[k].system = ledger[k].system
  <2>1. ledger[k] \in Transactions
    BY DEF IInv, TypeOK
  <2>2. \/ ledger'[k] = [ledger[k] EXCEPT !.status = "REVERSED"]
        \/ ledger'[k] = ledger[k]
    BY <1>4, ReversalWrites
  <2> QED BY <2>1, <2>2 DEF Transactions
<1> QED
  BY <1>1, <1>2, <1>3, <1>4 DEF Next, EnsureWallet, PostBegin, AnswerFromLedger, Answer,
     ReverseCheck, ReverseBegin, Abort

\* A row that has the escrow on its other side keeps it there.
LEMMA EscrowReversedStays == ASSUME IInv, Next, EscrowReversed PROVE EscrowReversed'
<1>1. PICK k \in Keys, other \in Keys :
        ledger[other] # NoTx /\ ledger[other].request.of = k /\ ledger[k].system = "ESCROW"
  BY DEF EscrowReversed, Reversed
<1>2. ledger'[other] # NoTx /\ ledger'[other].request.of = k
  BY <1>1, RowsKept DEF Kept
<1>3. ledger'[k].system = "ESCROW"
  <2>1. ledger[other].request \in Requests
    BY <1>1 DEF IInv, TypeOK, Transactions
  <2>2. ledger[other].request \in Reversals
    BY <1>1, <2>1, RequestParts, KindsOfRequests, KeysAssumption
  <2>3. ledger[k] # NoTx
    BY <1>1, <2>2, RequestParts, KindsOfRequests DEF IInv, ReversedOnce
  <2> QED BY <1>1, <2>3, SystemsKept
<1> QED BY <1>2, <1>3 DEF EscrowReversed, Reversed

LEMMA EscrowStays ==
    ASSUME IInv, Next, EscrowCoveredUnlessReversed PROVE EscrowCoveredUnlessReversed'
<1> SUFFICES ASSUME ~EscrowReversed' PROVE balance'["ESCROW"] >= 0
  BY DEF EscrowCoveredUnlessReversed, EscrowNeverNegative
<1>1. balance["ESCROW"] >= 0
  BY EscrowReversedStays DEF EscrowCoveredUnlessReversed, EscrowNeverNegative
<1>0. /\ TypeOK /\ "ESCROW" \in Accounts /\ "ESCROW" \notin Users
      /\ balance["ESCROW"] \in Int /\ balance \in [Accounts -> Int]
  BY UserIsNotSystem DEF IInv, TypeOK, Accounts, SystemAccounts
<1>2. CASE UNCHANGED balance
  BY <1>1, <1>2
<1>3. ASSUME NEW h \in Handlers, PostCommit(h), balance' # balance PROVE balance'["ESCROW"] >= 0
  <2>1. pc[h] = "post" /\ call[h].request \in PostRequests
    BY <1>3 DEF PostCommit, IInv, InFlight
  <2> DEFINE r == call[h].request
  <2>2. SystemOf(r) # "ESCROW" /\ r.user # "ESCROW"
    BY <1>0, <2>1 DEF SystemOf, PostRequests
  <2>3. \E x, y : balance' = [balance EXCEPT ![r.user] = x, ![SystemOf(r)] = y]
    BY <1>3 DEF PostCommit, Answer
  <2> QED BY <1>0, <1>1, <2>2, <2>3
<1>4. ASSUME NEW h \in Handlers, ReverseCommit(h), balance' # balance PROVE balance'["ESCROW"] >= 0
  <2>1. PICK key \in Keys, r \in Reversals :
          /\ ledger[key] = NoTx /\ ledger[r.of] # NoTx
          /\ ledger'[key] = [request |-> r, system |-> ledger[r.of].system, status |-> "POSTED"]
          /\ \E x, y : balance' = [balance EXCEPT ![r.user] = x, ![ledger[r.of].system] = y]
    BY <1>4, ReversalWrites
  <2>3. r \in Requests /\ r.of \in Keys /\ r.user # "ESCROW" /\ ledger[r.of].system \in SystemAccounts
    BY <1>0, <2>1, RequestParts, KindsOfRequests DEF TypeOK, Transactions
  <2>4. Reversed(r.of)'
    <3>1. ledger'[key] # NoTx /\ ledger'[key].request.of = r.of
      BY <2>1, <2>3, NoTxAssumption DEF Transactions
    <3> QED BY <3>1 DEF Reversed
  <2>5. ledger'[r.of].system # "ESCROW"
    BY <2>3, <2>4 DEF EscrowReversed
  <2>6. ledger[r.of].system # "ESCROW"
    BY <2>1, <2>3, <2>5, SystemsKept
  <2> QED BY <1>0, <1>1, <2>1, <2>3, <2>6
<1>5. ASSUME NEW key \in Keys, NEW move \in EntryMoves, EntryMoved(key, move)
      PROVE  balance'["ESCROW"] >= 0
  <2>1. move \in Requests /\ move.user \in Users /\ move.amount \in Nat
    BY RequestParts, KindsOfRequests, AmountsAssumption
  <2>2. balance'["ESCROW"] = NextBalance(balance["ESCROW"], Opposite(move.direction), move.amount)
    BY <1>0, <1>5, <2>1 DEF EntryMoved
  <2>3. CASE move.op = "MATCH_ENTRY_RESERVATION"
    BY <1>0, <1>1, <2>1, <2>2, <2>3 DEF EntryMoves, Opposite, NextBalance
  <2>4. CASE move.op # "MATCH_ENTRY_RESERVATION"
    <3>1. balance["ESCROW"] >= move.amount
      <4>1. Covered(move)
        BY <1>5 DEF EntryMoved
      <4>2. CASE move.op = "MATCH_ENTRY_REFUND"
        BY <4>1, <4>2 DEF Covered
      <4>3. CASE move.op = "MATCH_WINNER_SETTLEMENT"
        <5>1. balance["ESCROW"] = move.amount
          BY <4>1, <4>3 DEF Covered
        <5> QED BY <2>1, <5>1
      <4> QED BY <2>4, <4>2, <4>3 DEF EntryMoves
    <3> QED BY <1>0, <2>1, <2>2, <2>4, <3>1 DEF EntryMoves, Opposite, NextBalance
  <2> QED BY <2>3, <2>4
<1> QED
  BY <1>2, <1>3, <1>4, <1>5 DEF Next, EnsureWallet, PostBegin, AnswerFromLedger, Answer,
     ReverseCheck, ReverseBegin, Abort

-----------------------------------------------------------------------------
(* Every transaction, as long as none commits over the reads of another.    *)

\* What the transaction of a handler has read is still so.
ReadHolds(h) ==
    InTransaction(h) =>
        /\ ledger[call[h].key] = NoTx
        /\ balance[call[h].request.user] = call[h].userSeen
        /\ pc[h] = "post" => balance[SystemOf(call[h].request)] = call[h].systemSeen
        /\ pc[h] = "reverse" =>
             balance[ledger[call[h].request.of].system] = call[h].systemSeen

\* A handler whose transaction has its reads after a step has them from before
\* it, or has just read.
LEMMA WhoReads ==
    ASSUME IInv, Next, NEW h \in Handlers, InTransaction(h)'
    PROVE  \/ pc'[h] = pc[h] /\ call'[h] = call[h]
           \/ UNCHANGED <<balance, ledger>> /\ ReadHolds(h)'
<1> DEFINE Stands == pc'[h] = pc[h] /\ call'[h] = call[h]
<1> USE DEF InTransaction
<1>0. pc \in [Handlers -> {"idle"} \cup Running \cup Outcomes] /\ DOMAIN call = Handlers
  BY DEF IInv, TypeOK
<1>1. ASSUME NEW g \in Handlers, NEW key \in Keys, NEW request \in PostRequests,
             PostBegin(g, key, request)
      PROVE  Stands \/ (UNCHANGED <<balance, ledger>> /\ ReadHolds(h)')
  <2>1. CASE g # h
    BY <1>0, <1>1, <2>1 DEF PostBegin, AnswerFromLedger, Answer
  <2>2. CASE g = h
    <3>1. UNCHANGED <<balance, ledger>> /\ pc'[h] = "post" /\ ledger[key] = NoTx
      BY <1>0, <1>1, <2>2 DEF PostBegin, AnswerFromLedger, Answer
    <3>2. call'[h] = Reads(key, request, SystemOf(request),
                           {request.user, SystemOf(request)} \ opened)
      BY <1>0, <1>1, <2>2 DEF PostBegin
    <3>3. /\ call'[h].key = key /\ call'[h].request = request
          /\ call'[h].userSeen = balance[request.user]
          /\ call'[h].systemSeen = balance[SystemOf(request)]
      BY <3>2 DEF Reads
    <3>4. SystemOf(call'[h].request) = SystemOf(request)
      BY <3>3
    <3> QED BY <3>1, <3>3, <3>4 DEF ReadHolds, SystemOf
  <2> QED BY <2>1, <2>2
<1>2. ASSUME NEW g \in Handlers, ReverseBegin(g)
      PROVE  Stands \/ (UNCHANGED <<balance, ledger>> /\ ReadHolds(h)')
  <2>1. CASE g # h
    BY <1>0, <1>2, <2>1 DEF ReverseBegin, AnswerFromLedger, Answer
  <2>2. CASE g = h
    <3>0. PICK d : d = call[h]
      OBVIOUS
    <3>1. UNCHANGED <<balance, ledger>> /\ pc'[h] = "reverse" /\ ledger[d.key] = NoTx
      BY <1>0, <1>2, <2>2, <3>0 DEF ReverseBegin, AnswerFromLedger, Answer
    <3>2. call'[h] = Reads(d.key, d.request, ledger[d.request.of].system, {})
      BY <1>0, <1>2, <2>2, <3>0 DEF ReverseBegin
    <3>3. /\ call'[h].key = d.key /\ call'[h].request = d.request
          /\ call'[h].userSeen = balance[d.request.user]
          /\ call'[h].systemSeen = balance[ledger[d.request.of].system]
      BY <3>2 DEF Reads
    <3> QED BY <3>1, <3>3 DEF ReadHolds
  <2> QED BY <2>1, <2>2
<1>3. ASSUME NEW g \in Handlers, PostCommit(g) \/ ReverseCommit(g) \/ Abort(g) PROVE Stands
  BY <1>0, <1>3 DEF PostCommit, ReverseCommit, Abort, Answer
<1>4. ASSUME NEW g \in Handlers, NEW key \in ReversalKeys, NEW original \in Keys,
             ReverseCheck(g, key, original)
      PROVE  Stands
  BY <1>0, <1>4 DEF ReverseCheck, Answer
<1>5. ASSUME NEW user \in Users, EnsureWallet(user) PROVE Stands
  BY <1>5 DEF EnsureWallet
<1>6. ASSUME NEW key \in Keys, NEW move \in EntryMoves, EntryMoved(key, move) PROVE Stands
  BY <1>6 DEF EntryMoved
<1> QED BY <1>1, <1>2, <1>3, <1>4, <1>5, <1>6 DEF Next

ReadsHold == \A h \in Handlers : ReadHolds(h)
Exact == UserProjectionExact /\ SystemProjectionExact

LEMMA ReadsStay ==
    ASSUME IInv, MCNext, ~crossed', ReadsHold PROVE ReadsHold'
<1>1. Next
  BY DEF MCNext
<1> SUFFICES ASSUME NEW h \in Handlers, InTransaction(h)' PROVE ReadHolds(h)'
  BY DEF ReadsHold, ReadHolds
<1>2. CASE UNCHANGED <<balance, ledger>> /\ ReadHolds(h)'
  BY <1>2
<1>3. CASE pc'[h] = pc[h] /\ call'[h] = call[h]
  <2>1. InTransaction(h)
    BY <1>3 DEF InTransaction
  <2>2. ledger' = ledger
    BY <1>3, <2>1 DEF MCNext
  <2>3. balance' = balance
    BY <1>1, <2>2, WhoBooks
  <2>4. ReadHolds(h)
    BY DEF ReadsHold
  <2> QED BY <1>3, <2>1, <2>2, <2>3, <2>4 DEF ReadHolds, SystemOf
<1> QED BY <1>1, <1>2, <1>3, WhoReads

\* While the reads hold, a step that touches the books starts from the balances.
LEMMA BooksReadFreshly ==
    ASSUME IInv, Next, ReadsHold, ~UNCHANGED <<ledger, balance>>
    PROVE  \E key \in Keys, r \in Requests, system \in SystemAccounts :
             Books(key, r, system, balance[system])
<1>1. PICK key \in Keys, r \in Requests, system \in SystemAccounts, seen \in Int :
        BooksBy(key, r, system, seen)
  BY WhoBooks
<1>2. ASSUME NEW h \in Handlers, pc[h] \in {"post", "reverse"}
      PROVE  /\ balance[call[h].request.user] = call[h].userSeen
             /\ pc[h] = "post" => balance[SystemOf(call[h].request)] = call[h].systemSeen
             /\ pc[h] = "reverse" =>
                  balance[ledger[call[h].request.of].system] = call[h].systemSeen
  BY <1>2 DEF ReadsHold, ReadHolds, InTransaction
<1>3. seen = balance[system] /\ Books(key, r, system, seen)
  BY <1>1, <1>2 DEF BooksBy
<1> QED BY <1>1, <1>3

LEMMA ExactStays ==
    ASSUME IInv, Next, ReadsHold, Exact PROVE Exact'
<1>0. TypeOK /\ TypeOK'
  BY StepHolds DEF IInv
<1> SUFFICES ASSUME NEW account \in Accounts PROVE (balance[account] = DerivedBalance(account))'
  BY DEF Exact, UserProjectionExact, SystemProjectionExact, Accounts
<1>1. balance[account] = DerivedBalance(account)
  BY DEF Exact, UserProjectionExact, SystemProjectionExact, Accounts
<1>2. CASE UNCHANGED <<ledger, balance>>
  BY <1>1, <1>2, DerivedSame
<1>3. CASE ~UNCHANGED <<ledger, balance>>
  <2>1. PICK key \in Keys, r \in Requests, system \in SystemAccounts :
          Books(key, r, system, balance[system])
    BY <1>3, BooksReadFreshly
  <2>2. balance[system] \in Int
    BY <1>0 DEF TypeOK, Accounts
  <2> QED BY <1>0, <1>1, <2>1, <2>2, BooksAreExact
<1> QED BY <1>2, <1>3

\* Until then what a transaction adds to one balance it takes from another.
LEMMA AccountsFinite == IsFiniteSet(Accounts)
<1>1. IsFiniteSet(SystemAccounts)
  <2>1. IsFiniteSet({"ISSUANCE"} \cup {"ADJUSTMENT"} \cup {"ESCROW"})
    BY FS_Singleton, FS_Union
  <2> QED BY <2>1 DEF SystemAccounts
<1> QED BY <1>1, UsersAssumption, FS_Union DEF Accounts

LEMMA CancelStays ==
    ASSUME IInv, Next, ReadsHold, SumFunction(balance) = 0
    PROVE  SumFunction(balance') = 0
<1>0. balance \in [Accounts -> Int] /\ balance' \in [Accounts -> Int]
  BY StepHolds DEF IInv, TypeOK
<1>1. CASE UNCHANGED <<ledger, balance>>
  BY <1>1
<1>2. CASE ~UNCHANGED <<ledger, balance>>
  <2>1. PICK key \in Keys, r \in Requests, system \in SystemAccounts :
          Books(key, r, system, balance[system])
    BY <1>2, BooksReadFreshly
  <2> DEFINE user == r.user
             half == [balance EXCEPT ![user] = NextBalance(balance[user], r.direction, r.amount)]
  <2>2. user \in Accounts /\ system \in Accounts /\ user # system /\ r.amount \in Nat
    BY RequestParts, UserIsNotSystem, AmountsAssumption DEF Accounts
  <2>3. /\ half \in [Accounts -> Int]
        /\ half[user] = NextBalance(balance[user], r.direction, r.amount)
        /\ \A a \in Accounts \ {user} : half[a] = balance[a]
    BY <1>0, <2>2, RequestParts, NextBalanceInt
  <2>4. /\ balance'[user] = half[user]
        /\ balance'[system] = NextBalance(balance[system], Opposite(r.direction), r.amount)
        /\ \A a \in Accounts \ {user, system} : balance'[a] = balance[a]
    BY <1>0, <2>1, <2>2, <2>3 DEF Books
  <2>5. \A a \in Accounts \ {system} : balance'[a] = half[a]
    BY <2>3, <2>4
  <2>6. half[system] = balance[system]
    BY <2>2, <2>3
  <2> HIDE DEF half
  <2>7. SumFunction(half) = SumFunction(balance) + half[user] - balance[user]
    BY <1>0, <2>2, <2>3, AccountsFinite, SumChanges
  <2>8. SumFunction(balance') = SumFunction(half) + balance'[system] - half[system]
    BY <1>0, <2>2, <2>3, <2>5, AccountsFinite, SumChanges
  <2>9. balance[user] \in Int /\ balance[system] \in Int
    BY <1>0, <2>2
  <2>10. half[user] - balance[user] = 0 - (balance'[system] - balance[system])
    BY <2>2, <2>3, <2>4, <2>9 DEF NextBalance, Opposite
  <2>11. half[user] \in Int /\ balance'[system] \in Int
    BY <1>0, <2>2, <2>3
  <2> QED BY <2>6, <2>7, <2>8, <2>9, <2>10, <2>11
<1> QED BY <1>1, <1>2

CancelOut == SumFunction(balance) = 0

\* The inductive invariant of the specification with the history variable.
MCInv ==
    /\ IInv
    /\ PostsKeepUserExact
    /\ ~crossed => ReadsHold /\ Exact /\ CancelOut

LEMMA MCInitInv == MCInit => MCInv
<1> SUFFICES ASSUME MCInit PROVE MCInv
  OBVIOUS
<1>1. IInv /\ ReadsHold
  BY InitHolds DEF MCInit, Init, ReadsHold, ReadHolds, InTransaction
<1>2. ASSUME NEW account \in Accounts PROVE balance[account] = DerivedBalance(account)
  <2> DEFINE e == [key \in Keys |-> EntryAmount(key, account)]
  <2>1. \A key \in Keys : EntryAmount(key, account) = 0
    BY DEF MCInit, Init, EntryAmount
  <2>2. e \in [Keys -> {0}]
    BY <2>1
  <2>3. DerivedBalance(account) = SumFunction(e)
    BY DEF DerivedBalance
  <2> HIDE DEF e
  <2>4. SumFunction(e) = 0
    BY <2>2, SumOfZeros, KeysAssumption
  <2> QED BY <2>3, <2>4 DEF MCInit, Init
<1>3. CancelOut
  <2>1. balance \in [Accounts -> {0}]
    BY DEF MCInit, Init
  <2> QED BY <2>1, AccountsFinite, SumOfZeros DEF CancelOut
<1> QED
  BY <1>1, <1>2, <1>3 DEF MCInv, PostsKeepUserExact, Exact, UserProjectionExact, SystemProjectionExact,
     Accounts

LEMMA MCKeeps == MCInv /\ [MCNext]_<<vars, crossed>> => MCInv'
<1>1. ASSUME MCInv, MCNext PROVE MCInv'
  <2>1. IInv' /\ PostsKeepUserExact'
    BY <1>1, StepHolds, PostsKeep DEF MCInv, MCNext
  <2>2. ~crossed' => ~crossed
    BY <1>1 DEF MCNext
  <2>3. ~crossed' => ReadsHold' /\ Exact' /\ CancelOut'
    BY <1>1, <2>2, ReadsStay, ExactStays, CancelStays DEF MCInv, MCNext, CancelOut
  <2> QED BY <2>1, <2>3 DEF MCInv
<1>2. ASSUME MCInv, UNCHANGED <<vars, crossed>> PROVE MCInv'
  <2>1. IInv'
    BY <1>2, StepHolds DEF MCInv
  <2>2. \A account : DerivedBalance(account)' = DerivedBalance(account)
    BY <1>2, DerivedSame DEF vars
  <2>3. UserProjectionExact' <=> UserProjectionExact
    BY <1>2, <2>2 DEF vars, UserProjectionExact
  <2>4. SystemProjectionExact' <=> SystemProjectionExact
    BY <1>2, <2>2 DEF vars, SystemProjectionExact
  <2>5. ReadsHold' <=> ReadsHold
    BY <1>2 DEF vars, ReadsHold, ReadHolds, InTransaction, SystemOf
  <2>6. NoReversal' <=> NoReversal
    BY <1>2 DEF vars, NoReversal, Reversed
  <2>7. CancelOut' <=> CancelOut
    BY <1>2 DEF vars, CancelOut
  <2> QED BY <1>2, <2>1, <2>3, <2>4, <2>5, <2>6, <2>7 DEF MCInv, PostsKeepUserExact, NoReversal, Exact
<1> QED BY <1>1, <1>2

\* Types: every reachable state has well-typed rows, handlers and calls.
THEOREM TypeCorrect == Spec => []TypeOK
<1>1. IInv => TypeOK
  BY DEF IInv
<1> QED
  BY <1>1, InitHolds, StepHolds, PTL DEF Spec

\* No user balance is ever negative, for any number of racing posts and
\* reversals.
THEOREM NeverNegative == Spec => []UserNeverNegative
<1>1. IInv => UserNeverNegative
  BY DEF IInv
<1> QED
  BY <1>1, InitHolds, StepHolds, PTL DEF Spec

\* However many reversals of a transaction race, under whatever keys, at most
\* one is stored, and REVERSED marks exactly the transactions that have one.
THEOREM AtMostOneReversal == Spec => []ReversedOnce
<1>1. IInv => ReversedOnce
  BY DEF IInv
<1> QED
  BY <1>1, InitHolds, StepHolds, PTL DEF Spec

\* The escrow of a match is overdrawn by nothing but the reversal of an entry of
\* a match, however posts, reversals and entries interleave.
THEOREM EscrowIsCovered == Spec => []EscrowCoveredUnlessReversed
<1>1. Init => EscrowCoveredUnlessReversed
  BY DEF Init, EscrowCoveredUnlessReversed, EscrowNeverNegative, Accounts, SystemAccounts
<1>2. IInv /\ EscrowCoveredUnlessReversed /\ [Next]_vars => EscrowCoveredUnlessReversed'
  <2>1. CASE Next
    BY <2>1, EscrowStays
  <2>2. CASE UNCHANGED vars
    BY <2>2 DEF vars, EscrowCoveredUnlessReversed, EscrowReversed, Reversed, EscrowNeverNegative
  <2> QED BY <2>1, <2>2
<1> QED
  BY <1>1, <1>2, InitHolds, StepHolds, PTL DEF Spec

\* A handler that answers with a transaction answers with the caller's own.
THEOREM AnswersAreTruthful == Spec => []AnswerTruthful
<1>1. IInv => AnswerTruthful
  BY DEF IInv
<1> QED
  BY <1>1, InitHolds, StepHolds, PTL DEF Spec

\* The ledger only grows; a stored transaction changes only from POSTED to
\* REVERSED, once.
THEOREM HistoryNeverEdited == Spec => AppendOnly
<1> DEFINE Edits == \A k \in Keys : ledger[k] # NoTx =>
                      /\ ledger'[k].request = ledger[k].request
                      /\ ledger[k].status = "REVERSED" => ledger'[k] = ledger[k]
<1>1. IInv /\ [Next]_vars => [Edits]_vars
  BY RowsKept DEF Kept
<1> QED
  BY <1>1, InitHolds, StepHolds, PTL DEF Spec, AppendOnly

\* However posts and the entries of matches interleave, over any accounts and
\* keys, the balance of a user is the sum of the user's entries, until a
\* reversal is stored.
THEOREM PostsNeverDrift == MCSpec => []PostsKeepUserExact
<1>1. MCInv => PostsKeepUserExact
  BY DEF MCInv
<1> QED BY <1>1, MCInitInv, MCKeeps, PTL DEF MCSpec

\* Every balance, of users and of the system, reversals included, is the sum of
\* its entries as long as no transaction has committed over the reads of another.
THEOREM BalancesAreSums == MCSpec => []ExactUnlessCrossed
<1>1. MCInv => ExactUnlessCrossed
  BY DEF MCInv, ExactUnlessCrossed, Exact
<1> QED BY <1>1, MCInitInv, MCKeeps, PTL DEF MCSpec

\* Until then the balances also cancel out: no point is made or lost.
THEOREM BalancesCancelOut == MCSpec => []CancelOutUnlessCrossed
<1>1. MCInv => CancelOutUnlessCrossed
  BY DEF MCInv, CancelOutUnlessCrossed, CancelOut
<1> QED BY <1>1, MCInitInv, MCKeeps, PTL DEF MCSpec

\* Until then the retry of a stored request is answered with what is stored;
\* only a reversal may be refused instead, its original being REVERSED.
THEOREM RetriesAreAnswered == MCSpec => RetryAnsweredUnlessCrossed
<1> DEFINE Expected(h) == \/ pc'[h] = "REPLAYED"
                          \/ call'[h].request.op = "REVERSAL" /\ pc'[h] = "NOT_REVERSIBLE"
           AnsweredRetry == ~crossed => \A h \in Handlers : Answered(h) /\ IsRetry(h) => Expected(h)
<1>1. ASSUME MCInv, MCNext, ~crossed, NEW h \in Handlers, Answered(h), IsRetry(h)
      PROVE  Expected(h)
  <2>0. /\ pc \in [Handlers -> {"idle"} \cup Running \cup Outcomes] /\ DOMAIN call = Handlers
        /\ ReadHolds(h)
        /\ <<pc[h], call[h]>> # <<pc'[h], call'[h]>>
        /\ pc'[h] \notin Running \cup {"FAILED"}
        /\ call'[h] # NoCall /\ ledger[call'[h].key] # NoTx
        /\ ledger[call'[h].key].request = call'[h].request
    BY <1>1 DEF MCInv, IInv, TypeOK, ReadsHold, Answered, IsRetry, Running, Outcomes
  <2>1. CASE \E g \in Handlers, key \in Keys, request \in PostRequests : PostBegin(g, key, request)
    <3>1. PICK g \in Handlers, key \in Keys, request \in PostRequests : PostBegin(g, key, request)
      BY <2>1
    <3>2. g = h
      BY <2>0, <3>1 DEF PostBegin, AnswerFromLedger, Answer
    <3>3. call'[h].key = key /\ call'[h].request = request
      BY <2>0, <3>1, <3>2 DEF PostBegin, Reads
    <3>4. SameRequest(key, request) /\ AnswerFromLedger(h, key, request)
      BY <2>0, <3>1, <3>2, <3>3 DEF PostBegin, SameRequest
    <3> QED BY <2>0, <3>4 DEF AnswerFromLedger, Answer
  <2>2. CASE \E g \in Handlers : ReverseBegin(g)
    <3>1. PICK g \in Handlers : ReverseBegin(g)
      BY <2>2
    <3>2. g = h
      BY <2>0, <3>1 DEF ReverseBegin, AnswerFromLedger, Answer
    <3>3. call'[h].key = call[h].key /\ call'[h].request = call[h].request
      BY <2>0, <3>1, <3>2 DEF ReverseBegin, Reads
    <3>4. SameRequest(call[h].key, call[h].request) /\ AnswerFromLedger(h, call[h].key, call[h].request)
      BY <2>0, <3>1, <3>2, <3>3 DEF ReverseBegin, SameRequest
    <3> QED BY <2>0, <3>4 DEF AnswerFromLedger, Answer
  <2>3. ASSUME NEW g \in Handlers, NEW key \in ReversalKeys, NEW original \in Keys,
               ReverseCheck(g, key, original)
        PROVE  Expected(h)
    <3>1. g = h
      BY <2>0, <2>3 DEF ReverseCheck, Answer
    <3>2. call'[h] = Reads(key, ReversalOf(original), ledger[original].system, {})
      BY <2>0, <2>3, <3>1 DEF ReverseCheck
    <3>3. call'[h].request.op = "REVERSAL"
      BY <3>2 DEF Reads, ReversalOf
    <3>4. pc'[h] = "NOT_REVERSIBLE"
      BY <2>0, <2>3, <3>1 DEF ReverseCheck, Answer, Running
    <3> QED BY <3>3, <3>4
  <2>4. ASSUME NEW g \in Handlers, PostCommit(g) \/ ReverseCommit(g) PROVE FALSE
    <3>1. g = h /\ InTransaction(h) /\ call'[h] = call[h]
      BY <2>0, <2>4 DEF PostCommit, ReverseCommit, Answer, InTransaction
    <3> QED BY <1>1, <2>0, <3>1 DEF ReadHolds
  <2>5. ASSUME NEW g \in Handlers, Abort(g) PROVE FALSE
    BY <2>0, <2>5 DEF Abort, Answer
  <2>6. ASSUME \/ \E user \in Users : EnsureWallet(user)
               \/ \E key \in Keys, move \in EntryMoves : EntryMoved(key, move)
        PROVE  FALSE
    BY <2>0, <2>6 DEF EnsureWallet, EntryMoved
  <2> QED BY <1>1, <2>1, <2>2, <2>3, <2>4, <2>5, <2>6 DEF MCNext, Next
<1>2. MCInv /\ [MCNext]_<<vars, crossed>> => [AnsweredRetry]_<<vars, crossed>>
  BY <1>1
<1> QED BY <1>2, MCInitInv, MCKeeps, PTL DEF MCSpec, RetryAnsweredUnlessCrossed
=============================================================================
