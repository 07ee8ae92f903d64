--------------------------- MODULE MCWalletLedger ---------------------------
(* Instances of WalletLedger for TLC, with a history variable that tells the *)
(* executions in which no transaction commits over the reads of another.     *)
EXTENDS WalletLedger, TLC

VARIABLE crossed  \* a transaction has committed while another one held its reads

InTransaction(h) == pc[h] \in {"post", "reverse"}

MCInit == Init /\ crossed = FALSE

MCNext ==
    /\ Next
    /\ crossed' = (crossed \/ /\ ledger' # ledger
                              /\ \E h \in Handlers : InTransaction(h) /\ pc'[h] = pc[h])

MCSpec == MCInit /\ [][MCNext]_<<vars, crossed>>

\* "An atomic projection while entries remain the source of truth": as long
\* as no transaction commits between the reads and the commit of another,
\* every balance, user or system, reversals included, is the sum of the
\* entries of its account.
ExactUnlessCrossed == ~crossed => UserProjectionExact /\ SystemProjectionExact

\* Double entry: so long the balances cancel out, and what the users can spend is
\* what the counter-accounts have given.
CancelOutUnlessCrossed == ~crossed => SumFunction(balance) = 0

\* "Exact idempotent retries return the original transaction" (README of the
\* wallet, lines 16-17) is kept for posts and not for reversals: unless two
\* transactions have crossed, whoever sends again the request that is stored
\* under a key gets the stored transaction, or, of a reversal, the refusal
\* NOT_REVERSIBLE, since its original is looked at before its key and is
\* REVERSED by then; the retry gets no other answer, of any handler.
Answered(h) ==
    <<pc[h], call[h]>> # <<pc'[h], call'[h]>> /\ pc'[h] \in Outcomes \ {"FAILED"}

IsRetry(h) ==
    /\ call'[h] # NoCall /\ ledger[call'[h].key] # NoTx
    /\ ledger[call'[h].key].request = call'[h].request

RetryAnsweredUnlessCrossed ==
    [][~crossed => \A h \in Handlers : Answered(h) /\ IsRetry(h) =>
         \/ pc'[h] = "REPLAYED"
         \/ call'[h].request.op = "REVERSAL" /\ pc'[h] = "NOT_REVERSIBLE"]_<<vars, crossed>>

\* Keys are interchangeable when every key, or none, may carry a reversal.
Interchangeable ==
    Permutations(Users) \cup Permutations(Keys) \cup Permutations(Handlers)
=============================================================================
