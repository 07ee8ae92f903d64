--------------------------- MODULE MCMatchFinance ---------------------------
(* Instances of MatchFinance for TLC, with a history variable that tells     *)
(* three kinds of execution apart in which the code promises less.           *)
EXTENDS MatchFinance, TLC

VARIABLE past
    \* "recovered": a refund of a match that had not ended has begun
    \* "contested": a dispute was opened between the reads and the writes of a settlement
    \* "released": an administrator has released the entries of a match

MCInit == Init /\ past = {}

Begun(step) == \E h \in Handlers : pc[h] # step /\ pc'[h] = step

Remembered ==
    {event \in {"recovered", "contested", "released"} :
       CASE event = "recovered" -> Begun("refund") /\ status \notin Ended
         [] event = "contested" -> ~disputed /\ disputed' /\ \E h \in Handlers : pc[h] = "settle"
         [] event = "released" -> reservation' # reservation /\ handlers' = handlers}

MCNext == Next /\ past' = past \cup Remembered

MCSpec == MCInit /\ [][MCNext]_<<vars, past>>

\* Nobody plays for an entry that is not in escrow: as long as administrators
\* refund only matches that have ended, every entry of a READY or running
\* match is held, although it was asserted in transactions of their own.
PaidUnlessRecovered ==
    "recovered" \notin past /\ status \in {"READY", "IN_PROGRESS"} =>
        \A p \in Participants : Held(p)

\* "Active disputes block settlement": a settlement is written over an active
\* dispute only if the dispute was opened while the settlement was running.
DisputeBlocksUnlessContested ==
    [][settlement' # settlement /\ "contested" \notin past => ~disputed]_<<vars, past>>

\* "CANCELLED --> REFUNDED": unless an administrator releases them, the
\* entries of a match that ended before play can still be refunded, also when
\* its start was under way.
RefundableUnlessReleased ==
    "released" \notin past /\ status \in {"CANCELLED", "EXPIRED"} =>
        \A p \in Participants : reservation[p] # "RELEASED"

Interchangeable ==
    Permutations(Participants) \cup Permutations(Handlers)
=============================================================================
