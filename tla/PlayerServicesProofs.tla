------------------------- MODULE PlayerServicesProofs -------------------------
(* Theorems about the two services beside the matches, GameAccounts and      *)
(* NotificationOutbox, for every number of players, accounts, platforms,     *)
(* handles and administrators, and of events, deliverers and attempts.  The  *)
(* two share no state, and neither part of this module uses the other.       *)
EXTENDS MCGameAccounts, MCNotificationOutbox, Sequences, SequenceTheorems, TLAPS

-----------------------------------------------------------------------------
(* GameAccounts.                                                             *)
(*                                                                           *)
(* Why what is verified is what was shown: a page remembers the version it   *)
(* shows; as long as the account has that version, it has the claim shown,   *)
(* because whatever changes a claim raises the version.                      *)

ClaimOf(row) == <<row.platform, row.handle>>

\* A page is never ahead of its account, and as old as it, shows its claim.
PagesTrue ==
    \A h \in Handlers : pc[h] # "idle" =>
        LET row == account[call[h].account] IN
        /\ call[h].version <= row.version
        /\ call[h].version = row.version => call[h].claim = ClaimOf(row)

\* The inductive invariant.
Inv == TypeOK /\ PagesTrue /\ VerifiedAsShown

\* What an owner may make of an account: keep its claim or raise its version,
\* and never verify it.
Follows(old, new) ==
    /\ new \in Rows
    /\ new.version >= old.version
    /\ new.version = old.version => ClaimOf(new) = ClaimOf(old)
    /\ new.status = "VERIFIED" => old.status = "VERIFIED" /\ ClaimOf(new) = ClaimOf(old)

OwnersMove ==
    /\ DOMAIN account' = Accounts
    /\ \A a \in Accounts :
          /\ Exists(a) => Follows(account[a], account'[a])
          /\ ~Exists(a) => \/ account'[a] = NoAccount
                           \/ account'[a] \in Rows /\ account'[a].status = "DRAFT"

\* A page in any state of its handling has the shape of a page.
LEMMA PageShape ==
    ASSUME TypeOK, NEW h \in Handlers, pc[h] # "idle"
    PROVE  /\ pc[h] \in {"shown", "checked"}
           /\ call[h].account \in Accounts /\ Exists(call[h].account)
           /\ account[call[h].account] \in Rows
           /\ call[h].version \in 1..MaxVersion /\ call[h].claim \in Claims
           /\ pc[h] = "checked" => call[h].to \in ReviewStatuses
BY DEF TypeOK, IsCall, Exists

\* An owner's move keeps the invariant.
LEMMA OwnersKeep ==
    ASSUME Inv, OwnersMove, UNCHANGED <<vetted, pc, call>>
    PROVE  Inv'
<1>1. ASSUME NEW a \in Accounts, Exists(a)
      PROVE  Exists(a)' /\ account'[a] \in Rows
  BY <1>1, NoAccountAssumption DEF OwnersMove, Exists, Follows
<1>2. TypeOK'
  <2>1. \A a \in Accounts : account'[a] \in Rows \cup {NoAccount}
    BY <1>1 DEF OwnersMove
  <2>2. ASSUME NEW h \in Handlers PROVE IsCall(pc[h], call[h])'
    BY <1>1 DEF Inv, TypeOK, IsCall
  <2> QED BY <2>1, <2>2 DEF Inv, TypeOK, OwnersMove
<1>3. PagesTrue'
  <2> SUFFICES ASSUME NEW h \in Handlers, pc[h] # "idle"
               PROVE  LET row == account'[call[h].account] IN
                      /\ call[h].version <= row.version
                      /\ call[h].version = row.version => call[h].claim = ClaimOf(row)
    BY DEF PagesTrue
  <2> DEFINE a == call[h].account
  <2>1. a \in Accounts /\ Exists(a) /\ account[a] \in Rows /\ call[h].version \in Int
    BY PageShape DEF Inv
  <2>2. Follows(account[a], account'[a])
    BY <2>1 DEF OwnersMove
  <2>3. /\ call[h].version <= account[a].version
        /\ call[h].version = account[a].version => call[h].claim = ClaimOf(account[a])
    BY DEF Inv, PagesTrue
  <2>4. account[a].version \in Int /\ account'[a].version \in Int
    BY <2>1, <2>2 DEF Rows, Follows
  <2> QED BY <2>1, <2>2, <2>3, <2>4 DEF Follows
<1>4. VerifiedAsShown'
  <2> SUFFICES ASSUME NEW a \in Accounts, account'[a] # NoAccount,
                      account'[a].status = "VERIFIED"
               PROVE  vetted[a] = ClaimOf(account'[a])
    BY DEF VerifiedAsShown, Exists, ClaimOf
  <2>1. Exists(a) /\ Follows(account[a], account'[a])
    BY DEF OwnersMove
  <2> QED BY <2>1 DEF Follows, Inv, VerifiedAsShown, ClaimOf
<1> QED BY <1>2, <1>3, <1>4 DEF Inv

\* An account that becomes a row that follows it is an owner's move.
LEMMA OneMoves ==
    ASSUME TypeOK, NEW a \in Accounts, NEW row, Exists(a), Follows(account[a], row),
           account' = [account EXCEPT ![a] = row]
    PROVE  OwnersMove
<1>1. ASSUME NEW b \in Accounts, Exists(b) PROVE Follows(account[b], account'[b])
  <2>1. account[b] \in Rows
    BY <1>1 DEF TypeOK, Exists
  <2>2. Follows(account[b], account[b])
    BY <2>1 DEF Follows, Rows
  <2> QED BY <2>2 DEF TypeOK
<1>2. ASSUME NEW b \in Accounts, ~Exists(b) PROVE account'[b] = NoAccount
  BY <1>2 DEF TypeOK, Exists
<1> QED BY <1>1, <1>2 DEF TypeOK, OwnersMove

\* A row that keeps the version follows the account if it keeps its claim, and
\* one that raises it whatever its claim.
LEMMA KeptFollows ==
    ASSUME NEW old \in Rows, NEW row \in Rows, row.version = old.version,
           ClaimOf(row) = ClaimOf(old), row.status = "VERIFIED" => old.status = "VERIFIED"
    PROVE  Follows(old, row)
BY DEF Follows, Rows

LEMMA BumpedRow ==
    ASSUME NEW row \in Rows, row.version < MaxVersion
    PROVE  /\ Bumped(row) \in Rows
           /\ Bumped(row).version = row.version + 1
           /\ Bumped(row).status = row.status
           /\ ClaimOf(Bumped(row)) = ClaimOf(row)
BY MaxVersionAssumption DEF Rows, Bumped, ClaimOf

LEMMA BumpedFollows ==
    ASSUME NEW old \in Rows, NEW row \in Rows, row.version = old.version,
           old.version < MaxVersion,
           row.status = "VERIFIED" => old.status = "VERIFIED" /\ ClaimOf(row) = ClaimOf(old)
    PROVE  Follows(old, Bumped(row))
<1>1. /\ Bumped(row) \in Rows /\ Bumped(row).version = old.version + 1
      /\ Bumped(row).status = row.status /\ ClaimOf(Bumped(row)) = ClaimOf(row)
  BY BumpedRow
<1>2. old.version \in Int
  BY DEF Rows
<1> QED BY <1>1, <1>2 DEF Follows

\* Every row that an owner's operation stores follows the account.
LEMMA OwnersOperations ==
    ASSUME TypeOK, NEW a \in Accounts,
           \/ \E claim \in Claims : \/ \E u \in Users : CreateClaim(a, u, claim)
                                    \/ UpdateClaim(a, claim)
           \/ Submit(a) \/ SoftDelete(a) \/ RestoreDeleted(a)
           \/ Disconnect(a) \/ Resubmit(a) \/ SetPrimary(a)
    PROVE  OwnersMove /\ UNCHANGED <<vetted, pc, call>>
<1> DEFINE old == account[a]
<1>0. Exists(a) => old \in Rows
  BY DEF TypeOK, Exists
<1>1. ASSUME NEW claim \in Claims, NEW u \in Users, CreateClaim(a, u, claim)
      PROVE  OwnersMove
  <2>1. Drafted(u, claim) \in Rows /\ Drafted(u, claim).status = "DRAFT"
    BY MaxVersionAssumption DEF Drafted, Rows, Claims, Statuses
  <2>2. ~Exists(a) /\ account' = [account EXCEPT ![a] = Drafted(u, claim)]
    BY <1>1 DEF CreateClaim, Stored
  <2>3. ASSUME NEW b \in Accounts, Exists(b) PROVE Follows(account[b], account'[b])
    <3>1. account'[b] = account[b] /\ account[b] \in Rows
      BY <2>2, <2>3 DEF TypeOK, Exists
    <3> QED BY <3>1, KeptFollows
  <2> QED BY <2>1, <2>2, <2>3 DEF TypeOK, OwnersMove, Exists
<1>2. ASSUME NEW claim \in Claims, UpdateClaim(a, claim)
      PROVE  OwnersMove
  <2> DEFINE to == IF old.status = "VERIFIED" THEN "PENDING" ELSE old.status
             row == [old EXCEPT !.platform = claim[1], !.handle = claim[2], !.status = to]
  <2>1. Exists(a) /\ account' = [account EXCEPT ![a] = Bumped(row)] /\ old.version < MaxVersion
    BY <1>2 DEF UpdateClaim, Stored, Live
  <2>2. claim[1] \in Platforms /\ claim[2] \in Handles
    BY DEF Claims
  <2>3. to \in Statuses /\ to # "VERIFIED"
    BY <1>0, <2>1 DEF Rows, Statuses
  <2>4. row \in Rows /\ row.version = old.version /\ row.status = to
    BY <1>0, <2>1, <2>2, <2>3 DEF Rows
  <2>5. Follows(old, Bumped(row))
    BY <1>0, <2>1, <2>3, <2>4, BumpedFollows
  <2> QED BY <2>1, <2>5, OneMoves
<1>3. ASSUME Submit(a) PROVE OwnersMove
  <2> DEFINE row == [old EXCEPT !.status = "PENDING"]
  <2>1. Exists(a) /\ account' = [account EXCEPT ![a] = Bumped(row)] /\ old.version < MaxVersion
    BY <1>3 DEF Submit, Stored, Live
  <2>2. /\ row \in Rows /\ row.version = old.version /\ ClaimOf(row) = ClaimOf(old)
        /\ row.status = "PENDING"
    BY <1>0, <2>1 DEF Rows, Statuses, ClaimOf
  <2>3. Follows(old, Bumped(row))
    BY <1>0, <2>1, <2>2, BumpedFollows
  <2> QED BY <2>1, <2>3, OneMoves
<1>4. ASSUME SoftDelete(a) PROVE OwnersMove
  <2> DEFINE row == [old EXCEPT !.deleted = TRUE, !.primary = FALSE]
  <2>1. Exists(a) /\ account' = [account EXCEPT ![a] = Bumped(row)] /\ old.version < MaxVersion
    BY <1>4 DEF SoftDelete, Stored, Live
  <2>2. /\ row \in Rows /\ row.version = old.version /\ ClaimOf(row) = ClaimOf(old)
        /\ row.status = old.status
    BY <1>0, <2>1 DEF Rows, Statuses, ClaimOf
  <2>3. Follows(old, Bumped(row))
    BY <1>0, <2>1, <2>2, BumpedFollows
  <2> QED BY <2>1, <2>3, OneMoves
<1>5. ASSUME RestoreDeleted(a) PROVE OwnersMove
  <2> DEFINE row == [old EXCEPT !.deleted = FALSE, !.status = "DRAFT"]
  <2>1. Exists(a) /\ account' = [account EXCEPT ![a] = Bumped(row)] /\ old.version < MaxVersion
    BY <1>5 DEF RestoreDeleted, Stored, Live
  <2>2. /\ row \in Rows /\ row.version = old.version /\ ClaimOf(row) = ClaimOf(old)
        /\ row.status = "DRAFT"
    BY <1>0, <2>1 DEF Rows, Statuses, ClaimOf
  <2>3. Follows(old, Bumped(row))
    BY <1>0, <2>1, <2>2, BumpedFollows
  <2> QED BY <2>1, <2>3, OneMoves
<1>6. ASSUME Disconnect(a) PROVE OwnersMove
  <2> DEFINE row == [old EXCEPT !.status = "DISCONNECTED", !.primary = FALSE]
  <2>1. Exists(a) /\ account' = [account EXCEPT ![a] = row]
    BY <1>6 DEF Disconnect, Stored, Live
  <2>2. /\ row \in Rows /\ row.version = old.version /\ ClaimOf(row) = ClaimOf(old)
        /\ row.status = "DISCONNECTED"
    BY <1>0, <2>1 DEF Rows, Statuses, ClaimOf
  <2>3. Follows(old, row)
    BY <1>0, <2>1, <2>2, KeptFollows
  <2> QED BY <2>1, <2>3, OneMoves
<1>7. ASSUME Resubmit(a) PROVE OwnersMove
  <2> DEFINE row == [old EXCEPT !.status = "PENDING"]
  <2>1. Exists(a) /\ account' = [account EXCEPT ![a] = row]
    BY <1>7 DEF Resubmit, Stored, Live
  <2>2. /\ row \in Rows /\ row.version = old.version /\ ClaimOf(row) = ClaimOf(old)
        /\ row.status = "PENDING"
    BY <1>0, <2>1 DEF Rows, Statuses, ClaimOf
  <2>3. Follows(old, row)
    BY <1>0, <2>1, <2>2, KeptFollows
  <2> QED BY <2>1, <2>3, OneMoves
<1>8. ASSUME SetPrimary(a) PROVE OwnersMove
  <2>1. ASSUME NEW b \in Accounts, Exists(b) PROVE Follows(account[b], account'[b])
    <3>1. account[b] \in Rows
      BY <2>1 DEF TypeOK, Exists
    <3> DEFINE row == [account[b] EXCEPT !.primary = (b = a)]
    <3>2. account'[b] = account[b] \/ account'[b] = row
      BY <1>8 DEF SetPrimary
    <3>3. (b = a) \in BOOLEAN
      OBVIOUS
    <3>4. /\ row \in Rows /\ row.version = account[b].version
          /\ ClaimOf(row) = ClaimOf(account[b]) /\ row.status = account[b].status
      BY <3>1, <3>3 DEF Rows, ClaimOf
    <3> QED BY <3>1, <3>2, <3>4, KeptFollows
  <2>2. ASSUME NEW b \in Accounts, ~Exists(b) PROVE account'[b] = NoAccount
    BY <1>8, <2>2 DEF SetPrimary, Exists, Live
  <2>3. DOMAIN account' = Accounts
    BY <1>8 DEF SetPrimary
  <2> QED BY <2>1, <2>2, <2>3 DEF OwnersMove
<1>9. UNCHANGED <<vetted, pc, call>>
  BY DEF CreateClaim, UpdateClaim, Submit, SoftDelete, RestoreDeleted, Disconnect, Resubmit,
         SetPrimary
<1> QED BY <1>1, <1>2, <1>3, <1>4, <1>5, <1>6, <1>7, <1>8, <1>9

-----------------------------------------------------------------------------
\* A step that leaves the accounts alone and gives a handler a true page, or
\* none, keeps the invariant.
LEMMA PageKeeps ==
    ASSUME Inv, NEW h \in Handlers, NEW step, NEW read, Become(h, step, read),
           UNCHANGED <<account, vetted>>, IsCall(step, read),
           step # "idle" =>
               LET row == account[read.account] IN
               /\ read.version <= row.version
               /\ read.version = row.version => read.claim = ClaimOf(row)
    PROVE  Inv'
<1>1. /\ pc' = [pc EXCEPT ![h] = step] /\ call' = [call EXCEPT ![h] = read]
      /\ account' = account /\ vetted' = vetted
  BY DEF Become
<1>2. ASSUME NEW g \in Handlers PROVE IsCall(pc[g], call[g])'
  <2>1. CASE g = h
    BY <1>1, <2>1 DEF Inv, TypeOK, IsCall, Exists
  <2>2. CASE g # h
    BY <1>1, <2>2 DEF Inv, TypeOK, IsCall, Exists
  <2> QED BY <2>1, <2>2
<1>3. TypeOK'
  BY <1>1, <1>2 DEF Inv, TypeOK
<1>4. PagesTrue'
  <2> SUFFICES ASSUME NEW g \in Handlers, pc'[g] # "idle"
               PROVE  LET row == account[call'[g].account] IN
                      /\ call'[g].version <= row.version
                      /\ call'[g].version = row.version => call'[g].claim = ClaimOf(row)
    BY <1>1 DEF PagesTrue
  <2>1. CASE g = h
    BY <1>1, <2>1 DEF Inv, TypeOK
  <2>2. CASE g # h
    BY <1>1, <2>2 DEF Inv, TypeOK, PagesTrue
  <2> QED BY <2>1, <2>2
<1>5. VerifiedAsShown'
  BY <1>1 DEF Inv, VerifiedAsShown, Exists
<1> QED BY <1>3, <1>4, <1>5 DEF Inv

\* Opening a page shows the account as it is; checking a review keeps the page.
LEMMA OpenKeeps ==
    ASSUME Inv, NEW h \in Handlers, NEW a \in Accounts, Open(h, a)
    PROVE  Inv'
<1> DEFINE row == account[a]
           read == [account |-> a, version |-> row.version, claim |-> ClaimOf(row)]
<1>1. Exists(a) /\ row \in Rows
  BY DEF Inv, TypeOK, Open, Exists
<1>2. row.version \in 1..MaxVersion /\ ClaimOf(row) \in Claims
  BY <1>1 DEF Rows, ClaimOf, Claims
<1>3. /\ read.account = a /\ read.version = row.version /\ read.claim = ClaimOf(row)
  OBVIOUS
<1>4. IsCall("shown", read)
  BY <1>1, <1>2, <1>3 DEF IsCall
<1>5. read.version <= row.version
  BY <1>2, <1>3
<1>6. Become(h, "shown", read) /\ UNCHANGED <<account, vetted>>
  BY DEF Open, ClaimOf
<1> QED BY <1>3, <1>4, <1>5, <1>6, PageKeeps

LEMMA ReviewCheckedKeeps ==
    ASSUME Inv, NEW h \in Handlers, NEW to \in ReviewStatuses, ReviewChecked(h, to)
    PROVE  Inv'
<1> DEFINE read == [account |-> call[h].account, version |-> call[h].version,
                    claim |-> call[h].claim, to |-> to]
<1>1. pc[h] = "shown"
  BY DEF ReviewChecked
<1>2. /\ call[h].account \in Accounts /\ Exists(call[h].account)
      /\ call[h].version \in 1..MaxVersion /\ call[h].claim \in Claims
  BY <1>1, PageShape DEF Inv
<1>3. LET row == account[call[h].account] IN
      /\ call[h].version <= row.version
      /\ call[h].version = row.version => call[h].claim = ClaimOf(row)
  BY <1>1 DEF Inv, PagesTrue
<1>4. /\ read.account = call[h].account /\ read.version = call[h].version
      /\ read.claim = call[h].claim /\ read.to = to
  OBVIOUS
<1>5. IsCall("checked", read)
  BY <1>2, <1>4 DEF IsCall
<1>6. Become(h, "checked", read) /\ UNCHANGED <<account, vetted>>
  BY DEF ReviewChecked
<1> QED BY <1>3, <1>4, <1>5, <1>6, PageKeeps

LEMMA AbandonedKeeps ==
    ASSUME Inv, NEW h \in Handlers, Abandoned(h)
    PROVE  Inv'
<1>1. IsCall("idle", NoCall)
  BY DEF IsCall
<1>2. Become(h, "idle", NoCall) /\ UNCHANGED <<account, vetted>>
  BY DEF Abandoned, Done
<1> QED BY <1>1, <1>2, PageKeeps

-----------------------------------------------------------------------------
\* The row that a review stores.
LEMMA ReviewedRow ==
    ASSUME NEW row \in Rows, NEW to \in ReviewStatuses, row.version < MaxVersion
    PROVE  /\ Bumped(Reviewed(row, to)) \in Rows
           /\ Bumped(Reviewed(row, to)).version = row.version + 1
           /\ Bumped(Reviewed(row, to)).status = to
           /\ ClaimOf(Bumped(Reviewed(row, to))) = ClaimOf(row)
<1>1. (row.primary /\ to = "VERIFIED") \in BOOLEAN
  OBVIOUS
<1>2. to \in Statuses
  BY DEF ReviewStatuses, Statuses
<1>3. /\ Reviewed(row, to) \in Rows /\ Reviewed(row, to).version = row.version
      /\ Reviewed(row, to).status = to /\ ClaimOf(Reviewed(row, to)) = ClaimOf(row)
  BY <1>1, <1>2 DEF Rows, Reviewed, ClaimOf
<1> QED BY <1>3, BumpedRow

\* A review is written for the version that its page showed, and so for the
\* claim that it showed.
LEMMA ReviewAppliedKeeps ==
    ASSUME Inv, NEW h \in Handlers, ReviewApplied(h)
    PROVE  Inv'
<1> DEFINE a == call[h].account
           old == account[a]
           to == call[h].to
           new == Bumped(Reviewed(old, to))
<1>1. /\ pc[h] = "checked" /\ old.version = call[h].version /\ call[h].version < MaxVersion
      /\ account' = [account EXCEPT ![a] = new]
      /\ vetted' = IF to = "VERIFIED" THEN [vetted EXCEPT ![a] = call[h].claim] ELSE vetted
      /\ pc' = [pc EXCEPT ![h] = "idle"] /\ call' = [call EXCEPT ![h] = NoCall]
  BY DEF ReviewApplied, Stored, Done, Become
<1>2. a \in Accounts /\ Exists(a) /\ old \in Rows /\ to \in ReviewStatuses
      /\ call[h].claim \in Claims
  BY <1>1, PageShape DEF Inv
<1>3. /\ new \in Rows /\ new.version = old.version + 1 /\ new.status = to
      /\ ClaimOf(new) = ClaimOf(old)
  BY <1>1, <1>2, ReviewedRow
<1>4. call[h].claim = ClaimOf(old)
  BY <1>1 DEF Inv, PagesTrue
<1>5. account'[a] = new /\ \A b \in Accounts : b # a => account'[b] = account[b]
  BY <1>1, <1>2 DEF Inv, TypeOK
<1>6. \A g \in Handlers : \/ pc'[g] = "idle" /\ call'[g] = NoCall
                          \/ pc'[g] = pc[g] /\ call'[g] = call[g]
  BY <1>1 DEF Inv, TypeOK
<1>7. ASSUME NEW b \in Accounts, Exists(b) PROVE Exists(b)'
  BY <1>3, <1>5, <1>7, NoAccountAssumption DEF Exists
<1>8. TypeOK'
  <2>1. DOMAIN account' = Accounts /\ \A b \in Accounts : account'[b] \in Rows \cup {NoAccount}
    BY <1>1, <1>3, <1>5 DEF Inv, TypeOK
  <2>2. DOMAIN vetted' = Accounts /\ \A b \in Accounts : vetted'[b] \in Claims \cup {NoAccount}
    BY <1>1, <1>2 DEF Inv, TypeOK
  <2>3. DOMAIN pc' = Handlers /\ DOMAIN call' = Handlers
    BY <1>1 DEF Inv, TypeOK
  <2>4. ASSUME NEW g \in Handlers PROVE IsCall(pc[g], call[g])'
    BY <1>6, <1>7 DEF Inv, TypeOK, IsCall
  <2> QED BY <2>1, <2>2, <2>3, <2>4 DEF TypeOK
<1>9. PagesTrue'
  <2> SUFFICES ASSUME NEW g \in Handlers, pc'[g] # "idle"
               PROVE  LET row == account'[call'[g].account] IN
                      /\ call'[g].version <= row.version
                      /\ call'[g].version = row.version => call'[g].claim = ClaimOf(row)
    BY DEF PagesTrue
  <2>1. pc[g] # "idle" /\ call'[g] = call[g]
    BY <1>6
  <2>2. /\ call[g].account \in Accounts /\ account[call[g].account] \in Rows
        /\ call[g].version \in Int
    BY <2>1, PageShape DEF Inv
  <2>3. LET row == account[call[g].account] IN
        /\ call[g].version <= row.version
        /\ call[g].version = row.version => call[g].claim = ClaimOf(row)
    BY <2>1 DEF Inv, PagesTrue
  <2>4. old.version \in Int
    BY <1>2 DEF Rows
  <2>5. CASE call[g].account = a
    BY <1>3, <1>5, <2>1, <2>2, <2>3, <2>4, <2>5
  <2>6. CASE call[g].account # a
    BY <1>5, <2>1, <2>2, <2>3, <2>6
  <2> QED BY <2>5, <2>6
<1>10. VerifiedAsShown'
  <2> SUFFICES ASSUME NEW b \in Accounts, account'[b] # NoAccount,
                      account'[b].status = "VERIFIED"
               PROVE  vetted'[b] = ClaimOf(account'[b])
    BY DEF VerifiedAsShown, Exists, ClaimOf
  <2>1. CASE b = a
    BY <1>1, <1>2, <1>3, <1>4, <1>5, <2>1 DEF Inv, TypeOK
  <2>2. CASE b # a
    <3>1. vetted'[b] = vetted[b]
      BY <1>1, <2>2 DEF Inv, TypeOK
    <3> QED BY <1>5, <2>2, <3>1 DEF Inv, VerifiedAsShown, Exists, ClaimOf
  <2> QED BY <2>1, <2>2
<1> QED BY <1>8, <1>9, <1>10 DEF Inv

-----------------------------------------------------------------------------
LEMMA InitInv == Init => Inv
BY NoAccountAssumption DEF Init, Inv, TypeOK, IsCall, PagesTrue, VerifiedAsShown, Exists

LEMMA NextKeepsInv == Inv /\ [Next]_vars => Inv'
<1> SUFFICES ASSUME Inv, [Next]_vars PROVE Inv'
  OBVIOUS
<1>1. ASSUME NEW a \in Accounts,
             \/ \E claim \in Claims : \/ \E u \in Users : CreateClaim(a, u, claim)
                                      \/ UpdateClaim(a, claim)
             \/ Submit(a) \/ SoftDelete(a) \/ RestoreDeleted(a)
             \/ Disconnect(a) \/ Resubmit(a) \/ SetPrimary(a)
      PROVE  Inv'
  <2>1. OwnersMove /\ UNCHANGED <<vetted, pc, call>>
    BY <1>1, OwnersOperations DEF Inv
  <2> QED BY <2>1, OwnersKeep
<1>2. ASSUME NEW h \in Handlers, NEW a \in Accounts, Open(h, a) PROVE Inv'
  BY <1>2, OpenKeeps
<1>3. ASSUME NEW h \in Handlers, NEW to \in ReviewStatuses, ReviewChecked(h, to) PROVE Inv'
  BY <1>3, ReviewCheckedKeeps
<1>4. ASSUME NEW h \in Handlers, ReviewApplied(h) PROVE Inv'
  BY <1>4, ReviewAppliedKeeps
<1>5. ASSUME NEW h \in Handlers, Abandoned(h) PROVE Inv'
  BY <1>5, AbandonedKeeps
<1>6. CASE UNCHANGED vars
  BY <1>6 DEF vars, Inv, TypeOK, IsCall, PagesTrue, VerifiedAsShown, Exists
<1> QED BY <1>1, <1>2, <1>3, <1>4, <1>5, <1>6 DEF Next

-----------------------------------------------------------------------------
\* Why a review moves an account as the policy allows: the version for which
\* it is written stands for the status that was checked, unless the account
\* changed its status, and not its version, in between (crossed, in
\* MCGameAccounts).

CheckStands(h) ==
    pc[h] = "checked" =>
        LET a == call[h].account
        IN a \notin crossed /\ account[a].version = call[h].version
               => Allowed(account[a].status, call[h].to)

MCInv == Inv /\ \A h \in Handlers : CheckStands(h)

\* The moves of LifecycleUnlessCrossed.
Moves(old, new) ==
    \/ old.deleted /\ ~new.deleted /\ new.status = "DRAFT"
    \/ new.status = "DISCONNECTED"
    \/ /\ old.status \in {"DRAFT", "VERIFIED", "REJECTED", "CHANGES_REQUESTED"}
       /\ new.status = "PENDING"
    \/ old.status = "PENDING" /\ new.status \in {"VERIFIED", "REJECTED", "CHANGES_REQUESTED"}
    \/ {old.status, new.status} = {"VERIFIED", "SUSPENDED"}

OwnersStep(a) ==
    \/ \E claim \in Claims : \/ \E u \in Users : CreateClaim(a, u, claim)
                             \/ UpdateClaim(a, claim)
    \/ Submit(a) \/ SoftDelete(a) \/ RestoreDeleted(a)
    \/ Disconnect(a) \/ Resubmit(a) \/ SetPrimary(a)

LEMMA NextSplits ==
    ASSUME [Next]_vars
    PROVE  \/ \E a \in Accounts : OwnersStep(a)
           \/ UNCHANGED account
           \/ \E h \in Handlers : ReviewApplied(h)
BY DEF Next, OwnersStep, vars, Open, ReviewChecked, Abandoned

LEMMA ReviewWrites ==
    ASSUME Inv, NEW h \in Handlers, ReviewApplied(h)
    PROVE  LET a == call[h].account
           IN /\ a \in Accounts /\ account[a] \in Rows
              /\ pc[h] = "checked" /\ account[a].version = call[h].version
              /\ call[h].to \in ReviewStatuses
              /\ account'[a].status = call[h].to
              /\ account'[a].version = account[a].version + 1
              /\ \A b \in Accounts : b # a => account'[b] = account[b]
<1> DEFINE a == call[h].account
           old == account[a]
           to == call[h].to
           new == Bumped(Reviewed(old, to))
<1>1. /\ pc[h] = "checked" /\ old.version = call[h].version /\ call[h].version < MaxVersion
      /\ account' = [account EXCEPT ![a] = new]
  BY DEF ReviewApplied, Stored
<1>2. a \in Accounts /\ Exists(a) /\ old \in Rows /\ to \in ReviewStatuses
  BY <1>1, PageShape DEF Inv
<1>3. /\ new \in Rows /\ new.version = old.version + 1 /\ new.status = to
  BY <1>1, <1>2, ReviewedRow
<1>4. account'[a] = new /\ \A b \in Accounts : b # a => account'[b] = account[b]
  BY <1>1, <1>2 DEF Inv, TypeOK
<1> QED BY <1>1, <1>2, <1>3, <1>4

\* No version ever falls.
LEMMA VersionsGrow ==
    ASSUME Inv, [Next]_vars, NEW a \in Accounts, Exists(a)
    PROVE  account'[a].version >= account[a].version
<1>1. account[a] \in Rows /\ account[a].version \in Int
  BY DEF Inv, TypeOK, Exists, Rows
<1>2. ASSUME NEW b \in Accounts, OwnersStep(b) PROVE account'[a].version >= account[a].version
  BY <1>2, OwnersOperations DEF Inv, OwnersStep, OwnersMove, Follows
<1>3. CASE UNCHANGED account
  BY <1>1, <1>3
<1>4. ASSUME NEW h \in Handlers, ReviewApplied(h) PROVE account'[a].version >= account[a].version
  <2>1. PICK b \in Accounts : /\ b = call[h].account
                              /\ account'[b].version = account[b].version + 1
                              /\ \A d \in Accounts : d # b => account'[d] = account[d]
    BY <1>4, ReviewWrites
  <2>2. CASE a = b
    BY <1>1, <2>1, <2>2
  <2>3. CASE a # b
    BY <1>1, <2>1, <2>3
  <2> QED BY <2>2, <2>3
<1> QED BY <1>2, <1>3, <1>4, NextSplits

\* A handler that has checked has done so just now, or stands still.
LEMMA WhoHasChecked ==
    ASSUME Inv, [Next]_vars, NEW h \in Handlers, pc'[h] = "checked"
    PROVE  \/ pc[h] = "checked" /\ call'[h] = call[h]
           \/ \E to \in ReviewStatuses : ReviewChecked(h, to)
<1>1. DOMAIN pc = Handlers /\ DOMAIN call = Handlers
  BY DEF Inv, TypeOK
<1>2. ASSUME NEW g \in Handlers, NEW step, NEW read, Become(g, step, read),
             g # h \/ step # "checked"
      PROVE  pc[h] = "checked" /\ call'[h] = call[h]
  BY <1>1, <1>2 DEF Become
<1>3. CASE UNCHANGED <<pc, call>>
  BY <1>3
<1>4. ASSUME NEW a \in Accounts, OwnersStep(a) PROVE UNCHANGED <<pc, call>>
  BY <1>4, OwnersOperations DEF Inv, OwnersStep
<1>5. ASSUME NEW g \in Handlers, NEW a \in Accounts, Open(g, a)
      PROVE  pc[h] = "checked" /\ call'[h] = call[h]
  <2>1. PICK read : Become(g, "shown", read)
    BY <1>5 DEF Open
  <2> QED BY <1>2, <2>1
<1>6. ASSUME NEW g \in Handlers, NEW to \in ReviewStatuses, ReviewChecked(g, to), g # h
      PROVE  pc[h] = "checked" /\ call'[h] = call[h]
  <2>1. PICK read : Become(g, "checked", read)
    BY <1>6 DEF ReviewChecked
  <2> QED BY <1>2, <1>6, <2>1
<1>7. ASSUME NEW g \in Handlers, ReviewApplied(g) \/ Abandoned(g)
      PROVE  pc[h] = "checked" /\ call'[h] = call[h]
  <2>1. Become(g, "idle", NoCall)
    BY <1>7 DEF ReviewApplied, Abandoned, Done
  <2> QED BY <1>2, <2>1
<1> QED BY <1>3, <1>4, <1>5, <1>6, <1>7 DEF Next, OwnersStep, vars

LEMMA NextKeepsChecks ==
    ASSUME MCInv, [MCNext]_<<vars, crossed>>, NEW h \in Handlers
    PROVE  CheckStands(h)'
<1> DEFINE a == call[h].account
<1>1. [Next]_vars /\ Inv
  BY DEF MCNext, MCInv
<1> SUFFICES ASSUME pc'[h] = "checked", call'[h].account \notin crossed',
                    account'[call'[h].account].version = call'[h].version
             PROVE  Allowed(account'[call'[h].account].status, call'[h].to)
  BY DEF CheckStands
<1>2. crossed \subseteq crossed'
  BY DEF MCNext
<1>3. CASE pc[h] = "checked" /\ call'[h] = call[h]
  <2>1. /\ a \in Accounts /\ Exists(a) /\ account[a] \in Rows /\ call[h].version \in Int
        /\ call[h].version <= account[a].version
    BY <1>1, <1>3, PageShape DEF Inv, PagesTrue
  <2>2. account'[a].version >= account[a].version /\ account[a].version \in Int
    BY <1>1, <2>1, VersionsGrow DEF Rows
  <2>3. account'[a].version = account[a].version /\ account[a].version = call[h].version
    BY <1>3, <2>1, <2>2
  <2>4. account'[a].status = account[a].status
    <3>1. CASE MCNext
      BY <1>3, <2>1, <2>3, <3>1 DEF MCNext
    <3>2. CASE UNCHANGED <<vars, crossed>>
      BY <3>2 DEF vars
    <3> QED BY <3>1, <3>2
  <2>5. Allowed(account[a].status, call[h].to)
    BY <1>2, <1>3, <2>3 DEF MCInv, CheckStands
  <2> QED BY <1>3, <2>4, <2>5
<1>4. ASSUME NEW to \in ReviewStatuses, ReviewChecked(h, to)
      PROVE  Allowed(account'[call'[h].account].status, call'[h].to)
  <2>1. PICK read : read = [account |-> a, version |-> call[h].version,
                            claim |-> call[h].claim, to |-> to]
    OBVIOUS
  <2>2. /\ Become(h, "checked", read) /\ UNCHANGED account
        /\ Allowed(account[a].status, to)
    BY <1>4, <2>1 DEF ReviewChecked
  <2>3. call'[h] = read
    BY <1>1, <2>2 DEF Become, Inv, TypeOK
  <2> QED BY <2>1, <2>2, <2>3
<1> QED BY <1>1, <1>3, <1>4, WhoHasChecked

\* An owner moves an account along the lifecycle.
LEMMA OwnersMoves ==
    ASSUME Inv, NEW b \in Accounts, OwnersStep(b), NEW a \in Accounts, Exists(a),
           account[a].status # account'[a].status
    PROVE  Moves(account[a], account'[a])
<1> DEFINE old == account[a]
<1>1. old \in Rows /\ DOMAIN account = Accounts
  BY DEF Inv, TypeOK, Exists
<1>2. ASSUME NEW row, Stored(b, row) PROVE a = b /\ account'[a] = row
  BY <1>1, <1>2 DEF Stored
<1>3. ASSUME NEW row \in Rows PROVE Bumped(row).status = row.status /\ Bumped(row).deleted = row.deleted
  BY DEF Bumped, Rows
<1>4. ASSUME NEW claim \in Claims, NEW u \in Users, CreateClaim(b, u, claim) PROVE FALSE
  BY <1>2, <1>4 DEF CreateClaim
<1>5. ASSUME NEW claim \in Claims, UpdateClaim(b, claim) PROVE Moves(old, account'[a])
  <2> DEFINE to == IF account[b].status = "VERIFIED" THEN "PENDING" ELSE account[b].status
             row == [account[b] EXCEPT !.platform = claim[1], !.handle = claim[2], !.status = to]
  <2>1. Stored(b, Bumped(row))
    BY <1>5 DEF UpdateClaim
  <2>2. a = b /\ account'[a] = Bumped(row)
    BY <1>2, <2>1
  <2>3. claim[1] \in Platforms /\ claim[2] \in Handles /\ to \in Statuses
    BY <1>1, <2>2 DEF Claims, Rows, Statuses
  <2>4. row \in Rows /\ row.status = to
    BY <1>1, <2>2, <2>3 DEF Rows
  <2>5. account'[a].status = to
    BY <1>3, <2>2, <2>4
  <2> QED BY <2>2, <2>5 DEF Moves
<1>6. CASE Submit(b)
  <2> DEFINE row == [account[b] EXCEPT !.status = "PENDING"]
  <2>1. Stored(b, Bumped(row)) /\ account[b].status \in {"DRAFT", "REJECTED", "CHANGES_REQUESTED"}
    BY <1>6 DEF Submit
  <2>2. a = b /\ account'[a] = Bumped(row)
    BY <1>2, <2>1
  <2>3. row \in Rows /\ row.status = "PENDING"
    BY <1>1, <2>2 DEF Rows, Statuses
  <2>4. account'[a].status = "PENDING"
    BY <1>3, <2>2, <2>3
  <2> QED BY <2>1, <2>2, <2>4 DEF Moves
<1>7. CASE SoftDelete(b)
  <2> DEFINE row == [account[b] EXCEPT !.deleted = TRUE, !.primary = FALSE]
  <2>1. Stored(b, Bumped(row))
    BY <1>7 DEF SoftDelete
  <2>2. a = b /\ account'[a] = Bumped(row)
    BY <1>2, <2>1
  <2>3. row \in Rows /\ row.status = old.status
    BY <1>1, <2>2 DEF Rows
  <2>4. account'[a].status = old.status
    BY <1>3, <2>2, <2>3
  <2> QED BY <2>4
<1>8. CASE RestoreDeleted(b)
  <2> DEFINE row == [account[b] EXCEPT !.deleted = FALSE, !.status = "DRAFT"]
  <2>1. Stored(b, Bumped(row)) /\ account[b].deleted
    BY <1>8 DEF RestoreDeleted
  <2>2. a = b /\ account'[a] = Bumped(row)
    BY <1>2, <2>1
  <2>3. row \in Rows /\ row.status = "DRAFT" /\ row.deleted = FALSE
    BY <1>1, <2>2 DEF Rows, Statuses
  <2>4. account'[a].status = "DRAFT" /\ account'[a].deleted = FALSE
    BY <1>3, <2>2, <2>3
  <2> QED BY <2>1, <2>2, <2>4 DEF Moves
<1>9. CASE Disconnect(b)
  <2>1. Stored(b, [account[b] EXCEPT !.status = "DISCONNECTED", !.primary = FALSE])
    BY <1>9 DEF Disconnect
  <2>2. a = b /\ account'[a] = [account[b] EXCEPT !.status = "DISCONNECTED", !.primary = FALSE]
    BY <1>2, <2>1
  <2>3. account'[a].status = "DISCONNECTED"
    BY <1>1, <2>2 DEF Rows
  <2> QED BY <2>3 DEF Moves
<1>10. CASE Resubmit(b)
  <2>1. /\ Stored(b, [account[b] EXCEPT !.status = "PENDING"])
        /\ account[b].status \in {"REJECTED", "CHANGES_REQUESTED"}
    BY <1>10 DEF Resubmit
  <2>2. a = b /\ account'[a] = [account[b] EXCEPT !.status = "PENDING"]
    BY <1>2, <2>1
  <2>3. account'[a].status = "PENDING"
    BY <1>1, <2>2 DEF Rows
  <2> QED BY <2>1, <2>2, <2>3 DEF Moves
<1>11. CASE SetPrimary(b)
  <2>1. account'[a] = old \/ account'[a] = [old EXCEPT !.primary = (a = b)]
    BY <1>11 DEF SetPrimary
  <2>2. account'[a].status = old.status
    BY <1>1, <2>1 DEF Rows
  <2> QED BY <2>2
<1> QED BY <1>4, <1>5, <1>6, <1>7, <1>8, <1>9, <1>10, <1>11 DEF OwnersStep

\* What the policy allows a reviewer are moves of the lifecycle.
LEMMA AllowedMoves ==
    ASSUME NEW old \in Rows, NEW new, new.status \in ReviewStatuses,
           Allowed(old.status, new.status), old.status # new.status
    PROVE  Moves(old, new)
BY DEF Allowed, ReviewStatuses, Moves

LEMMA StepMoves ==
    ASSUME MCInv, [MCNext]_<<vars, crossed>>, NEW a \in Accounts, a \notin crossed,
           Exists(a), account[a].status # account'[a].status
    PROVE  Moves(account[a], account'[a])
<1>1. [Next]_vars /\ Inv
  BY DEF MCNext, MCInv
<1>2. ASSUME NEW h \in Handlers, ReviewApplied(h) PROVE Moves(account[a], account'[a])
  <2>1. PICK b \in Accounts :
            /\ b = call[h].account /\ account[b] \in Rows
            /\ pc[h] = "checked" /\ account[b].version = call[h].version
            /\ call[h].to \in ReviewStatuses /\ account'[b].status = call[h].to
            /\ \A d \in Accounts : d # b => account'[d] = account[d]
    BY <1>1, <1>2, ReviewWrites
  <2>2. a = b
    BY <2>1
  <2>3. Allowed(account[a].status, call[h].to)
    BY <2>1, <2>2 DEF MCInv, CheckStands
  <2> QED BY <2>1, <2>2, <2>3, AllowedMoves
<1>3. ASSUME NEW b \in Accounts, OwnersStep(b) PROVE Moves(account[a], account'[a])
  BY <1>1, <1>3, OwnersMoves
<1> QED BY <1>1, <1>2, <1>3, NextSplits

LEMMA MCKeeps == MCInv /\ [MCNext]_<<vars, crossed>> => MCInv'
<1>1. [MCNext]_<<vars, crossed>> => [Next]_vars
  BY DEF MCNext
<1> QED BY <1>1, NextKeepsInv, NextKeepsChecks DEF MCInv

LEMMA MCInitInv == MCInit => MCInv
BY InitInv DEF MCInit, MCInv, Init, CheckStands

\* The accounts, the pages and the histories keep their types.
THEOREM TypeCorrect == Spec => []TypeOK
<1>1. Inv => TypeOK
  BY DEF Inv
<1> QED BY <1>1, InitInv, NextKeepsInv, PTL DEF Spec

\* An account is verified with the platform and the handle that were shown to
\* the administrator who verified it, however its owner's edits, deletions and
\* re-submissions interleave with the review.
THEOREM VerifiedIsAsShown == Spec => []VerifiedAsShown
<1>1. Inv => VerifiedAsShown
  BY DEF Inv
<1> QED BY <1>1, InitInv, NextKeepsInv, PTL DEF Spec

\* An account moves along the lifecycle of the policy, or as its owner may move
\* it, whatever edits, deletions and reviews overlap, unless its status, and
\* not its version, changed between the check of a review and its writing.
THEOREM MovesAlongLifecycle == MCSpec => LifecycleUnlessCrossed
<1> DEFINE Lives == \A a \in Accounts :
               account[a] # NoAccount /\ account[a].status # account'[a].status
                   => a \in crossed \/ Moves(account[a], account'[a])
<1>1. MCInv /\ [MCNext]_<<vars, crossed>> => Lives
  BY StepMoves DEF Exists
<1>2. Lives => \A a \in Accounts :
           LET old == account[a]  new == account'[a] IN
           old # NoAccount /\ old.status # new.status =>
               \/ a \in crossed
               \/ old.deleted /\ ~new.deleted /\ new.status = "DRAFT"
               \/ new.status = "DISCONNECTED"
               \/ old.status \in {"DRAFT", "VERIFIED", "REJECTED", "CHANGES_REQUESTED"}
                  /\ new.status = "PENDING"
               \/ old.status = "PENDING"
                  /\ new.status \in {"VERIFIED", "REJECTED", "CHANGES_REQUESTED"}
               \/ {old.status, new.status} = {"VERIFIED", "SUSPENDED"}
  BY DEF Moves
<1> QED BY MCInitInv, MCKeeps, <1>1, <1>2, PTL DEF MCSpec, LifecycleUnlessCrossed
-----------------------------------------------------------------------------
(* NotificationOutbox.                                                       *)
(*                                                                           *)
(* Why the attempts of a message stay in order although nobody holds it: a   *)
(* deliverer that is up to date has the next number, one that is not has a   *)
(* number that is at most the next, and a number is recorded once.           *)

Limit == MaxAttempts + retries
Numbered == {"send", "attempt", "mark"}
Waiting == {"PENDING", "RETRY_SCHEDULED"}

\* What a deliverer may still rely on of what it has read.
TaskTrue(d) ==
    LET c == task[d] IN
    /\ stage[d] = "claim" /\ d \in current => status[c.message] \in Waiting
    /\ stage[d] \in Numbered =>
           /\ c.number <= attemptCount[c.message] + 1
           /\ d \in current => c.number = attemptCount[c.message] + 1
           /\ c.number <= Limit
    /\ stage[d] \in {"attempt", "mark"} /\ c.outcome = "RETRYABLE_FAILURE"
           => c.number < MaxAttempts
    /\ stage[d] = "mark" => /\ c.number \in DOMAIN attempts[c.message]
                            /\ attempts[c.message][c.number] = c.outcome

\* A message that may still be attempted has an attempt left.
MessageTrue(m) ==
    /\ status[m] # "ABSENT" => m[1] \in notified
    /\ attemptCount[m] <= Limit
    /\ status[m] \in Outstanding \cup {"ABSENT"} => attemptCount[m] < Limit

\* The inductive invariant.
OutboxInv ==
    /\ OutboxTypeOK
    /\ \A d \in Deliverers : TaskTrue(d)
    /\ \A m \in Messages : MessageTrue(m)
    /\ AttemptsCounted
    /\ StatusTellsAttempt

-----------------------------------------------------------------------------
\* What no step undoes: attempts are only added, and counted upwards.
Grows ==
    /\ retries' \in 0..MaxRetries /\ retries <= retries'
    /\ \A m \in Messages :
          /\ attemptCount[m] <= attemptCount'[m]
          /\ attemptCount'[m] \in {0} \cup Numbers
          /\ DOMAIN attempts[m] \subseteq DOMAIN attempts'[m]
          /\ \A n \in DOMAIN attempts[m] : attempts'[m][n] = attempts[m][n]

\* A deliverer that a step of another leaves alone, but for what it may now have missed.
Untouched(d) ==
    /\ stage'[d] = stage[d] /\ task'[d] = task[d]
    /\ stage[d] # "idle" /\ d \in current' =>
           /\ d \in current
           /\ status'[task[d].message] = status[task[d].message]
           /\ attemptCount'[task[d].message] = attemptCount[task[d].message]

LEMMA NumbersAreInt ==
    /\ MaxAttempts \in Int /\ MaxRetries \in Int
    /\ \A n \in Numbers : n \in Int /\ n >= 1 /\ n <= MaxAttempts + MaxRetries
BY BoundsAssumption DEF Numbers

LEMMA TaskShape ==
    ASSUME OutboxTypeOK, NEW d \in Deliverers, stage[d] # "idle"
    PROVE  /\ stage[d] \in {"claim", "claimed", "send", "attempt", "mark"}
           /\ task[d].message \in Messages
           /\ stage[d] \in Numbered => task[d].number \in Numbers
           /\ stage[d] \in {"attempt", "mark"} => task[d].outcome \in Outcomes
BY DEF OutboxTypeOK, IsTask, Numbered

LEMMA UntouchedStays ==
    ASSUME OutboxTypeOK, NEW d \in Deliverers, TaskTrue(d), Grows, Untouched(d)
    PROVE  TaskTrue(d)'
<1>1. CASE stage[d] = "idle"
  BY <1>1 DEF TaskTrue, Untouched, Numbered
<1>2. CASE stage[d] # "idle"
  <2> DEFINE m == task[d].message
  <2>1. m \in Messages /\ (stage[d] \in Numbered => task[d].number \in Int)
    BY <1>2, TaskShape, NumbersAreInt
  <2>2. /\ attemptCount[m] <= attemptCount'[m] /\ retries <= retries'
        /\ attemptCount[m] \in Int /\ attemptCount'[m] \in Int
        /\ retries \in Int /\ retries' \in Int /\ MaxAttempts \in Int
    BY <2>1, BoundsAssumption DEF Grows, OutboxTypeOK, Numbers
  <2>3. stage[d] = "mark" => /\ task[d].number \in DOMAIN attempts'[m]
                             /\ attempts'[m][task[d].number] = task[d].outcome
    BY <2>1 DEF TaskTrue, Grows
  <2> QED BY <1>2, <2>1, <2>2, <2>3 DEF TaskTrue, Untouched, Limit
<1> QED BY <1>1, <1>2

LEMMA OthersUntouched ==
    ASSUME OutboxTypeOK, NEW d \in Deliverers, NEW e \in Deliverers, e # d,
           NEW step, NEW c, Proceed(d, step, c), current' \ {d} \subseteq current,
           UNCHANGED <<status, attemptCount>>
    PROVE  Untouched(e)
BY DEF OutboxTypeOK, Proceed, Untouched

\* A step of one deliverer that changes no message and no attempt.
LEMMA DelivererKeeps ==
    ASSUME OutboxInv, NEW d \in Deliverers, NEW step, NEW c, Proceed(d, step, c), IsTask(step, c),
           step \in {"idle", "claim", "claimed", "send", "attempt", "mark"},
           current' \ {d} \subseteq current, current' \subseteq Deliverers,
           UNCHANGED <<messageVars, emailEnabled, attempts, retries>>,
           crashes' \in 0..MaxCrashes, TaskTrue(d)'
    PROVE  OutboxInv'
<1>1. OutboxTypeOK'
  <2>1. ASSUME NEW e \in Deliverers PROVE IsTask(stage[e], task[e])'
    <3>1. CASE e = d
      BY <3>1 DEF OutboxInv, OutboxTypeOK, Proceed, IsTask
    <3>2. CASE e # d
      BY <3>2 DEF OutboxInv, OutboxTypeOK, Proceed, IsTask
    <3> QED BY <3>1, <3>2
  <2> QED BY <2>1 DEF OutboxInv, OutboxTypeOK, Proceed, messageVars
<1>2. Grows
  BY DEF OutboxInv, OutboxTypeOK, Grows, messageVars, Numbers
<1>3. \A e \in Deliverers : TaskTrue(e)'
  <2> SUFFICES ASSUME NEW e \in Deliverers, e # d PROVE TaskTrue(e)'
    OBVIOUS
  <2>1. Untouched(e)
    BY OthersUntouched DEF OutboxInv, messageVars
  <2> QED BY <1>2, <2>1, UntouchedStays DEF OutboxInv
<1>4. \A m \in Messages : MessageTrue(m)'
  BY DEF OutboxInv, MessageTrue, messageVars, Limit
<1>5. AttemptsCounted' /\ StatusTellsAttempt'
  BY DEF OutboxInv, AttemptsCounted, StatusTellsAttempt, messageVars
<1> QED BY <1>1, <1>3, <1>4, <1>5 DEF OutboxInv

\* A deliverer that stops relies on nothing.
LEMMA StopKeeps ==
    ASSUME OutboxInv, NEW d \in Deliverers, Stop(d),
           UNCHANGED <<messageVars, emailEnabled, attempts, retries>>,
           crashes' \in 0..MaxCrashes
    PROVE  OutboxInv'
<1>1. Proceed(d, "idle", NoTask) /\ current' = current \ {d} /\ IsTask("idle", NoTask)
  BY DEF Stop, IsTask
<1>2. TaskTrue(d)'
  BY <1>1 DEF Proceed, TaskTrue, Numbered, OutboxInv, OutboxTypeOK
<1>3. current' \subseteq Deliverers /\ current' \ {d} \subseteq current
  BY <1>1 DEF OutboxInv, OutboxTypeOK
<1> QED BY <1>1, <1>2, <1>3, DelivererKeeps

-----------------------------------------------------------------------------
LEMMA ListDueKeeps ==
    ASSUME OutboxInv, NEW d \in Deliverers, NEW m \in Messages, ListDue(d, m) PROVE OutboxInv'
<1>1. Proceed(d, "claim", [message |-> m]) /\ current' = current \cup {d}
  BY DEF ListDue
<1>2. IsTask("claim", [message |-> m])
  BY DEF IsTask
<1>3. status[m] \in Waiting /\ UNCHANGED <<messageVars, emailEnabled, attempts, bounds>>
  BY DEF ListDue, Due, Waiting
<1>4. TaskTrue(d)'
  <2>1. stage'[d] = "claim" /\ task'[d].message = m /\ status' = status
    BY <1>1, <1>3 DEF Proceed, OutboxInv, OutboxTypeOK, messageVars
  <2> QED BY <1>3, <2>1 DEF TaskTrue, Numbered
<1>5. current' \subseteq Deliverers /\ current' \ {d} \subseteq current /\ crashes' \in 0..MaxCrashes
  BY <1>1, <1>3 DEF OutboxInv, OutboxTypeOK, bounds
<1> QED BY <1>1, <1>2, <1>3, <1>4, <1>5, DelivererKeeps DEF bounds

LEMMA BeginDeliveryKeeps ==
    ASSUME OutboxInv, NEW d \in Deliverers, BeginDelivery(d) PROVE OutboxInv'
<1> DEFINE m == task[d].message
           n == NextNumber(m)
<1>1. stage[d] = "claimed" /\ UNCHANGED <<messageVars, emailEnabled, attempts, bounds>>
      /\ crashes' \in 0..MaxCrashes
  BY DEF BeginDelivery, bounds, OutboxInv, OutboxTypeOK
<1>2. m \in Messages
  BY <1>1, TaskShape DEF OutboxInv
<1>3. CASE Stop(d)
  BY <1>1, <1>3, StopKeeps DEF bounds
<1>4. CASE ~Stop(d)
  <2>1. PICK step, c :
            /\ step \in {"attempt", "send"}
            /\ Proceed(d, step, c) /\ current' = current \cup {d}
            /\ status[m] \in Outstanding
            /\ \/ step = "attempt" /\ \E outcome \in {"SUCCEEDED", "SKIPPED"} :
                      c = [message |-> m, number |-> n, outcome |-> outcome]
               \/ step = "send" /\ c = [message |-> m, number |-> n]
    BY <1>4 DEF BeginDelivery, Deliverable
  <2>2. /\ n = attemptCount[m] + 1 /\ n \in Numbers /\ n <= Limit
        /\ attemptCount[m] \in Int
    <3>1. /\ attemptCount[m] \in Int /\ attemptCount[m] >= 0 /\ attemptCount[m] < Limit
          /\ retries \in Int /\ retries <= MaxRetries
      BY <1>2, <2>1, NumbersAreInt, BoundsAssumption DEF OutboxInv, OutboxTypeOK, MessageTrue
    <3> QED BY <3>1, BoundsAssumption DEF NextNumber, Limit, Numbers
  <2>3. IsTask(step, c)
    BY <1>2, <2>1, <2>2 DEF IsTask, Outcomes
  <2>4. TaskTrue(d)'
    <3>1. stage'[d] = step /\ task'[d] = c
      BY <2>1 DEF Proceed, OutboxInv, OutboxTypeOK
    <3>2. c.message = m /\ c.number = n /\ (step = "attempt" => c.outcome # "RETRYABLE_FAILURE")
      BY <2>1
    <3>3. attemptCount' = attemptCount /\ Limit' = Limit
      BY <1>1 DEF messageVars, bounds, Limit
    <3> QED BY <2>1, <2>2, <3>1, <3>2, <3>3 DEF TaskTrue, Numbered
  <2>5. current' \subseteq Deliverers /\ current' \ {d} \subseteq current
    BY <2>1 DEF OutboxInv, OutboxTypeOK
  <2> QED BY <1>1, <2>1, <2>3, <2>4, <2>5, DelivererKeeps DEF bounds
<1> QED BY <1>3, <1>4

LEMMA SendKeeps ==
    ASSUME OutboxInv, NEW d \in Deliverers, Send(d) PROVE OutboxInv'
<1> DEFINE m == task[d].message
           n == task[d].number
<1>1. stage[d] = "send" /\ UNCHANGED <<messageVars, emailEnabled, attempts, current, bounds>>
      /\ crashes' \in 0..MaxCrashes
  BY DEF Send, bounds, OutboxInv, OutboxTypeOK
<1>2. m \in Messages /\ n \in Numbers
  BY <1>1, TaskShape DEF OutboxInv, Numbered
<1>3. PICK outcome \in Outcomes :
          /\ Proceed(d, "attempt", [message |-> m, number |-> n, outcome |-> outcome])
          /\ outcome = "RETRYABLE_FAILURE" => n < MaxAttempts
  BY DEF Send, Outcomes, Retryable
<1> DEFINE c == [message |-> m, number |-> n, outcome |-> outcome]
<1>4. IsTask("attempt", c)
  BY <1>2 DEF IsTask
<1>5. TaskTrue(d)'
  <2>1. stage'[d] = "attempt" /\ task'[d] = c
    BY <1>3 DEF Proceed, OutboxInv, OutboxTypeOK
  <2>2. /\ n <= attemptCount[m] + 1 /\ n <= Limit
        /\ d \in current => n = attemptCount[m] + 1
    BY <1>1 DEF OutboxInv, TaskTrue, Numbered
  <2>3. attemptCount' = attemptCount /\ Limit' = Limit /\ current' = current
    BY <1>1 DEF messageVars, bounds, Limit
  <2> QED BY <1>3, <2>1, <2>2, <2>3 DEF TaskTrue, Numbered
<1>6. current' \subseteq Deliverers /\ current' \ {d} \subseteq current
  BY <1>1 DEF OutboxInv, OutboxTypeOK
<1> QED BY <1>1, <1>3, <1>4, <1>5, <1>6, DelivererKeeps DEF bounds

LEMMA CrashKeeps ==
    ASSUME OutboxInv, NEW d \in Deliverers, Crash(d) PROVE OutboxInv'
<1>1. crashes' \in 0..MaxCrashes
  BY BoundsAssumption DEF Crash, OutboxInv, OutboxTypeOK
<1> QED BY <1>1, StopKeeps DEF Crash

-----------------------------------------------------------------------------
\* A step that changes one message, and of which every deliverer's read gets stale.
LEMMA BumpedUntouched ==
    ASSUME OutboxTypeOK, NEW m \in Messages, NEW d \in Deliverers, Bump(m),
           stage'[d] = stage[d], task'[d] = task[d],
           \A k \in Messages \ {m} : status'[k] = status[k] /\ attemptCount'[k] = attemptCount[k]
    PROVE  Untouched(d)
BY TaskShape DEF Bump, Untouched

LEMMA AppendKeeps ==
    ASSUME OutboxInv, NEW d \in Deliverers, AppendAttempt(d) PROVE OutboxInv'
<1> DEFINE c == task[d]
           m == c.message
           n == c.number
<1>1. stage[d] = "attempt" /\ UNCHANGED <<messageVars, emailEnabled, bounds>>
  BY DEF AppendAttempt
<1>2. m \in Messages /\ n \in Numbers /\ c.outcome \in Outcomes
  BY <1>1, TaskShape DEF OutboxInv, Numbered
<1>3. CASE Stop(d) /\ UNCHANGED attempts
  BY <1>1, <1>3, StopKeeps DEF bounds, OutboxInv, OutboxTypeOK
<1>4. CASE ~(Stop(d) /\ UNCHANGED attempts)
  <2>1. /\ n \notin DOMAIN attempts[m]
        /\ attempts' = [attempts EXCEPT ![m] =
                           [k \in DOMAIN attempts[m] \cup {n} |->
                                IF k = n THEN c.outcome ELSE attempts[m][k]]]
        /\ Proceed(d, "mark", c) /\ UNCHANGED current
    BY <1>4 DEF AppendAttempt, NumberTaken
  <2>2. /\ DOMAIN attempts' = Messages
        /\ DOMAIN attempts'[m] = DOMAIN attempts[m] \cup {n}
        /\ attempts'[m][n] = c.outcome
        /\ \A k \in DOMAIN attempts[m] : attempts'[m][k] = attempts[m][k]
        /\ \A k \in Messages \ {m} : attempts'[k] = attempts[k]
    BY <1>2, <2>1 DEF OutboxInv, OutboxTypeOK
  <2>3. \A k \in Messages : attempts'[k] \in [DOMAIN attempts'[k] -> Outcomes]
    BY <1>2, <2>1 DEF OutboxInv, OutboxTypeOK
  <2>4. OutboxTypeOK'
    <3>1. ASSUME NEW e \in Deliverers PROVE IsTask(stage[e], task[e])'
      <4>1. CASE e = d
        BY <1>1, <2>1, <4>1 DEF OutboxInv, OutboxTypeOK, Proceed, IsTask
      <4>2. CASE e # d
        BY <2>1, <4>2 DEF OutboxInv, OutboxTypeOK, Proceed, IsTask
      <4> QED BY <4>1, <4>2
    <3> QED BY <1>1, <2>1, <2>2, <2>3, <3>1 DEF OutboxInv, OutboxTypeOK, Proceed, messageVars, bounds
  <2>5. Grows
    <3>1. \A k \in Messages : /\ DOMAIN attempts[k] \subseteq DOMAIN attempts'[k]
                              /\ \A i \in DOMAIN attempts[k] : attempts'[k][i] = attempts[k][i]
      BY <2>2
    <3> QED BY <1>1, <3>1 DEF OutboxInv, OutboxTypeOK, Grows, messageVars, bounds, Numbers
  <2>6. ASSUME NEW e \in Deliverers PROVE TaskTrue(e)'
    <3>1. CASE e = d
      <4>1. stage'[d] = "mark" /\ task'[d] = c
        BY <2>1 DEF Proceed, OutboxInv, OutboxTypeOK
      <4>2. /\ n <= attemptCount[m] + 1 /\ n <= Limit
            /\ d \in current => n = attemptCount[m] + 1
            /\ c.outcome = "RETRYABLE_FAILURE" => n < MaxAttempts
        BY <1>1 DEF OutboxInv, TaskTrue, Numbered
      <4>3. attemptCount' = attemptCount /\ Limit' = Limit /\ current' = current
        BY <1>1, <2>1 DEF messageVars, bounds, Limit
      <4> QED BY <2>2, <3>1, <4>1, <4>2, <4>3 DEF TaskTrue, Numbered
    <3>2. CASE e # d
      <4>1. Untouched(e)
        BY <1>1, <2>1, <3>2, OthersUntouched DEF OutboxInv, messageVars
      <4> QED BY <2>5, <4>1, UntouchedStays DEF OutboxInv
    <3> QED BY <3>1, <3>2
  <2>7. \A k \in Messages : MessageTrue(k)'
    BY <1>1 DEF OutboxInv, MessageTrue, messageVars, Limit, bounds
  <2>8. /\ n = attemptCount[m] + 1 /\ n <= Limit /\ n >= 1 /\ n \in Int
        /\ attemptCount[m] \in Int /\ attemptCount[m] >= 0
        /\ DOMAIN attempts[m] = 1..attemptCount[m]
    <3>1. n <= attemptCount[m] + 1 /\ n <= Limit /\ n \in Int /\ n >= 1
      BY <1>1, <1>2, NumbersAreInt DEF OutboxInv, TaskTrue, Numbered
    <3>2. DOMAIN attempts[m] \in {1..attemptCount[m], 1..(attemptCount[m] + 1)}
      BY <1>2 DEF OutboxInv, AttemptsCounted
    <3>3. attemptCount[m] \in Int /\ attemptCount[m] >= 0
      BY <1>2, NumbersAreInt DEF OutboxInv, OutboxTypeOK
    <3> QED BY <2>1, <3>1, <3>2, <3>3
  <2>9. AttemptsCounted'
    <3>1. DOMAIN attempts'[m] = 1..(attemptCount[m] + 1)
      BY <2>2, <2>8
    <3>2. DOMAIN attempts'[m] \subseteq 1..(MaxAttempts + retries)
      <4>1. attemptCount[m] + 1 <= MaxAttempts + retries /\ retries \in Int /\ MaxAttempts \in Int
        BY <2>8, NumbersAreInt DEF Limit, OutboxInv, OutboxTypeOK
      <4> QED BY <2>8, <3>1, <4>1
    <3> QED BY <1>1, <2>2, <3>1, <3>2 DEF OutboxInv, AttemptsCounted, messageVars, bounds
  <2>10. StatusTellsAttempt'
    BY <1>1, <2>2 DEF OutboxInv, StatusTellsAttempt, messageVars
  <2> QED BY <2>4, <2>6, <2>7, <2>9, <2>10 DEF OutboxInv
<1> QED BY <1>3, <1>4

LEMMA StatusAfterOutcome ==
    ASSUME NEW outcome \in Outcomes
    PROVE  /\ StatusAfter(outcome) \in {"DELIVERED", "CANCELLED", "DEAD_LETTERED", "RETRY_SCHEDULED"}
           /\ StatusAfter(outcome) \in Outstanding <=> outcome = "RETRYABLE_FAILURE"
<1>1. CASE outcome = "SUCCEEDED"
  BY <1>1 DEF StatusAfter, Outstanding
<1>2. CASE outcome = "SKIPPED"
  BY <1>2 DEF StatusAfter, Outstanding
<1>3. CASE outcome = "PERMANENT_FAILURE"
  BY <1>3 DEF StatusAfter, Outstanding
<1>4. CASE outcome = "RETRYABLE_FAILURE"
  BY <1>4 DEF StatusAfter, Outstanding
<1> QED BY <1>1, <1>2, <1>3, <1>4 DEF Outcomes

LEMMA MarkKeeps ==
    ASSUME OutboxInv, NEW d \in Deliverers, Mark(d) PROVE OutboxInv'
<1> DEFINE c == task[d]
           m == c.message
           n == c.number
<1>1. stage[d] = "mark" /\ UNCHANGED <<notified, emailEnabled, attempts, bounds>>
  BY DEF Mark
<1>2. m \in Messages /\ n \in Numbers /\ c.outcome \in Outcomes
  BY <1>1, TaskShape DEF OutboxInv, Numbered
<1>3. CASE Stop(d) /\ UNCHANGED <<status, due, holder, attemptCount>>
  BY <1>1, <1>3, StopKeeps DEF bounds, messageVars, OutboxInv, OutboxTypeOK
<1>4. CASE ~(Stop(d) /\ UNCHANGED <<status, due, holder, attemptCount>>)
  <2>1. /\ d \in current /\ status[m] \in Outstanding
        /\ status' = [status EXCEPT ![m] = StatusAfter(c.outcome)]
        /\ due' \subseteq due
        /\ holder' = [holder EXCEPT ![m] = NoTask]
        /\ attemptCount' = [attemptCount EXCEPT ![m] = attemptCount[m] + 1]
        /\ Bump(m) /\ Proceed(d, "idle", NoTask)
    BY <1>4 DEF Mark, UpToDate
  <2>2. /\ n = attemptCount[m] + 1 /\ n <= Limit
        /\ c.outcome = "RETRYABLE_FAILURE" => n < MaxAttempts
        /\ n \in DOMAIN attempts[m] /\ attempts[m][n] = c.outcome
    BY <1>1, <2>1 DEF OutboxInv, TaskTrue, Numbered
  <2>3. /\ attemptCount'[m] = n /\ status'[m] = StatusAfter(c.outcome)
        /\ \A k \in Messages \ {m} : status'[k] = status[k] /\ attemptCount'[k] = attemptCount[k]
    BY <1>2, <2>1, <2>2 DEF OutboxInv, OutboxTypeOK
  <2>4. OutboxTypeOK'
    <3>1. ASSUME NEW e \in Deliverers PROVE IsTask(stage[e], task[e])'
      BY <2>1 DEF OutboxInv, OutboxTypeOK, Proceed, IsTask
    <3>2. status' \in [Messages -> {"ABSENT"} \cup Outstanding \cup Ended]
      BY <1>2, <2>1, StatusAfterOutcome DEF OutboxInv, OutboxTypeOK, Outstanding, Ended
    <3>3. attemptCount' \in [Messages -> {0} \cup Numbers]
      BY <1>2, <2>1, <2>2 DEF OutboxInv, OutboxTypeOK
    <3>4. current' \subseteq Deliverers
      BY <2>1 DEF OutboxInv, OutboxTypeOK, Bump
    <3>5. holder' \in [Messages -> Deliverers \cup {NoTask}] /\ due' \subseteq Messages
      BY <2>1 DEF OutboxInv, OutboxTypeOK
    <3>6. /\ stage' \in [Deliverers -> {"idle", "claim", "claimed", "send", "attempt", "mark"}]
          /\ DOMAIN task' = Deliverers
      BY <2>1 DEF OutboxInv, OutboxTypeOK, Proceed
    <3>7. /\ notified' \subseteq Events /\ emailEnabled' \in [Events -> BOOLEAN]
          /\ DOMAIN attempts' = Messages
          /\ \A k \in Messages : attempts'[k] \in [DOMAIN attempts'[k] -> Outcomes]
          /\ retries' \in 0..MaxRetries /\ crashes' \in 0..MaxCrashes
      BY <1>1 DEF OutboxInv, OutboxTypeOK, bounds
    <3> QED BY <3>1, <3>2, <3>3, <3>4, <3>5, <3>6, <3>7 DEF OutboxTypeOK
  <2>5. Grows
    <3>1. ASSUME NEW k \in Messages
          PROVE  attemptCount[k] <= attemptCount'[k] /\ attemptCount'[k] \in {0} \cup Numbers
      <4>1. attemptCount[k] \in {0} \cup Numbers
        BY DEF OutboxInv, OutboxTypeOK
      <4> QED BY <1>2, <2>2, <2>3, <4>1, NumbersAreInt
    <3>2. retries' \in 0..MaxRetries /\ retries <= retries' /\ attempts' = attempts
      BY <1>1 DEF bounds, OutboxInv, OutboxTypeOK
    <3> QED BY <3>1, <3>2 DEF Grows
  <2>6. ASSUME NEW e \in Deliverers PROVE TaskTrue(e)'
    <3>1. CASE e = d
      BY <2>1, <3>1 DEF Proceed, TaskTrue, Numbered, OutboxInv, OutboxTypeOK
    <3>2. CASE e # d
      <4>1. stage'[e] = stage[e] /\ task'[e] = task[e]
        BY <2>1, <3>2 DEF Proceed, OutboxInv, OutboxTypeOK
      <4>2. Untouched(e)
        BY <1>2, <2>1, <2>3, <4>1, BumpedUntouched DEF OutboxInv
      <4> QED BY <2>5, <4>2, UntouchedStays DEF OutboxInv
    <3> QED BY <3>1, <3>2
  <2>7. ASSUME NEW k \in Messages PROVE MessageTrue(k)'
    <3>1. CASE k = m
      <4>1. status[m] # "ABSENT" /\ m[1] \in notified
        BY <1>2, <2>1 DEF OutboxInv, MessageTrue, Outstanding
      <4>2. status'[m] # "ABSENT" /\ (status'[m] \in Outstanding => n < MaxAttempts)
        BY <1>2, <2>2, <2>3, StatusAfterOutcome
      <4>3. n < MaxAttempts => n < Limit
        BY <1>2, NumbersAreInt DEF Limit, OutboxInv, OutboxTypeOK
      <4>4. Limit' = Limit
        BY <1>1 DEF Limit, bounds
      <4> QED BY <1>1, <2>2, <2>3, <3>1, <4>1, <4>2, <4>3, <4>4 DEF MessageTrue
    <3>2. CASE k # m
      BY <1>1, <2>3, <3>2 DEF OutboxInv, MessageTrue, Limit, bounds
    <3> QED BY <3>1, <3>2
  <2>8. AttemptsCounted'
    <3>1. /\ DOMAIN attempts[m] \in {1..attemptCount[m], 1..(attemptCount[m] + 1)}
          /\ attemptCount[m] \in Int
      BY <1>2, NumbersAreInt DEF OutboxInv, AttemptsCounted, OutboxTypeOK
    <3>2. DOMAIN attempts[m] = 1..attemptCount'[m]
      BY <2>2, <2>3, <3>1
    <3> QED BY <1>1, <2>3, <3>2 DEF OutboxInv, AttemptsCounted, bounds
  <2>9. StatusTellsAttempt'
    BY <1>1, <2>2, <2>3 DEF OutboxInv, StatusTellsAttempt
  <2> QED BY <2>4, <2>6, <2>7, <2>8, <2>9 DEF OutboxInv
<1> QED BY <1>3, <1>4

\* A message that changes hands, neither ended nor attempted meanwhile.
LEMMA HandedOnKeeps ==
    ASSUME OutboxInv, NEW m \in Messages, NEW to \in Outstanding,
           status' = [status EXCEPT ![m] = to],
           holder' \in [Messages -> Deliverers \cup {NoTask}], due' \subseteq Messages,
           Bump(m), UNCHANGED <<notified, emailEnabled, attempts, attemptCount, crashes>>,
           retries' \in 0..MaxRetries, retries <= retries',
           attemptCount[m] < MaxAttempts + retries', m[1] \in notified,
           \A d \in Deliverers : IsTask(stage[d], task[d])',
           stage' \in [Deliverers -> {"idle", "claim", "claimed", "send", "attempt", "mark"}],
           DOMAIN task' = Deliverers,
           \A d \in Deliverers : \/ stage'[d] = stage[d] /\ task'[d] = task[d]
                                 \/ stage'[d] = "claimed"
    PROVE  OutboxInv'
<1>0. retries \in Int /\ retries' \in Int /\ MaxAttempts \in Int
  BY NumbersAreInt DEF OutboxInv, OutboxTypeOK
<1>1. OutboxTypeOK'
  <2>1. current' \subseteq Deliverers
    BY DEF OutboxInv, OutboxTypeOK, Bump
  <2>2. status' \in [Messages -> {"ABSENT"} \cup Outstanding \cup Ended]
    BY DEF OutboxInv, OutboxTypeOK
  <2> QED BY <2>1, <2>2 DEF OutboxInv, OutboxTypeOK
<1>2. Grows
  BY DEF OutboxInv, OutboxTypeOK, Grows, Numbers
<1>3. status'[m] = to /\ \A k \in Messages \ {m} : status'[k] = status[k]
  BY DEF OutboxInv, OutboxTypeOK
<1>4. ASSUME NEW d \in Deliverers PROVE TaskTrue(d)'
  <2>1. CASE stage'[d] = stage[d] /\ task'[d] = task[d]
    <3>1. Untouched(d)
      BY <1>3, <2>1, BumpedUntouched DEF OutboxInv
    <3> QED BY <1>2, <3>1, UntouchedStays DEF OutboxInv
  <2>2. CASE stage'[d] = "claimed"
    BY <2>2 DEF TaskTrue, Numbered
  <2> QED BY <2>1, <2>2
<1>5. ASSUME NEW k \in Messages PROVE MessageTrue(k)'
  <2>1. attemptCount[k] \in Int /\ attemptCount[k] <= MaxAttempts + retries'
    BY <1>0, NumbersAreInt DEF OutboxInv, OutboxTypeOK, MessageTrue, Limit
  <2>2. CASE k = m
    BY <1>0, <1>3, <2>1, <2>2 DEF MessageTrue, Limit
  <2>3. CASE k # m
    BY <1>0, <1>3, <2>1, <2>3 DEF OutboxInv, MessageTrue, Limit
  <2> QED BY <2>2, <2>3
<1>6. AttemptsCounted'
  <2> SUFFICES ASSUME NEW k \in Messages
               PROVE  DOMAIN attempts[k] \subseteq 1..(MaxAttempts + retries')
    BY DEF OutboxInv, AttemptsCounted
  <2>1. DOMAIN attempts[k] \subseteq 1..(MaxAttempts + retries)
    BY DEF OutboxInv, AttemptsCounted
  <2> QED BY <1>0, <2>1
<1>7. StatusTellsAttempt'
  BY <1>3 DEF OutboxInv, StatusTellsAttempt, Outstanding, Ended
<1> QED BY <1>1, <1>4, <1>5, <1>6, <1>7 DEF OutboxInv

LEMMA ClaimKeeps ==
    ASSUME OutboxInv, NEW d \in Deliverers, Claim(d) PROVE OutboxInv'
<1>1. stage[d] = "claim"
      /\ UNCHANGED <<notified, due, attemptCount, emailEnabled, attempts, bounds>>
  BY DEF Claim
<1>2. PICK m \in Messages : m = task[d].message
  BY <1>1, TaskShape DEF OutboxInv
<1>3. CASE Stop(d) /\ UNCHANGED <<status, holder>>
  BY <1>1, <1>3, StopKeeps DEF messageVars, bounds, OutboxInv, OutboxTypeOK
<1>4. CASE ~(Stop(d) /\ UNCHANGED <<status, holder>>)
  <2>1. /\ d \in current /\ status' = [status EXCEPT ![m] = "PROCESSING"]
        /\ holder' = [holder EXCEPT ![m] = d] /\ Bump(m) /\ Proceed(d, "claimed", task[d])
    BY <1>2, <1>4 DEF Claim, UpToDate
  <2>2. status[m] \in Waiting
    BY <1>1, <1>2, <2>1 DEF OutboxInv, TaskTrue
  <2>3. /\ m[1] \in notified /\ attemptCount[m] < MaxAttempts + retries
        /\ retries' = retries /\ retries \in 0..MaxRetries /\ retries \in Int
    BY <1>1, <1>2, <2>2 DEF OutboxInv, OutboxTypeOK, MessageTrue, Waiting, Outstanding, Limit, bounds
  <2>4. holder' \in [Messages -> Deliverers \cup {NoTask}] /\ due' \subseteq Messages
    BY <1>1, <2>1 DEF OutboxInv, OutboxTypeOK
  <2>5. /\ stage' = [stage EXCEPT ![d] = "claimed"] /\ task' = [task EXCEPT ![d] = task[d]]
    BY <2>1 DEF Proceed
  <2>6. ASSUME NEW e \in Deliverers PROVE IsTask(stage[e], task[e])'
    <3>1. IsTask(stage[e], task[e]) /\ task'[e] = task[e]
      BY <2>5 DEF OutboxInv, OutboxTypeOK
    <3>2. CASE e = d
      <4>1. stage'[e] = "claimed" /\ task[e] \in [message : Messages]
        BY <1>1, <2>5, <3>1, <3>2 DEF IsTask, OutboxInv, OutboxTypeOK
      <4> QED BY <3>1, <4>1 DEF IsTask
    <3>3. CASE e # d
      BY <2>5, <3>1, <3>3 DEF OutboxInv, OutboxTypeOK
    <3> QED BY <3>2, <3>3
  <2>7. /\ stage' \in [Deliverers -> {"idle", "claim", "claimed", "send", "attempt", "mark"}]
        /\ DOMAIN task' = Deliverers
        /\ \A e \in Deliverers : \/ stage'[e] = stage[e] /\ task'[e] = task[e]
                                 \/ stage'[e] = "claimed"
    BY <2>5 DEF OutboxInv, OutboxTypeOK
  <2>8. "PROCESSING" \in Outstanding
    BY DEF Outstanding
  <2>9. /\ UNCHANGED <<notified, emailEnabled, attempts, attemptCount, crashes>>
        /\ retries' \in 0..MaxRetries /\ retries <= retries'
        /\ attemptCount[m] < MaxAttempts + retries'
    BY <1>1, <2>3 DEF bounds
  <2>10. Bump(m) /\ status' = [status EXCEPT ![m] = "PROCESSING"]
    BY <2>1
  <2> QED BY <2>3, <2>4, <2>6, <2>7, <2>8, <2>9, <2>10, HandedOnKeeps
<1> QED BY <1>3, <1>4

LEMMA RescheduleKeeps ==
    ASSUME OutboxInv, NEW m \in Messages, status[m] # "ABSENT", Reschedule(m),
           \/ status[m] = "PROCESSING" /\ retries' = retries
           \/ retries < MaxRetries /\ retries' = retries + 1
    PROVE  OutboxInv'
<1>1. retries' \in 0..MaxRetries /\ retries <= retries'
  BY NumbersAreInt DEF OutboxInv, OutboxTypeOK
<1>2. attemptCount[m] < MaxAttempts + retries' /\ m[1] \in notified
  <2>1. /\ m[1] \in notified /\ attemptCount[m] \in Int /\ retries \in Int /\ MaxAttempts \in Int
        /\ attemptCount[m] <= MaxAttempts + retries
        /\ status[m] = "PROCESSING" => attemptCount[m] < MaxAttempts + retries
    BY NumbersAreInt DEF OutboxInv, OutboxTypeOK, MessageTrue, Outstanding, Limit
  <2> QED BY <2>1
<1>3. /\ status' = [status EXCEPT ![m] = "RETRY_SCHEDULED"] /\ "RETRY_SCHEDULED" \in Outstanding
      /\ holder' \in [Messages -> Deliverers \cup {NoTask}] /\ due' \subseteq Messages
      /\ Bump(m) /\ UNCHANGED <<notified, emailEnabled, attempts, attemptCount, crashes, stage, task>>
  BY DEF Reschedule, OutboxInv, OutboxTypeOK, Outstanding
<1>4. /\ \A d \in Deliverers : IsTask(stage[d], task[d])'
      /\ stage' \in [Deliverers -> {"idle", "claim", "claimed", "send", "attempt", "mark"}]
      /\ DOMAIN task' = Deliverers
      /\ \A d \in Deliverers : stage'[d] = stage[d] /\ task'[d] = task[d]
  BY <1>3 DEF OutboxInv, OutboxTypeOK, IsTask
<1> QED BY <1>1, <1>2, <1>3, <1>4, HandedOnKeeps

\* Steps that leave every message that exists, and every deliverer, alone.
LEMMA AsideKeeps ==
    ASSUME OutboxInv, NEW new \in SUBSET Messages,
           \A m \in new : m[1] \notin notified /\ m[1] \in notified',
           status' = [m \in Messages |-> IF m \in new THEN "PENDING" ELSE status[m]],
           notified \subseteq notified', notified' \subseteq Events,
           emailEnabled' \in [Events -> BOOLEAN], due' \subseteq Messages,
           UNCHANGED <<holder, attemptCount, attempts, current, stage, task, bounds>>
    PROVE  OutboxInv'
<1>0. \A m \in new : status[m] = "ABSENT"
  BY DEF OutboxInv, MessageTrue
<1>1. OutboxTypeOK'
  <2>1. status' \in [Messages -> {"ABSENT"} \cup Outstanding \cup Ended]
    BY DEF OutboxInv, OutboxTypeOK, Outstanding
  <2>2. \A d \in Deliverers : IsTask(stage[d], task[d])'
    BY DEF OutboxInv, OutboxTypeOK, IsTask
  <2> QED BY <2>1, <2>2 DEF OutboxInv, OutboxTypeOK, bounds
<1>2. \A d \in Deliverers : TaskTrue(d)'
  <2> SUFFICES ASSUME NEW d \in Deliverers, stage[d] = "claim", d \in current
               PROVE  status'[task[d].message] \in Waiting
    BY DEF OutboxInv, TaskTrue, Limit, bounds
  <2>1. task[d].message \in Messages /\ status[task[d].message] \in Waiting
    BY TaskShape DEF OutboxInv, TaskTrue
  <2> QED BY <1>0, <2>1 DEF Waiting
<1>3. \A m \in Messages : MessageTrue(m)'
  BY <1>0 DEF OutboxInv, MessageTrue, Limit, bounds, Outstanding
<1>4. AttemptsCounted'
  BY DEF OutboxInv, AttemptsCounted, bounds
<1>5. StatusTellsAttempt'
  BY DEF OutboxInv, StatusTellsAttempt, Ended
<1> QED BY <1>1, <1>2, <1>3, <1>4, <1>5 DEF OutboxInv

LEMMA NothingNewKeeps ==
    ASSUME OutboxInv, status' = status, notified' = notified, notified \subseteq Events,
           emailEnabled' \in [Events -> BOOLEAN], due' \subseteq Messages,
           UNCHANGED <<holder, attemptCount, attempts, current, stage, task, bounds>>
    PROVE  OutboxInv'
<1>1. PICK new \in SUBSET Messages : new = {}
  OBVIOUS
<1>2. status' = [m \in Messages |-> IF m \in new THEN "PENDING" ELSE status[m]]
  BY <1>1 DEF OutboxInv, OutboxTypeOK
<1>3. \A m \in new : m[1] \notin notified /\ m[1] \in notified'
  BY <1>1
<1>4. notified \subseteq notified' /\ notified' \subseteq Events
  OBVIOUS
<1> QED BY <1>2, <1>3, <1>4, AsideKeeps

-----------------------------------------------------------------------------
LEMMA OutboxInitially == OutboxInit => OutboxInv
<1> SUFFICES ASSUME OutboxInit PROVE OutboxInv
  OBVIOUS
<1>1. \A m \in Messages : /\ status[m] = "ABSENT" /\ attemptCount[m] = 0
                          /\ attempts[m] = <<>> /\ DOMAIN attempts[m] = {} /\ DOMAIN attempts[m] = 1..0
  BY DEF OutboxInit
<1>2. retries = 0 /\ MaxAttempts \in Int /\ MaxAttempts >= 1
  BY BoundsAssumption DEF OutboxInit
<1>3. OutboxTypeOK
  <2>1. \A m \in Messages : attempts[m] \in [DOMAIN attempts[m] -> Outcomes]
    <3>1. <<>> \in [1..Len(<<>>) -> Outcomes] /\ Len(<<>>) = 0
      BY EmptySeq, LenProperties
    <3> QED BY <1>1, <3>1
  <2>2. retries \in 0..MaxRetries /\ crashes \in 0..MaxCrashes
    BY BoundsAssumption DEF OutboxInit
  <2> QED BY <2>1, <2>2 DEF OutboxInit, OutboxTypeOK, IsTask
<1>4. \A d \in Deliverers : TaskTrue(d)
  BY DEF OutboxInit, TaskTrue, Numbered
<1>5. \A m \in Messages : MessageTrue(m)
  BY <1>1, <1>2 DEF MessageTrue, Limit
<1>6. AttemptsCounted
  <2> SUFFICES ASSUME NEW m \in Messages
               PROVE  /\ DOMAIN attempts[m] \in {1..attemptCount[m], 1..(attemptCount[m] + 1)}
                      /\ DOMAIN attempts[m] \subseteq 1..(MaxAttempts + retries)
    BY DEF AttemptsCounted
  <2>1. attemptCount[m] = 0 /\ DOMAIN attempts[m] = 1..0 /\ DOMAIN attempts[m] = {}
    BY <1>1
  <2> QED BY <2>1
<1>7. StatusTellsAttempt
  BY <1>1 DEF StatusTellsAttempt, Ended
<1> QED BY <1>3, <1>4, <1>5, <1>6, <1>7 DEF OutboxInv

LEMMA OutboxKeepsInv == OutboxInv /\ [OutboxNext]_outboxVars => OutboxInv'
<1> SUFFICES ASSUME OutboxInv, [OutboxNext]_outboxVars PROVE OutboxInv'
  OBVIOUS
<1>1. ASSUME NEW d \in Deliverers, NEW m \in Messages, ListDue(d, m) PROVE OutboxInv'
  BY <1>1, ListDueKeeps
<1>2. ASSUME NEW d \in Deliverers, Work(d) PROVE OutboxInv'
  BY <1>2, ClaimKeeps, BeginDeliveryKeeps, SendKeeps, AppendKeeps, MarkKeeps DEF Work
<1>3. ASSUME NEW d \in Deliverers, Crash(d) PROVE OutboxInv'
  BY <1>3, CrashKeeps
<1>4. ASSUME NEW e \in Events, CreateNotification(e) PROVE OutboxInv'
  <2>1. PICK new \in SUBSET Messages :
            /\ \A m \in new : m[1] = e
            /\ status' = [m \in Messages |-> IF m \in new THEN "PENDING" ELSE status[m]]
            /\ due' = due \cup new
    <3> DEFINE new == {<<e, "IN_APP">>} \cup (IF emailEnabled[e] THEN {<<e, "EMAIL">>} ELSE {})
    <3>1. new \subseteq Messages /\ \A m \in new : m[1] = e
      BY DEF Messages
    <3> QED BY <1>4, <3>1 DEF CreateNotification
  <2>2. /\ e \notin notified /\ notified' = notified \cup {e} /\ emailEnabled' = emailEnabled
        /\ UNCHANGED <<holder, attemptCount, attempts, current, stage, task, bounds>>
    BY <1>4 DEF CreateNotification
  <2>3. /\ notified \subseteq Events /\ emailEnabled \in [Events -> BOOLEAN] /\ due \subseteq Messages
    BY DEF OutboxInv, OutboxTypeOK
  <2> QED BY <2>1, <2>2, <2>3, AsideKeeps
<1>5. ASSUME NEW e \in Events, UpdatePreference(e) PROVE OutboxInv'
  <2>1. emailEnabled' \in [Events -> BOOLEAN]
    BY <1>5, Zenon DEF UpdatePreference, OutboxInv, OutboxTypeOK
  <2>2. /\ status' = status
        /\ notified' = notified /\ notified \subseteq Events /\ due' \subseteq Messages
        /\ UNCHANGED <<holder, attemptCount, attempts, current, stage, task, bounds>>
    BY <1>5 DEF UpdatePreference, messageVars, OutboxInv, OutboxTypeOK
  <2> QED BY <2>1, <2>2, NothingNewKeeps
<1>6. ASSUME NEW m \in Messages, BecomeDue(m) PROVE OutboxInv'
  <2>1. /\ status' = status
        /\ notified' = notified /\ notified \subseteq Events /\ due' \subseteq Messages
        /\ emailEnabled' \in [Events -> BOOLEAN]
        /\ UNCHANGED <<holder, attemptCount, attempts, current, stage, task, bounds>>
    BY <1>6 DEF BecomeDue, OutboxInv, OutboxTypeOK, bounds
  <2> QED BY <2>1, NothingNewKeeps
<1>7. ASSUME NEW m \in Messages, ReleaseExpired(m) PROVE OutboxInv'
  BY <1>7, RescheduleKeeps DEF ReleaseExpired
<1>8. ASSUME NEW m \in Messages, AdminRetry(m) PROVE OutboxInv'
  BY <1>8, RescheduleKeeps DEF AdminRetry, Retried
<1>9. CASE UNCHANGED outboxVars
  <2>1. OutboxTypeOK' /\ AttemptsCounted' /\ StatusTellsAttempt'
    BY <1>9 DEF outboxVars, messageVars, bounds, OutboxInv, OutboxTypeOK, AttemptsCounted, StatusTellsAttempt, IsTask
  <2>2. (\A d \in Deliverers : TaskTrue(d)') /\ \A m \in Messages : MessageTrue(m)'
    BY <1>9 DEF outboxVars, messageVars, bounds, OutboxInv, TaskTrue, MessageTrue, Limit
  <2> QED BY <2>1, <2>2 DEF OutboxInv
<1> QED BY <1>1, <1>2, <1>3, <1>4, <1>5, <1>6, <1>7, <1>8, <1>9 DEF OutboxNext

LEMMA OutboxSafe == OutboxSpec => []OutboxInv
BY OutboxInitially, OutboxKeepsInv, PTL DEF OutboxSpec

\* The messages, the attempts and the deliverers keep their types.
THEOREM OutboxTypeCorrect == OutboxSpec => []OutboxTypeOK
<1>1. OutboxInv => OutboxTypeOK
  BY DEF OutboxInv
<1> QED BY <1>1, OutboxSafe, PTL

\* The attempts of a message are numbered without a gap and within the limit of
\* the policy and the administrators' retries, whoever makes them (deliver).
THEOREM AttemptsAreCounted == OutboxSpec => []AttemptsCounted
<1>1. OutboxInv => AttemptsCounted
  BY DEF OutboxInv
<1> QED BY <1>1, OutboxSafe, PTL

\* A message ends as its last counted attempt did (transition).
THEOREM StatusTells == OutboxSpec => []StatusTellsAttempt
<1>1. OutboxInv => StatusTellsAttempt
  BY DEF OutboxInv
<1> QED BY <1>1, OutboxSafe, PTL

-----------------------------------------------------------------------------
\* Only a claim puts a message into PROCESSING, and only one that was waiting.
LEMMA StepKeepsClaims ==
    ASSUME OutboxInv, [OutboxNext]_outboxVars, NEW m \in Messages
    PROVE  /\ status[m] = "PROCESSING" /\ status'[m] = "PROCESSING" => holder'[m] = holder[m]
           /\ status[m] = "DELIVERED" => status'[m] = "DELIVERED"
<1>1. ASSUME NEW k \in Messages, Reschedule(k), status[k] # "DELIVERED"
      PROVE  /\ status'[m] = "PROCESSING" => holder'[m] = holder[m]
             /\ status[m] = "DELIVERED" => status'[m] = "DELIVERED"
  BY <1>1 DEF Reschedule, OutboxInv, OutboxTypeOK
<1>2. ASSUME NEW d \in Deliverers, Claim(d)
      PROVE  /\ status[m] = "PROCESSING" /\ status'[m] = "PROCESSING" => holder'[m] = holder[m]
             /\ status[m] = "DELIVERED" => status'[m] = "DELIVERED"
  <2>1. d \in current => status[task[d].message] \in Waiting
    BY <1>2 DEF Claim, OutboxInv, TaskTrue
  <2> QED BY <1>2, <2>1 DEF Claim, UpToDate, Waiting, OutboxInv, OutboxTypeOK
<1>3. ASSUME NEW d \in Deliverers, Mark(d)
      PROVE  /\ status[m] = "PROCESSING" /\ status'[m] = "PROCESSING" => holder'[m] = holder[m]
             /\ status[m] = "DELIVERED" => status'[m] = "DELIVERED"
  <2>1. task[d].outcome \in Outcomes
    BY <1>3, TaskShape DEF Mark, OutboxInv
  <2>2. StatusAfter(task[d].outcome) # "PROCESSING"
    BY <2>1, StatusAfterOutcome
  <2> QED BY <1>3, <2>2 DEF Mark, Outstanding, OutboxInv, OutboxTypeOK
<1>4. ASSUME NEW e \in Events, CreateNotification(e)
      PROVE  /\ holder'[m] = holder[m]
             /\ status[m] = "DELIVERED" => status'[m] = "DELIVERED"
  <2>1. status[m] # "ABSENT" => m[1] # e
    BY <1>4 DEF CreateNotification, OutboxInv, MessageTrue
  <2>2. status[m] # "ABSENT" => status'[m] = status[m]
    BY <1>4, <2>1 DEF CreateNotification
  <2> QED BY <1>4, <2>2 DEF CreateNotification
<1>5. ASSUME \/ \E d \in Deliverers : \/ BeginDelivery(d) \/ Send(d) \/ AppendAttempt(d) \/ Crash(d)
                                      \/ \E k \in Messages : ListDue(d, k)
             \/ \E e \in Events : UpdatePreference(e)
             \/ \E k \in Messages : BecomeDue(k)
             \/ UNCHANGED outboxVars
      PROVE  status' = status /\ holder' = holder
  BY <1>5 DEF BeginDelivery, Send, AppendAttempt, Crash, ListDue, UpdatePreference, BecomeDue,
              outboxVars, messageVars
<1> QED BY <1>1, <1>2, <1>3, <1>4, <1>5 DEF OutboxNext, Work, ReleaseExpired, AdminRetry, Retried

\* No message is claimed while a claim on it lasts (claimPendingMessages).
THEOREM ClaimsAreExclusive == OutboxSpec => ClaimsDoNotOverlap
<1>1. OutboxInv /\ [OutboxNext]_outboxVars =>
          [\A m \in Messages : status[m] = "PROCESSING" /\ status'[m] = "PROCESSING"
                                   => holder'[m] = holder[m]]_outboxVars
  BY StepKeepsClaims
<1> QED BY <1>1, OutboxSafe, PTL DEF OutboxSpec, ClaimsDoNotOverlap

\* A delivered message is never taken up again, by whichever deliverer is late.
THEOREM DeliveredForGood == OutboxSpec => DeliveredStays
<1>1. OutboxInv /\ [OutboxNext]_outboxVars =>
          [\A m \in Messages : status[m] = "DELIVERED" => status'[m] = "DELIVERED"]_outboxVars
  BY StepKeepsClaims
<1> QED BY <1>1, OutboxSafe, PTL DEF OutboxSpec, DeliveredStays

-----------------------------------------------------------------------------
(* A torn message is torn for good.                                          *)

\* An attempt that is not counted yet, and a deliverer that has the next number,
\* belong to a message that has not ended.
LeadsOpen ==
    /\ \A d \in Deliverers :
          stage[d] \in Numbered /\ task[d].number = attemptCount[task[d].message] + 1
              => status[task[d].message] \in Outstanding
    /\ \A m \in Messages :
          attemptCount[m] + 1 \in DOMAIN attempts[m] => status[m] \in Outstanding

\* What a step does to a message: it counts the attempt of a deliverer that is up
\* to date, or it ends nothing.
Counts(m) ==
    /\ \E d \in current : /\ stage[d] = "mark" /\ task[d].message = m
    /\ attemptCount'[m] = attemptCount[m] + 1
    /\ attempts' = attempts

EndsNothing(m) ==
    /\ attemptCount'[m] = attemptCount[m]
    /\ status[m] \in Outstanding => status'[m] \in Outstanding

LEMMA CountsOrEndsNothing ==
    ASSUME OutboxInv, OutboxNext, NEW m \in Messages
    PROVE  Counts(m) \/ EndsNothing(m)
<1>1. ASSUME NEW k \in Messages, Reschedule(k) PROVE EndsNothing(m)
  BY <1>1 DEF Reschedule, EndsNothing, Outstanding, OutboxInv, OutboxTypeOK
<1>2. ASSUME NEW d \in Deliverers, Claim(d) PROVE EndsNothing(m)
  BY <1>2 DEF Claim, EndsNothing, Outstanding, OutboxInv, OutboxTypeOK
<1>3. ASSUME NEW d \in Deliverers, Mark(d) PROVE Counts(m) \/ EndsNothing(m)
  BY <1>3 DEF Mark, UpToDate, Counts, EndsNothing, OutboxInv, OutboxTypeOK
<1>4. ASSUME NEW e \in Events, CreateNotification(e) PROVE EndsNothing(m)
  BY <1>4 DEF CreateNotification, EndsNothing, Outstanding
<1>5. ASSUME \/ \E d \in Deliverers : \/ BeginDelivery(d) \/ Send(d) \/ AppendAttempt(d) \/ Crash(d)
                                      \/ \E k \in Messages : ListDue(d, k)
             \/ \E e \in Events : UpdatePreference(e)
             \/ \E k \in Messages : BecomeDue(k)
      PROVE  EndsNothing(m)
  BY <1>5 DEF BeginDelivery, Send, AppendAttempt, Crash, ListDue, UpdatePreference, BecomeDue,
              messageVars, EndsNothing
<1> QED BY <1>1, <1>2, <1>3, <1>4, <1>5 DEF OutboxNext, Work, ReleaseExpired, AdminRetry

\* A deliverer goes on with its number, or takes one of a message that is open.
Continues(d) ==
    /\ stage[d] \in Numbered
    /\ task'[d].message = task[d].message /\ task'[d].number = task[d].number

LEMMA WhereNumbersComeFrom ==
    ASSUME OutboxInv, OutboxNext, NEW d \in Deliverers, stage'[d] \in Numbered
    PROVE  \/ Continues(d)
           \/ status[task'[d].message] \in Outstanding /\ UNCHANGED <<status, attemptCount>>
<1>0. DOMAIN task = Deliverers /\ DOMAIN stage = Deliverers
  BY DEF OutboxInv, OutboxTypeOK
<1>1. ASSUME NEW e \in Deliverers, e # d, NEW step, NEW c, Proceed(e, step, c) PROVE Continues(d)
  BY <1>0, <1>1 DEF Proceed, Continues
<1>2. ASSUME NEW e \in Deliverers, NEW c, Proceed(e, "idle", c) \/ Proceed(e, "claim", c) \/ Proceed(e, "claimed", c)
      PROVE  Continues(d)
  <2>1. e # d
    BY <1>0, <1>2 DEF Proceed, Numbered
  <2> QED BY <1>1, <1>2, <2>1
<1>3. ASSUME NEW e \in Deliverers, BeginDelivery(e)
      PROVE  \/ Continues(d)
             \/ status[task'[d].message] \in Outstanding /\ UNCHANGED <<status, attemptCount>>
  <2>1. CASE e # d
    BY <1>1, <1>3, <2>1 DEF BeginDelivery, Stop
  <2>2. CASE e = d
    <3>1. ~Stop(d)
      BY <1>2, <1>3, <2>2, <1>0 DEF Stop, Proceed, Numbered
    <3>2. status[task[d].message] \in Outstanding /\ UNCHANGED <<status, attemptCount>>
      BY <1>3, <2>2, <3>1 DEF BeginDelivery, Deliverable, messageVars
    <3>3. task'[d].message = task[d].message
      BY <1>0, <1>3, <2>2, <3>1 DEF BeginDelivery, Proceed
    <3> QED BY <3>2, <3>3
  <2> QED BY <2>1, <2>2
<1>4. ASSUME NEW e \in Deliverers, Send(e) PROVE Continues(d)
  <2>1. CASE e # d
    BY <1>1, <1>4, <2>1 DEF Send
  <2>2. CASE e = d
    BY <1>0, <1>4, <2>2 DEF Send, Proceed, Continues, Numbered
  <2> QED BY <2>1, <2>2
<1>5. ASSUME NEW e \in Deliverers, AppendAttempt(e) PROVE Continues(d)
  <2>1. CASE Stop(e)
    BY <1>2, <2>1 DEF Stop
  <2>2. CASE ~Stop(e)
    <3>1. stage[e] = "attempt" /\ Proceed(e, "mark", task[e])
      BY <1>5, <2>2 DEF AppendAttempt
    <3> QED BY <1>0, <1>1, <3>1 DEF Proceed, Continues, Numbered
  <2> QED BY <2>1, <2>2
<1>6. ASSUME NEW e \in Deliverers, Claim(e) \/ Mark(e) \/ Crash(e) \/ \E k \in Messages : ListDue(e, k)
      PROVE  Continues(d)
  BY <1>2, <1>6 DEF Claim, Mark, Crash, ListDue, Stop
<1>7. ASSUME UNCHANGED <<stage, task>> PROVE Continues(d)
  BY <1>7 DEF Continues
<1> QED
  BY <1>3, <1>4, <1>5, <1>6, <1>7 DEF OutboxNext, Work, CreateNotification, UpdatePreference,
     BecomeDue, ReleaseExpired, AdminRetry, Reschedule

\* An attempt that appears is that of a deliverer at its "attempt", whose number
\* was free.
Appends(d) ==
    /\ stage[d] = "attempt" /\ task'[d] = task[d]
    /\ task[d].number \notin DOMAIN attempts[task[d].message]
    /\ UNCHANGED <<status, attemptCount, current>>

LEMMA WhoAppends ==
    ASSUME OutboxInv, OutboxNext, NEW m \in Messages
    PROVE  /\ DOMAIN attempts[m] \subseteq DOMAIN attempts'[m]
           /\ \A n \in DOMAIN attempts'[m] \ DOMAIN attempts[m] :
                 \E d \in Deliverers : Appends(d) /\ task[d].message = m /\ task[d].number = n
<1>1. CASE attempts' = attempts
  BY <1>1
<1>2. ASSUME NEW d \in Deliverers, AppendAttempt(d), attempts' # attempts
      PROVE  /\ DOMAIN attempts[m] \subseteq DOMAIN attempts'[m]
             /\ \A n \in DOMAIN attempts'[m] \ DOMAIN attempts[m] :
                   \E e \in Deliverers : Appends(e) /\ task[e].message = m /\ task[e].number = n
  <2> DEFINE c == task[d]
             new == [n \in DOMAIN attempts[c.message] \cup {c.number} |->
                        IF n = c.number THEN c.outcome ELSE attempts[c.message][n]]
  <2>1. /\ stage[d] = "attempt" /\ c.number \notin DOMAIN attempts[c.message]
        /\ attempts' = [attempts EXCEPT ![c.message] = new]
        /\ Proceed(d, "mark", c) /\ UNCHANGED <<status, attemptCount, current>>
    BY <1>2 DEF AppendAttempt, NumberTaken, messageVars
  <2>2. c.message \in Messages
    BY <2>1, TaskShape DEF OutboxInv
  <2>3. Appends(d)
    BY <2>1 DEF Appends, Proceed, OutboxInv, OutboxTypeOK
  <2>4. DOMAIN new = DOMAIN attempts[c.message] \cup {c.number}
    OBVIOUS
  <2> HIDE DEF new
  <2>5. /\ attempts'[c.message] = new
        /\ c.message # m => attempts'[m] = attempts[m]
    BY <2>1, <2>2 DEF OutboxInv, OutboxTypeOK
  <2> QED BY <2>3, <2>4, <2>5
<1> QED
  BY <1>1, <1>2 DEF OutboxNext, Work, CreateNotification, UpdatePreference, ListDue, Claim,
     BeginDelivery, Send, Mark, Crash, BecomeDue, ReleaseExpired, AdminRetry, Reschedule

LEMMA OpenStays ==
    ASSUME OutboxInv, OutboxNext, LeadsOpen PROVE LeadsOpen'
<1>1. ASSUME NEW d \in Deliverers, stage'[d] \in Numbered,
             task'[d].number = attemptCount'[task'[d].message] + 1
      PROVE  status'[task'[d].message] \in Outstanding
  <2>1. CASE status[task'[d].message] \in Outstanding /\ UNCHANGED <<status, attemptCount>>
    BY <2>1
  <2>2. CASE Continues(d)
    <3>1. PICK m \in Messages : m = task[d].message
      BY <2>2, TaskShape DEF Continues, Numbered, OutboxInv
    <3>2. /\ task[d].number <= attemptCount[m] + 1 /\ attemptCount[m] \in Int
          /\ task[d].number = attemptCount'[m] + 1
      BY <1>1, <2>2, <3>1, NumbersAreInt DEF Continues, OutboxInv, OutboxTypeOK, TaskTrue
    <3>3. ~Counts(m)
      BY <3>2 DEF Counts
    <3>4. EndsNothing(m)
      BY <3>3, CountsOrEndsNothing
    <3>5. status[m] \in Outstanding
      BY <2>2, <3>1, <3>2, <3>4 DEF LeadsOpen, Continues, EndsNothing
    <3> QED BY <2>2, <3>1, <3>4, <3>5 DEF Continues, EndsNothing
  <2> QED BY <1>1, <2>1, <2>2, WhereNumbersComeFrom
<1>2. ASSUME NEW m \in Messages, attemptCount'[m] + 1 \in DOMAIN attempts'[m]
      PROVE  status'[m] \in Outstanding
  <2>0. attemptCount[m] \in Int
    BY NumbersAreInt DEF OutboxInv, OutboxTypeOK
  <2>1. ~Counts(m)
    <3> SUFFICES ASSUME Counts(m) PROVE FALSE
      OBVIOUS
    <3>1. attemptCount[m] + 2 \in DOMAIN attempts[m]
      BY <1>2, <2>0 DEF Counts
    <3>2. DOMAIN attempts[m] \in {1..attemptCount[m], 1..(attemptCount[m] + 1)}
      BY DEF OutboxInv, AttemptsCounted
    <3> QED BY <2>0, <3>1, <3>2
  <2>2. EndsNothing(m)
    BY <2>1, CountsOrEndsNothing
  <2>3. status[m] \in Outstanding
    <3>1. CASE attemptCount[m] + 1 \in DOMAIN attempts[m]
      BY <3>1 DEF LeadsOpen
    <3>2. CASE attemptCount[m] + 1 \notin DOMAIN attempts[m]
      <4>1. PICK d \in Deliverers :
              Appends(d) /\ task[d].message = m /\ task[d].number = attemptCount[m] + 1
        BY <1>2, <2>2, <3>2, WhoAppends DEF EndsNothing
      <4> QED BY <4>1 DEF Appends, LeadsOpen, Numbered
    <3> QED BY <3>1, <3>2
  <2> QED BY <2>2, <2>3 DEF EndsNothing
<1> QED BY <1>1, <1>2 DEF LeadsOpen, Numbered

\* A deliverer that may count its attempt could already, or has just recorded it.
LEMMA WhoMayCount ==
    ASSUME OutboxInv, OutboxNext, NEW d \in current', stage'[d] = "mark"
    PROVE  /\ d \in current /\ task'[d] = task[d]
           /\ stage[d] = "mark" \/ Appends(d)
<1>0. DOMAIN task = Deliverers /\ DOMAIN stage = Deliverers /\ current \subseteq Deliverers
  BY DEF OutboxInv, OutboxTypeOK
<1> DEFINE Stands == d \in current /\ task'[d] = task[d] /\ stage[d] = "mark"
           Goal == d \in current /\ task'[d] = task[d] /\ (stage[d] = "mark" \/ Appends(d))
<1>1. ASSUME NEW e \in Deliverers, NEW step, NEW c, Proceed(e, step, c),
             current' \subseteq current \cup {e}, step # "mark" \/ e # d
      PROVE  Stands
  BY <1>0, <1>1 DEF Proceed
<1>2. ASSUME NEW e \in Deliverers, Stop(e) PROVE Stands
  BY <1>1, <1>2 DEF Stop
<1>3. ASSUME NEW e \in Deliverers, AppendAttempt(e) PROVE Goal
  <2>1. CASE Stop(e)
    BY <1>2, <2>1
  <2>2. CASE ~Stop(e)
    <3>1. /\ stage[e] = "attempt" /\ ~NumberTaken(task[e].message, task[e].number)
          /\ Proceed(e, "mark", task[e]) /\ UNCHANGED <<status, attemptCount, current>>
      BY <1>3, <2>2 DEF AppendAttempt, messageVars
    <3>2. CASE e # d
      BY <1>1, <3>1, <3>2
    <3>3. CASE e = d
      BY <1>0, <3>1, <3>3 DEF Appends, NumberTaken, Proceed
    <3> QED BY <3>2, <3>3
  <2> QED BY <2>1, <2>2
<1>4. ASSUME NEW e \in Deliverers, Claim(e) \/ Mark(e) PROVE Stands
  BY <1>1, <1>2, <1>4 DEF Claim, Mark, Bump
<1>5. ASSUME NEW e \in Deliverers, BeginDelivery(e) \/ Send(e) \/ Crash(e) \/ \E k \in Messages : ListDue(e, k)
      PROVE  Stands
  BY <1>1, <1>2, <1>5 DEF BeginDelivery, Send, Crash, ListDue
<1>6. ASSUME UNCHANGED <<stage, task>>, current' \subseteq current PROVE Stands
  BY <1>6
<1>7. ASSUME NEW m \in Messages, Reschedule(m) PROVE Stands
  BY <1>6, <1>7 DEF Reschedule, Bump
<1> QED
  BY <1>3, <1>4, <1>5, <1>6, <1>7 DEF OutboxNext, Work, CreateNotification, UpdatePreference,
     BecomeDue, ReleaseExpired, AdminRetry

LEMMA TornStays ==
    ASSUME OutboxInv, OutboxNext, LeadsOpen, NEW m \in Messages, Torn(m)
    PROVE  Torn(m)' /\ status'[m] \in Outstanding
<1>1. status[m] \in Outstanding
  BY DEF Torn, LeadsOpen
<1>2. ~Counts(m)
  BY DEF Torn, Counts
<1>3. EndsNothing(m)
  BY <1>2, CountsOrEndsNothing
<1>4. attemptCount'[m] + 1 \in DOMAIN attempts'[m]
  BY <1>3, WhoAppends DEF EndsNothing, Torn
<1>5. ASSUME NEW d \in current', stage'[d] = "mark", task'[d].message = m PROVE FALSE
  <2>1. d \in current /\ task[d].message = m /\ (stage[d] = "mark" \/ Appends(d))
    BY <1>5, WhoMayCount
  <2>2. Appends(d)
    BY <2>1 DEF Torn
  <2>3. task[d].number = attemptCount[m] + 1
    BY <2>1, <2>2 DEF Appends, OutboxInv, OutboxTypeOK, TaskTrue, Numbered
  <2> QED BY <2>1, <2>2, <2>3 DEF Appends, Torn
<1> QED BY <1>1, <1>3, <1>4, <1>5 DEF EndsNothing, Torn

\* A message whose last attempt was recorded by a deliverer that can no longer
\* count it (appendDeliveryAttempt and transition are two statements) is never
\* delivered, cancelled or dead-lettered, whatever deliverers, releases and
\* administrators do.
THEOREM TornIsForGood == OutboxSpec => TornForGood
<1>1. OutboxInit => LeadsOpen
  BY DEF OutboxInit, LeadsOpen, Numbered
<1>2. OutboxInv /\ LeadsOpen /\ [OutboxNext]_outboxVars => LeadsOpen'
  <2>1. CASE OutboxNext
    BY <2>1, OpenStays
  <2>2. CASE UNCHANGED outboxVars
    BY <2>2 DEF outboxVars, messageVars, LeadsOpen
  <2> QED BY <2>1, <2>2
<1>3. OutboxInv /\ LeadsOpen /\ [OutboxNext]_outboxVars =>
          [\A m \in Messages : Torn(m) => Torn(m)' /\ status'[m] \in Outstanding]_outboxVars
  BY TornStays
<1> QED BY <1>1, <1>2, <1>3, OutboxSafe, PTL DEF OutboxSpec, TornForGood
=============================================================================
