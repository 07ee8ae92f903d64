----------------------------- MODULE GameAccounts -----------------------------
(***************************************************************************)
(* The accounts that players claim on the platforms of one game, and their *)
(* review by administrators (packages/player-identity).                    *)
(*                                                                         *)
(* An update that names the version its client has seen is one step: with  *)
(* any other version it does nothing.  The same holds for an update whose  *)
(* own condition repeats what was read before it.  What remains are the    *)
(* operations that decide on a read and write without repeating it.        *)
(***************************************************************************)
EXTENDS Integers, FiniteSets

CONSTANTS
    Accounts,       \* user_game_accounts that can be inserted
    Users,          \* players
    Platforms,      \* game_platforms of the game
    Handles,        \* normalized handles
    Handlers,       \* concurrent request handlers
    MaxVersion,     \* a bound: the versions of an account
    NoAccount,
    NoCall          \* "the handler is serving nothing"

Statuses == {"DRAFT", "PENDING", "VERIFIED", "REJECTED", "CHANGES_REQUESTED", "SUSPENDED",
             "DISCONNECTED"}
Rows == [owner : Users, platform : Platforms, handle : Handles, status : Statuses,
         primary : BOOLEAN, deleted : BOOLEAN, version : 1..MaxVersion]
Claims == Platforms \X Handles

ASSUME MaxVersionAssumption == MaxVersion \in Nat \ {0}
ASSUME NoAccountAssumption == NoAccount \notin Rows \cup Claims

VARIABLES
    account,    \* user_game_accounts
    vetted,     \* history: the claim a reviewer had before his eyes when he verified it
    pc, call    \* per handler: where its request is, and what it has read

vars == <<account, vetted, pc, call>>

-----------------------------------------------------------------------------
(* Slips that the properties at the end must tell from the definitions      *)
(* below; no definition uses them.                                         *)

VersionKept(row) == row                                            \* for Bumped
AnyTransition(from, to) == TRUE                                    \* for Allowed

-----------------------------------------------------------------------------
Become(h, step, read) ==
    /\ pc' = [pc EXCEPT ![h] = step]
    /\ call' = [call EXCEPT ![h] = read]

Done(h) == Become(h, "idle", NoCall)

Bumped(row) == [row EXCEPT !.version = row.version + 1]

Drafted(u, claim) ==
    [owner |-> u, platform |-> claim[1], handle |-> claim[2], status |-> "DRAFT",
     primary |-> FALSE, deleted |-> FALSE, version |-> 1]

\* assertGameAccountTransition, with the table `transitions'.
Allowed(from, to) ==
    \/ from = to
    \/ to = "DISCONNECTED"
    \/ <<from, to>> \in {<<"DRAFT", "PENDING">>, <<"PENDING", "VERIFIED">>,
           <<"PENDING", "REJECTED">>, <<"PENDING", "CHANGES_REQUESTED">>,
           <<"VERIFIED", "SUSPENDED">>, <<"REJECTED", "PENDING">>,
           <<"CHANGES_REQUESTED", "PENDING">>, <<"SUSPENDED", "VERIFIED">>}

\* statusForReview of what an administrator may do.
ReviewStatuses == {"VERIFIED", "REJECTED", "CHANGES_REQUESTED", "SUSPENDED", "DISCONNECTED"}

Reviewed(row, to) == [row EXCEPT !.status = to, !.primary = row.primary /\ to = "VERIFIED"]

-----------------------------------------------------------------------------
ActiveStatuses == {"DRAFT", "PENDING", "VERIFIED", "CHANGES_REQUESTED", "SUSPENDED"}

Exists(a) == account[a] # NoAccount
Live(a) == Exists(a) /\ ~account[a].deleted

\* The partial unique indexes and the check of user_game_accounts.
Admissible(rows) ==
    LET live == {a \in Accounts : rows[a] # NoAccount /\ ~rows[a].deleted}
        active == {a \in live : rows[a].status \in ActiveStatuses}
    IN /\ \A a, b \in active :
             a # b /\ rows[a].platform = rows[b].platform
                 => rows[a].owner # rows[b].owner /\ rows[a].handle # rows[b].handle
       /\ \A a, b \in live :
             rows[a].primary /\ rows[b].primary /\ rows[a].owner = rows[b].owner => a = b
       /\ \A a \in live : rows[a].primary => rows[a].status = "VERIFIED"

\* The account becomes `row', unless the database refuses it.
Stored(a, row) ==
    /\ account' = [account EXCEPT ![a] = row]
    /\ Admissible(account')

Init ==
    /\ account = [a \in Accounts |-> NoAccount]
    /\ vetted = [a \in Accounts |-> NoAccount]
    /\ pc = [h \in Handlers |-> "idle"]
    /\ call = [h \in Handlers |-> NoCall]

-----------------------------------------------------------------------------
\* createGameAccountClaim: its two queries refuse what the indexes refuse.
CreateClaim(a, u, claim) ==
    /\ ~Exists(a)
    /\ Stored(a, Drafted(u, claim))
    /\ UNCHANGED <<vetted, pc, call>>

\* updateGameAccountClaim.  A primary account would stay primary and be PENDING:
\* the check refuses that.
UpdateClaim(a, claim) ==
    /\ Live(a) /\ account[a].version < MaxVersion
    /\ account[a].status \in {"DRAFT", "CHANGES_REQUESTED", "VERIFIED"}
    /\ Stored(a, Bumped([account[a] EXCEPT
           !.platform = claim[1], !.handle = claim[2],
           !.status = IF @ = "VERIFIED" THEN "PENDING" ELSE @]))
    /\ UNCHANGED <<vetted, pc, call>>

Submit(a) ==
    /\ Live(a) /\ account[a].version < MaxVersion
    /\ account[a].status \in {"DRAFT", "REJECTED", "CHANGES_REQUESTED"}
    /\ Stored(a, Bumped([account[a] EXCEPT !.status = "PENDING"]))
    /\ UNCHANGED <<vetted, pc, call>>

SoftDelete(a) ==
    /\ Live(a) /\ account[a].version < MaxVersion
    /\ Stored(a, Bumped([account[a] EXCEPT !.deleted = TRUE, !.primary = FALSE]))
    /\ UNCHANGED <<vetted, pc, call>>

RestoreDeleted(a) ==
    /\ Exists(a) /\ account[a].deleted /\ account[a].version < MaxVersion
    /\ Stored(a, Bumped([account[a] EXCEPT !.deleted = FALSE, !.status = "DRAFT"]))
    /\ UNCHANGED <<vetted, pc, call>>

\* disconnectMyGameAccount, which leaves the version as it is.
Disconnect(a) ==
    /\ Live(a) /\ account[a].status # "DISCONNECTED"
    /\ Stored(a, [account[a] EXCEPT !.status = "DISCONNECTED", !.primary = FALSE])
    /\ UNCHANGED <<vetted, pc, call>>

\* resubmitRejectedGameAccount, which leaves the version as it is.
Resubmit(a) ==
    /\ Live(a) /\ account[a].status \in {"REJECTED", "CHANGES_REQUESTED"}
    /\ Stored(a, [account[a] EXCEPT !.status = "PENDING"])
    /\ UNCHANGED <<vetted, pc, call>>

\* setPrimaryGameAccount: the owner's primary accounts, then this one.
SetPrimary(a) ==
    /\ Live(a) /\ account[a].status = "VERIFIED" /\ ~account[a].primary
    /\ account' = [b \in Accounts |->
           IF b = a \/ (Live(b) /\ account[b].owner = account[a].owner)
             THEN [account[b] EXCEPT !.primary = (b = a)] ELSE account[b]]
    /\ Admissible(account')
    /\ UNCHANGED <<vetted, pc, call>>

-----------------------------------------------------------------------------
\* An administrator opens the account, and asks for a review of what is shown.
Open(h, a) ==
    /\ pc[h] = "idle" /\ Exists(a)
    /\ Become(h, "shown", [account |-> a, version |-> account[a].version,
                           claim |-> <<account[a].platform, account[a].handle>>])
    /\ UNCHANGED <<account, vetted>>

\* review: the check of the status as it is now.
ReviewChecked(h, to) ==
    LET read == call[h] IN
    /\ pc[h] = "shown"
    /\ Allowed(account[read.account].status, to)
    /\ Become(h, "checked", [account |-> read.account, version |-> read.version,
                             claim |-> read.claim, to |-> to])
    /\ UNCHANGED <<account, vetted>>

\* applyAdminReview, for the version that was shown.
ReviewApplied(h) ==
    LET read == call[h]
        a == read.account
    IN /\ pc[h] = "checked"
       /\ Live(a) /\ account[a].version = read.version /\ read.version < MaxVersion
       /\ Stored(a, Bumped(Reviewed(account[a], read.to)))
       /\ vetted' = IF read.to = "VERIFIED" THEN [vetted EXCEPT ![a] = read.claim] ELSE vetted
       /\ Done(h)

\* A refusal, an error, or a handler that stops.
Abandoned(h) == pc[h] # "idle" /\ Done(h) /\ UNCHANGED <<account, vetted>>

-----------------------------------------------------------------------------
Next ==
    \/ \E a \in Accounts :
          \/ \E claim \in Claims : \/ \E u \in Users : CreateClaim(a, u, claim)
                                   \/ UpdateClaim(a, claim)
          \/ Submit(a) \/ SoftDelete(a) \/ RestoreDeleted(a)
          \/ Disconnect(a) \/ Resubmit(a) \/ SetPrimary(a)
    \/ \E h \in Handlers :
          \/ \E a \in Accounts : Open(h, a)
          \/ \E to \in ReviewStatuses : ReviewChecked(h, to)
          \/ ReviewApplied(h) \/ Abandoned(h)

Spec == Init /\ [][Next]_vars

-----------------------------------------------------------------------------
IsCall(step, c) ==
    \/ step = "idle" /\ c = NoCall
    \/ /\ step \in {"shown", "checked"}
       /\ c.account \in Accounts /\ Exists(c.account)
       /\ c.version \in 1..MaxVersion /\ c.claim \in Claims
       /\ step = "checked" => c.to \in ReviewStatuses

\* The type invariant of the accounts and of the handlers.
TypeOK ==
    /\ DOMAIN account = Accounts
    /\ \A a \in Accounts : account[a] \in Rows \cup {NoAccount}
    /\ DOMAIN vetted = Accounts
    /\ \A a \in Accounts : vetted[a] \in Claims \cup {NoAccount}
    /\ DOMAIN pc = Handlers /\ DOMAIN call = Handlers
    /\ \A h \in Handlers : IsCall(pc[h], call[h])

\* A verified account has the platform and the handle that the administrator
\* was looking at who verified it: the owner's edits between the page and the
\* decision are told by the version (applyAdminReview), although two of the
\* owner's operations do not change it.
VerifiedAsShown ==
    \A a \in Accounts : Exists(a) /\ account[a].status = "VERIFIED"
        => vetted[a] = <<account[a].platform, account[a].handle>>
=============================================================================
