------------------------------ MODULE MCAccounts ------------------------------
(* Instances of Accounts for TLC, with the history of the few overlaps that  *)
(* the properties except.                                                    *)
EXTENDS Accounts, TLC

VARIABLES
    writtenBack,    \* a login has written back the hash of a password replaced since
    overlapped,     \* a verification and a restoration have overlapped
    used,           \* the reset tokens that have replaced the password
    doubled         \* those that did while another reset had found them usable

MCInit == Init /\ writtenBack = FALSE /\ overlapped = FALSE /\ used = {} /\ doubled = {}

Overtaken(step, h) == pc[h] = step /\ pc'[h] = pc[h]
Ends(h, step) == pc[h] = step /\ pc'[h] # step

\* The login of `h' stores an older password than the one it finds.
WritesBack(h) == /\ Ends(h, "login") /\ password' # password
                 /\ call[h].hash.word # password.word

\* A restoration decided from an e-mail that is verified before it is written; a
\* verification that has seen a deleted user, who is restored before it is written.
Overlap(h) ==
    \/ Overtaken("admin", h) /\ call[h].op = "restore" /\ verified' # verified
    \/ Overtaken("mail", h) /\ status = "DELETED" /\ status' # "DELETED"

\* The reset of `h' replaces the password with token `t'.
ResetsWith(h, t) == Ends(h, "reset") /\ password'.since # password.since /\ call[h].token = t

MCNext ==
    /\ Next
    /\ writtenBack' = (writtenBack \/ \E h \in Handlers : WritesBack(h))
    /\ overlapped' = (overlapped \/ \E h \in Handlers : Overlap(h))
    /\ used' = used \cup {t \in Tokens : \E h \in Handlers : ResetsWith(h, t)}
    /\ doubled' = doubled \cup {t \in Tokens : \E h, g \in Handlers :
           ResetsWith(h, t) /\ Overtaken("reset", g) /\ call[g].token = t}

history == <<writtenBack, overlapped, used, doubled>>

MCSpec == MCInit /\ [][MCNext]_<<vars, history>>

\* "Password reset/change increments the version and revokes sessions"
\* (docs/security.md): whoever has a session from a password login has proved the
\* password that is stored, however logins, changes and resets overlap, unless a
\* login has written back, with new parameters, the hash of a password that had
\* been replaced since it was read.  The sessions of a sign-in by telephone, which
\* proves no password, are not in the model.
ValidKnowsPassword ==
    ~writtenBack => \A s \in Sessions : Valid(s) => session[s].proved = password.word

\* "Primary-email verification activates the pending user" (docs/domain-model.md):
\* a user who is not deleted is pending exactly as long as the e-mail is not
\* verified, unless a verification and a restoration overlapped; a pending user
\* with a verified e-mail could be activated by no operation.
PendingIsUnverified ==
    ~overlapped => (status # "DELETED" => (status = "PENDING_VERIFICATION" <=> ~verified))

\* "Reset consumes its token" (docs/domain-model.md): no token replaces the
\* password twice, however resets, issues and expiries overlap, unless two resets
\* had found this very token usable when the first of them was written.
SingleUse ==
    [][\A h \in Handlers, t \in Tokens : ResetsWith(h, t) => t \notin used \/ t \in doubled]_<<vars, history>>

CONSTANTS t1, t2, t3

Interchangeable == Permutations(Handlers) \cup Permutations(Tokens \ {FirstToken})
=============================================================================
