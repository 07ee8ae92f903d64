---------------------------- MODULE MCSecondFactor ----------------------------
(* Instances of SecondFactor for TLC, with the history of what overlapped.   *)
EXTENDS SecondFactor, TLC

VARIABLES
    crossed,    \* a login was on its way while a factor came into force
    restarted,  \* an enrolment was started while one was being confirmed
    shown       \* the secrets of which somebody has shown a code

MCInit == Init /\ crossed = FALSE /\ restarted = FALSE /\ shown = {}

LoggingIn(h) == pc[h] \in {"prove", "login"} /\ pc'[h] = pc[h]

\* Once an enrolment was restarted, nothing is claimed of the rest of the history.
MCNext ==
    /\ Next
    /\ restarted' = (restarted \/ \E g, h \in Handlers : pc'[g] = "enroll" /\ pc'[h] = "confirm")
    /\ crossed' = (/\ ~restarted'
                   /\ crossed \/ /\ factor' # factor /\ Enabled(factor')
                                 /\ \E h \in Handlers : LoggingIn(h))
    /\ shown' = {x \in Secrets : /\ ~restarted'
                                 /\ \/ x \in shown
                                    \/ \E h \in Handlers : /\ pc'[h] \in {"confirm", "rotated"}
                                                          /\ call'[h].secret = x}

MCSpec == MCInit /\ [][MCNext]_<<vars, crossed, restarted, shown>>

\* What startTotpEnrollment refuses as MFA_ALREADY_ENABLED: a factor in force
\* stays in force, and its user has shown a code of its secret; unless an
\* enrolment was started while another was being confirmed.
ConfirmedForGood ==
    [][~restarted' => /\ Enabled(factor) => Enabled(factor')
                      /\ Enabled(factor') => factor'.secret \in shown']_<<vars, crossed, restarted, shown>>

\* Enabling and rotating a factor ends the other sessions (mfa-service.ts): every
\* session that validates was last assured by the secret or by a recovery code
\* that are in force, unless a login was on its way as they came into force.
AssuredByFactor ==
    Enabled(factor) /\ ~crossed /\ ~restarted =>
        \A s \in Sessions : Valid(s) =>
            session[s].proof \in {factor.secret} \cup [batch : {batch}, slot : Slots]

Interchangeable ==
    Permutations(Handlers) \cup Permutations(Secrets) \cup Permutations(Sessions)
        \cup Permutations(Challenges)
=============================================================================
