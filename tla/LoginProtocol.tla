--------------------------- MODULE LoginProtocol ----------------------------
(***************************************************************************)
(* What client and worker promise each other about a login: every          *)
(* submission of credentials is judged at most once, a user is accepted by *)
(* a verdict on a submission of his and by nothing else, and commands are  *)
(* executed for accepted users only, each once.  Client implements it.     *)
(***************************************************************************)
EXTENDS Integers

VARIABLES
    user,       \* "asking", "submitted", "accepted" or "left"
    server,     \* "open" to submissions, "serving" commands, or "gone"
    verdict,    \* on its way to the user, or "none"
    pending     \* how many commands are on their way to the server

vars == <<user, server, verdict, pending>>

Init ==
    /\ user = "asking"
    /\ server = "open"
    /\ verdict = "none"
    /\ pending = 0

Submit ==
    /\ user = "asking"
    /\ user' = "submitted"
    /\ UNCHANGED <<server, verdict, pending>>

Judge ==
    /\ user = "submitted" /\ server = "open" /\ verdict = "none"
    /\ \/ verdict' = "AUTH_RESULT_OK" /\ server' = "serving"
       \/ verdict' = "AUTH_FAIL" /\ server' = server
    /\ UNCHANGED <<user, pending>>

Learn ==
    /\ user = "submitted" /\ verdict # "none"
    /\ user' = IF verdict = "AUTH_RESULT_OK" THEN "accepted" ELSE "asking"
    /\ verdict' = "none"
    /\ UNCHANGED <<server, pending>>

\* There will be no verdict: only because the server has gone.
LearnNothing ==
    /\ user = "submitted" /\ verdict = "none" /\ server = "gone"
    /\ user' \in {"asking", "left"}
    /\ UNCHANGED <<server, verdict, pending>>

Command ==
    /\ user = "accepted" /\ server = "serving"
    /\ pending' = pending + 1
    /\ UNCHANGED <<user, server, verdict>>

Execute ==
    /\ server = "serving" /\ pending > 0
    /\ pending' = pending - 1
    /\ UNCHANGED <<user, server, verdict>>

Leave ==
    /\ user \in {"asking", "accepted"}
    /\ user' = "left"
    /\ UNCHANGED <<server, verdict, pending>>

Close ==
    /\ server # "gone"
    /\ server' = "gone" /\ pending' = 0
    /\ UNCHANGED <<user, verdict>>

Next ==
    \/ Submit \/ Judge \/ Learn \/ LearnNothing
    \/ Command \/ Execute
    \/ Leave \/ Close

Spec == Init /\ [][Next]_vars
=============================================================================
