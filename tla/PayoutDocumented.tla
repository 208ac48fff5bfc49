--------------------------- MODULE PayoutDocumented ---------------------------
(***************************************************************************)
(* Sentences of the repository's comments and documents about the payout   *)
(* pipeline that its code does not keep.  Each is stated here as it is     *)
(* written, and a run of its own exhibits the behaviour that breaks it.    *)
(***************************************************************************)
EXTENDS PayoutPipeline

\* IsTerminalClaimStatus, models.go:196 "reports whether no further processing
\* should occur".  Only the operator's retry takes a claim out of confirmed,
\* failed or rejected.
TerminalIsFinal ==
    [][\A c \in Claims :
        status[c] \in {"confirmed", "failed", "rejected"} /\ status'[c] # status[c]
            => AdminRetryClaim(c)]_vars

\* Every handler is scheduled and no client goes away, so that only a restart
\* can come between a claim's INSERT and its Enqueue.
RestartSpec ==
    /\ Init /\ [][Next /\ ~\E c \in Claims : AbandonIntake(c)]_vars
    /\ Fairness
    /\ \A c \in Claims : WF_vars(Enqueue(c) \/ RejectIntake(c))

\* architecture.md:89 "Restarting the process does not lose queued or in-flight
\* claims".  A claim that was received gets on its way, or is rejected.
ReceivedIsNotLost ==
    \A c \in Claims : status[c] = "received" ~> status[c] # "received"

=============================================================================
