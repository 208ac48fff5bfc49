---------------------------- MODULE PayoutPromise ----------------------------
(***************************************************************************)
(* What the payout pipeline promises about money, with no queue, worker,   *)
(* watcher or database: every payment of a claim uses up a grant.  A claim *)
(* is born with one grant; an operator's retry adds one; a broadcast whose *)
(* outcome the sender could not learn brings its own, because the pipeline *)
(* must then assume that nothing was paid.  A claim is shown as confirmed  *)
(* only if it has been paid.                                               *)
(***************************************************************************)
EXTENDS Integers

CONSTANT Claims

VARIABLES granted, paid, shown

vars == <<granted, paid, shown>>

Init ==
    /\ granted = [c \in Claims |-> 1]
    /\ paid = [c \in Claims |-> 0]
    /\ shown = {}

Grant(c) ==
    /\ granted' = [granted EXCEPT ![c] = @ + 1]
    /\ UNCHANGED <<paid, shown>>

Pay(c) ==
    /\ paid[c] < granted[c]
    /\ paid' = [paid EXCEPT ![c] = @ + 1]
    /\ UNCHANGED <<granted, shown>>

PayInDoubt(c) ==
    /\ paid[c] < granted[c]
    /\ paid' = [paid EXCEPT ![c] = @ + 1]
    /\ granted' = [granted EXCEPT ![c] = @ + 1]
    /\ UNCHANGED shown

Show(c) ==
    /\ paid[c] > 0
    /\ shown' = shown \cup {c}
    /\ UNCHANGED <<granted, paid>>

\* A later write of the claim's status hides the confirmation.
Hide(c) ==
    /\ shown' = shown \ {c}
    /\ UNCHANGED <<granted, paid>>

Next == \E c \in Claims : Grant(c) \/ Pay(c) \/ PayInDoubt(c) \/ Show(c) \/ Hide(c)

Spec == Init /\ [][Next]_vars

=============================================================================
