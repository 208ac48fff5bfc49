---------------------------- MODULE MCClaimIntake ----------------------------
(***************************************************************************)
(* Requests for the runs on the claim intake: each set of forms makes two  *)
(* or three handlers compete for one thing.                                *)
(***************************************************************************)
EXTENDS ClaimIntake, TLC

Form(a, k, m, h) ==
    [addr |-> a, ip |-> None, fp |-> None, key |-> k, campaign |-> m, challenge |-> h]

\* Two forms share an idempotency key, two a wallet challenge and two an
\* invitation code.
SharedForms == {Form("a", "k", "invite", None), Form("a", "k", None, "h"),
                Form("a", "l", "invite", "h")}

\* One client, with and without a browser fingerprint, and another address,
\* which claims in a campaign.
LimitForms == {[Form("a", None, None, None) EXCEPT !.ip = "i"],
               [Form("a", None, None, None) EXCEPT !.fp = "x"],
               Form("b", None, "public", None)}

Symmetry == Permutations(Requests)
=============================================================================
