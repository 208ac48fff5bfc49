---------------------------- MODULE MCRiskGuard ----------------------------
(***************************************************************************)
(* RiskGuard for TLC: two clients behind one IP, one of them without a     *)
(* fingerprint, and the other also from a second IP.                       *)
(***************************************************************************)
EXTENDS RiskGuard, TLC

Form(ip, addr, fp) ==
    [ip |-> ip, addr |-> addr, fp |-> fp, honeypot |-> FALSE, token |-> TRUE]

Alone == Form("ip1", "a1", "")
Other == Form("ip2", "a2", "f2")

Clients ==
    {Alone, Other, [Form("ip1", "a2", "f2") EXCEPT !.honeypot = TRUE],
     [Form("ip1", "a3", "") EXCEPT !.token = FALSE]}

Failed(n, f) ==
    [n |-> n, by |-> 0, kind |-> "captcha_failed", at |-> 0, ip |-> f.ip, addr |-> f.addr, fp |-> f.fp]

Earlier == {{}, {Failed(1, Alone), Failed(2, Other)}}

Symmetry == Permutations(Handlers)

=============================================================================
