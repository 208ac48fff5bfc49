---------------------------- MODULE MCFaucetApp ----------------------------
(***************************************************************************)
(* A small instance of FaucetApp: the live faucet with both goroutines,    *)
(* and a dry run.                                                          *)
(***************************************************************************)
EXTENDS FaucetApp

\* The live faucet and the dry run.
LiveAndDry ==
    {[dry |-> FALSE, worker |-> TRUE, watcher |-> TRUE],
     [dry |-> TRUE, worker |-> TRUE, watcher |-> TRUE]}

=============================================================================
