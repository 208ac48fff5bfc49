------------------------------- MODULE MCNetgen -------------------------------
(***************************************************************************)
(* Instances of Netgen for TLC.                                            *)
(***************************************************************************)
EXTENDS Netgen

\* Node b is a bootnode, v a validator, w an RPC node; x has a role that does not exist,
\* y has none.
Roles == [b |-> "bootnode", v |-> "validator", w |-> "rpc", x |-> "archive",
          y |-> ""]

Plain == [cmd |-> "init", known |-> TRUE, overwrite |-> TRUE, noKeygen |-> FALSE, accounts |-> TRUE,
          besu |-> "works", outputs |-> TRUE, named |-> "faucet", nodes |-> {"b", "v"}]

\* The default command line, and the ways to leave it that matter: each
\* subcommand, each flag, each state of Besu, another list of nodes.
CommandLines ==
    {Plain,
     [Plain EXCEPT !.besu = "missing", !.accounts = FALSE, !.outputs = FALSE, !.nodes = {"v"}],
     [Plain EXCEPT !.besu = "fails"],
     [Plain EXCEPT !.cmd = "regen", !.overwrite = FALSE, !.nodes = {"b", "w"}],
     [Plain EXCEPT !.cmd = "regen", !.nodes = {"x"}],
     [Plain EXCEPT !.named = "nobody"],
     [Plain EXCEPT !.known = FALSE],
     [Plain EXCEPT !.nodes = {"b", "y"}],
     [Plain EXCEPT !.cmd = "inventory", !.noKeygen = TRUE]}

=============================================================================
