--------------------------- MODULE MCAdminControl ---------------------------
(***************************************************************************)
(* Instances of AdminControl for TLC.                                      *)
(***************************************************************************)
EXTENDS AdminControl, TLC

CONSTANTS a1, a2, camp, code, entry, key, clm

\* One code and one allowlist entry, both of the one campaign.
OneCampaign == [o \in {code, entry} |-> camp]

Symmetry == Permutations(Admins)

=============================================================================
