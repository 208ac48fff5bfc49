-------------------------- MODULE MCPayoutPipeline --------------------------
(***************************************************************************)
(* The root module of the runs on the payout pipeline.  The .cfg files     *)
(* give the constants: claims are small numbers because DequeueBatch takes *)
(* the oldest first, so no symmetry is sound here.                         *)
(***************************************************************************)
EXTENDS PayoutPipeline
=============================================================================
