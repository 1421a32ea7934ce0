---------------------------- MODULE MCStateRewrite ----------------------------
(***************************************************************************)
(* OcarinaStateRewrite over the answer it really forges.                   *)
(***************************************************************************)
EXTENDS StateRewrite, ContractorPaymentRun
=============================================================================
