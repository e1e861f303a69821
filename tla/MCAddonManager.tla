----------------------------- MODULE MCAddonManager -----------------------------
(***************************************************************************)
(* Small instances of AddonManager for TLC.                                *)
(***************************************************************************)
EXTENDS AddonManager
================================================================================
