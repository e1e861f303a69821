--------------------------- MODULE MCServerLifecycle ---------------------------
(* The eight common addons, each with at most three dependencies. *)
EXTENDS ServerLifecycle
================================================================================
