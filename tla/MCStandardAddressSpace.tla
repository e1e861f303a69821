------------------------- MODULE MCStandardAddressSpace -------------------------
(* The start of the server: no client calls, the items and names are those of the calls. *)
EXTENDS StandardAddressSpace, StandardNamespace

StandardNames == {a.name : a \in Requested}

================================================================================
