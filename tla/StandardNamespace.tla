--------------------------- MODULE StandardNamespace ---------------------------
(* The calls of FillStandardNamespace, all of them, in the order of the code. *)
EXTENDS StandardAddressSpacePart3, StandardAddressSpacePart4, StandardAddressSpacePart5,
        StandardAddressSpacePart8, StandardAddressSpacePart9, StandardAddressSpacePart10,
        StandardAddressSpacePart11, StandardAddressSpacePart13

FillStandardNamespace ==
  CreateAddressSpacePart3 \o CreateAddressSpacePart4 \o CreateAddressSpacePart5
    \o CreateAddressSpacePart8 \o CreateAddressSpacePart9 \o CreateAddressSpacePart10
    \o CreateAddressSpacePart11 \o CreateAddressSpacePart13
================================================================================
