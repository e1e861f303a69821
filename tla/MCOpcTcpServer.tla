----------------------------- MODULE MCOpcTcpServer -----------------------------
(* Every client sends the token of its own session. *)
EXTENDS OpcTcpServer, TLC

OwnToken == [c \in Connections |-> c]

Symmetry == Permutations(Connections)

================================================================================
