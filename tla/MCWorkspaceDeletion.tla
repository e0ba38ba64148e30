------------------------ MODULE MCWorkspaceDeletion -------------------------
(* Two storages: uploads write to the first, and are mirrored to the second. *)
EXTENDS WorkspaceDeletion

CONSTANTS w1, s1, s2

MCPrimary == [w \in Writers |-> s1]
MCMirrors == [w \in Writers |-> {s2}]
MCOrder == <<s1, s2>>
=============================================================================
