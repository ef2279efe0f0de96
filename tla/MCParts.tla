------------------------------ MODULE MCParts ------------------------------
(* Small instances of the parts: phases with a gap and on both sides of 0. *)
EXTENDS Parts

Phases == {-1, 0, 2}
=============================================================================
