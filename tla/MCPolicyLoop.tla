---------------------------- MODULE MCPolicyLoop ----------------------------
(* Instances of PolicyLoop for TLC. *)
EXTENDS PolicyLoop

Two == {"pick", "place"}
=============================================================================
