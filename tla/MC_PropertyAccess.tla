------------------------- MODULE MC_PropertyAccess -------------------------
(* PropertyAccess with two values that can be told apart. *)
EXTENDS PropertyAccess
CONSTANTS v1, v2
TwoValues == {v1, v2}
=============================================================================
