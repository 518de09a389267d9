---------------------------- MODULE MC_Crossing ----------------------------
(* Crossing for TLC: the configurations give every method to Ruby code and *)
(* every handler to script.                                                *)
EXTENDS Crossing
=============================================================================
