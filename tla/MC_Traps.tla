------------------------------ MODULE MC_Traps ------------------------------
(* Traps with three lines, of which the last two share an instruction;     *)
(* scripts are alike, and so are blocks.                                   *)
EXTENDS Traps
ThreeLines == 1..3
SharedInstruction == <<0, 1, 1>>
Alike == Permutations(Scripts) \cup Permutations(Blocks)
=============================================================================
