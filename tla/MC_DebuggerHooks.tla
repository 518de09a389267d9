-------------------------- MODULE MC_DebuggerHooks --------------------------
(* DebuggerHooks with two threads and more debuggers than contexts. *)
EXTENDS DebuggerHooks
CONSTANTS c1, c2, d1, d2, d3
TwoContexts == {c1, c2}
ThreeDebuggers == {d1, d2, d3}
=============================================================================
