---------------------------- MODULE MC_Contexts ----------------------------
(* Contexts with two of everything. *)
EXTENDS Contexts
CONSTANTS t1, t2, r1, r2, i1, i2, c1, c2
TwoThreads == {t1, t2}
TwoRuntimes == {r1, r2}
TwoIds == {i1, i2}
TwoContexts == {c1, c2}
=============================================================================
