------------------------- MODULE MC_JSLandProxies -------------------------
(* Instances of JSLandProxies for TLC. *)
EXTENDS JSLandProxies, TLC

CONSTANTS c1, c2, t1, t2

\* Every frame on one thread: only nesting.
OneThread == [c \in Calls |-> t1]

\* The two frames on two threads: only interleaving.
TwoThreads == (c1 :> t1) @@ (c2 :> t2)

\* The cells of the JavaScript heap are interchangeable.
Addresses == Permutations(Cells)
=============================================================================
