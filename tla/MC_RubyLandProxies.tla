------------------------ MODULE MC_RubyLandProxies ------------------------
(* Instances of RubyLandProxies for TLC. *)
EXTENDS RubyLandProxies, TLC

CONSTANTS c1, c2, t1, t2

\* Every frame on one thread: only nesting.
OneThread == [c \in Calls |-> t1]

\* The two frames on two threads: only interleaving.
TwoThreads == (c1 :> t1) @@ (c2 :> t2)

\* The addresses of a heap are interchangeable.
Addresses == Permutations(Values) \cup Permutations(Proxies)
=============================================================================
