--------------------------- MODULE ProxyIdentity ---------------------------
(***************************************************************************)
(* What either side of the bridge promises of the objects it hands to the  *)
(* other side: an original has at most one proxy, no two originals share   *)
(* one, and as long as a proxy is in use it goes on standing for the       *)
(* original it was made for.  RubyLandProxies implements this for the      *)
(* JavaScript values seen from Ruby, JSLandProxies for the Ruby objects    *)
(* seen from JavaScript.                                                   *)
(***************************************************************************)
CONSTANTS Originals, Proxies, None

VARIABLES standsFor,  \* original -> its proxy, or None
          inUse       \* the proxies the other side can still reach

vars == <<standsFor, inUse>>

Made == {standsFor[v] : v \in Originals} \ {None}

Init ==
  /\ standsFor = [v \in Originals |-> None]
  /\ inUse = {}

Wrap(v, p) ==
  /\ standsFor[v] = None /\ p \notin Made
  /\ standsFor' = [standsFor EXCEPT ![v] = p]
  /\ inUse' = inUse \cup {p}

\* The other side gets hold of proxies again, or lets go of some.
Use ==
  /\ inUse' \in SUBSET Made
  /\ UNCHANGED standsFor

Forget(lost) ==
  /\ \A v \in lost : standsFor[v] \notin inUse
  /\ standsFor' = [v \in Originals |-> IF v \in lost THEN None ELSE standsFor[v]]
  /\ UNCHANGED inUse

Next ==
  \/ \E v \in Originals, p \in Proxies : Wrap(v, p)
  \/ Use
  \/ \E lost \in SUBSET Originals : Forget(lost)

Spec == Init /\ [][Next]_vars
=============================================================================
