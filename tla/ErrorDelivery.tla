--------------------------- MODULE ErrorDelivery ---------------------------
(***************************************************************************)
(* What the bridge owes to errors.  An error in flight is handled by Ruby  *)
(* or script, or taken over by code that describes it to the other side;   *)
(* that code may fail by itself, and then the error of its own displaces   *)
(* the one it carries, but as long as it does not, what comes out is about *)
(* the error that went in.  No error is dropped, none returns after it was *)
(* handled, and none is taken for another.                                 *)
(***************************************************************************)
EXTENDS Sequences, SequencesExt

CONSTANTS
    Failures, NoFailure,
    Jumps,          \* the failures that are no errors: Ruby's throw
    Unspecific      \* the error that says an argument could not be converted

VARIABLES
    inflight,       \* the error on its way up
    carried,        \* the nested calls: the error each is about to describe
    side,           \* who runs, see Sides
    framed          \* does a script run, on whatever level?

vars == <<inflight, carried, side, framed>>

Sides == {"ruby", "script", "bridge", "argument"}

Pop == carried # <<>> /\ carried' = Front(carried)
Takes(e) ==
    /\ carried # <<>> /\ Last(carried) = NoFailure
    /\ carried' = [carried EXCEPT ![Len(carried)] = e]

Init == inflight = NoFailure /\ carried = <<>> /\ side = "ruby" /\ framed = FALSE
-----------------------------------------------------------------------------
(* Nothing is in flight: calls begin, and end unless they carry an error.  *)
Run == /\ inflight = NoFailure /\ inflight' = NoFailure
       /\ \/ carried' = carried
          \/ carried' = Append(carried, NoFailure)
          \/ Pop /\ Last(carried) = NoFailure

Occur == /\ inflight = NoFailure
         /\ \E e \in Failures :
              \/ inflight' = e /\ carried' = carried
              \/ inflight' = e /\ Pop /\ Last(carried) = NoFailure
              \/ inflight' = NoFailure /\ Takes(e)

(* Whatever the calls it leaves carry is displaced. *)
Travel == inflight # NoFailure /\ inflight' = inflight /\ (carried' = carried \/ Pop)

Handle == /\ inflight # NoFailure /\ inflight' = NoFailure
          /\ side \in {"ruby", "script"} /\ side' = side
          /\ carried' = carried

TakeOver == inflight # NoFailure /\ inflight' = NoFailure /\ Takes(inflight)

Deliver == inflight = NoFailure /\ Pop /\ Last(carried) \in Failures /\ inflight' = Last(carried)

(* No script could see it: only the message is kept.  A jump need not be   *)
(* described at all.                                                       *)
Fade == /\ inflight' = NoFailure /\ Pop
        /\ \/ inflight = NoFailure /\ Last(carried) # NoFailure /\ ~framed
           \/ inflight \in Jumps /\ Last(carried) = NoFailure

(* set_trap, clear_trap and evaluate_compiled_script say no more than that *)
(* the script could not be converted.                                      *)
Generalize == side = "argument" /\ inflight # NoFailure /\ inflight' = Unspecific /\ Pop

Next == /\ \/ Run \/ Occur \/ Travel \/ Handle \/ TakeOver \/ Deliver \/ Fade \/ Generalize
        /\ side' \in Sides /\ framed' \in BOOLEAN
Spec == Init /\ [][Next]_vars
=============================================================================
