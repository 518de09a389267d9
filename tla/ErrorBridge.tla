---------------------------- MODULE ErrorBridge ----------------------------
(***************************************************************************)
(* How an error passes between Ruby and script: the pending exception of   *)
(* the JSContext, the ex and msg that the error reporter and the bridge    *)
(* leave in the JohnsonContext, and the functions that turn one side's     *)
(* error into the other's.  They run code of the program to do it, which   *)
(* may fail with an error of its own.  An error stands for all that is     *)
(* made to describe it: the Johnson::Error made of an exception of script, *)
(* the JS Error made of what inspect says.  One thread, one context; the   *)
(* steps of the functions that carry the error are those of Crossing.      *)
(***************************************************************************)
EXTENDS Naturals, Sequences, SequencesExt

CONSTANTS
    Errors,        \* what scripts throw, Ruby raises and the engine reports
    MaxChain,      \* bound on the calls that are nested
    Unpropagated,  \* may a failure reach the error reporter only?
    ThrowsNull     \* may script throw null?

None == "none"                \* nothing pending, ex = 0
Empty == "empty"              \* the empty msg, and the RuntimeError that has it
Null == "null"                \* the value of "throw null": pending, but ex = 0
Longjmp == "longjmp"          \* Ruby's throw, break or retry through the bridge
Unconverted == "unconverted"  \* "Couldn't get compiled script."
Values == Errors \cup {Null, Longjmp}
Described == Errors \cup {Empty, Unconverted, Longjmp}   \* what Ruby can raise

ASSUME ErrorBridgeAssumption ==
    /\ MaxChain \in Nat
    /\ Unpropagated \in BOOLEAN /\ ThrowsNull \in BOOLEAN
    /\ Errors \cap {None, Empty, Null, Longjmp, Unconverted} = {}

VARIABLES
    chain,       \* the nested calls, see Links
    pending,     \* the exception pending on the JSContext
    ex, msg,     \* the fields of the JohnsonContext
    flying,      \* the error on its way up and the side that propagates it
    left         \* history: the pending exception a raising function left behind

vars == <<chain, pending, ex, msg, flying, left>>

(* "call": a function of kind ruby, a method of RubyLandProxy or the       *)
(* conversion of a result; "compile": native_compile; "trap": set_trap and *)
(* clear_trap; "prepare" and "evaluate": evaluate_compiled_script, before  *)
(* and from JS_ExecuteScript; "script": a script these run; "handler":     *)
(* Ruby called by script or by a conversion to script; "block": Ruby       *)
(* called by a function of kind ruby; "deliver": RAISE_JS_ERROR;           *)
(* "report": the inspect of report_ruby_error_in_js.                       *)
Entries == {"call", "compile", "trap", "prepare"}
Carriers == {"deliver", "report"}
Links == Entries \cup Carriers \cup {"evaluate", "script", "handler", "block"}

Runs == {<<"call", "script">>, <<"call", "block">>, <<"call", "handler">>,
         <<"compile", "call">>, <<"evaluate", "script">>, <<"evaluate", "call">>,
         <<"trap", "script">>, <<"trap", "handler">>,
         <<"prepare", "script">>, <<"prepare", "handler">>, <<"script", "handler">>}

Quiet == [in |-> None, error |-> None]
Fly(land, e) == [in |-> land, error |-> e]
Link(at, e) == [at |-> at, error |-> e]
Innermost(kinds) == chain # <<>> /\ Last(chain).at \in kinds
RubyActive == chain = <<>> \/ Innermost({"handler", "block"} \cup Carriers)
Framed == \E i \in DOMAIN chain : chain[i].at = "script"     \* cx->fp
Pop == chain' = Front(chain)
Push(at) == Len(chain) < MaxChain /\ chain' = Append(chain, Link(at, None))
Become(at, e) == chain' = [chain EXCEPT ![Len(chain)] = Link(at, e)]

\* Mutant: null is taken for an exception.
StoredNull == ex # None
Stored == ex \notin {None, Null}       \* if (johnson_context->ex)

(* A failing call of the engine: JS_SetPendingException; the reporter,     *)
(* which keeps the message and what is pending; js_ReportOutOfMemory,      *)
(* which has forgotten what is pending when it calls the reporter.         *)
Throw(e) == pending' = e /\ left' = None /\ UNCHANGED <<ex, msg>>
report_js_error(e) ==
    /\ msg' = e
    /\ ex' = IF pending # None THEN pending ELSE ex
    /\ UNCHANGED <<pending, left>>
RunOutOfMemory(e) == msg' = e /\ pending' = None /\ left' = None /\ UNCHANGED ex

Init == /\ chain = <<>> /\ flying = Quiet
        /\ pending = None /\ left = None /\ ex = None /\ msg = Empty
-----------------------------------------------------------------------------
Enter(entry) ==
    /\ RubyActive /\ flying = Quiet
    /\ Push(entry)
    /\ IF entry = "prepare"       \* "clean things up first"
       THEN ex' = None /\ msg' = Empty
       ELSE UNCHANGED <<ex, msg>>
    /\ UNCHANGED <<pending, flying, left>>

Continue ==      \* run a script or a block, convert the result, call Ruby
    /\ flying = Quiet /\ chain # <<>>
    /\ \/ \E at \in Links : <<Last(chain).at, at>> \in Runs /\ Push(at)
       \/ Innermost({"prepare"}) /\ Become("evaluate", None)
    /\ UNCHANGED <<pending, ex, msg, flying, left>>

Finish ==
    /\ flying = Quiet
    /\ Innermost(Links \ (Carriers \cup {"prepare"}))
    /\ Pop
    /\ UNCHANGED <<pending, ex, msg, flying, left>>

ScriptThrows(e) ==
    /\ Innermost({"script"}) /\ flying = Quiet
    /\ e # Longjmp /\ (e = Null => ThrowsNull)
    /\ Throw(e)
    /\ flying' = Fly("js", e)
    /\ UNCHANGED chain

RubyRaises(e) ==
    /\ RubyActive /\ flying = Quiet /\ chain # <<>> /\ e # Null
    /\ flying' = Fly("ruby", e)
    /\ UNCHANGED <<chain, pending, ex, msg, left>>

(* A call of the engine fails.  Its error becomes the pending exception,   *)
(* as that of JERROR does; without a frame, or without memory, only the    *)
(* reporter gets it.                                                       *)
EngineFails(e) ==
    /\ Innermost(Entries \cup {"script"}) /\ flying = Quiet /\ e \in Errors
    /\ \/ Throw(e)
       \/ Unpropagated /\ ~Framed /\ report_js_error(e)
       \/ Unpropagated /\ RunOutOfMemory(e)
    /\ flying' = Fly("js", e)
    /\ UNCHANGED chain
-----------------------------------------------------------------------------
ScriptUnwinds ==
    /\ Innermost({"script"}) /\ flying.in = "js"
    /\ Pop
    /\ UNCHANGED <<pending, ex, msg, flying, left>>

ScriptCatches ==
    /\ Innermost({"script"}) /\ flying.in = "js" /\ pending # None
    /\ pending' = None /\ left' = None
    /\ flying' = Quiet
    /\ UNCHANGED <<chain, ex, msg>>

RubyRescues ==
    /\ RubyActive /\ flying.in = "ruby"
    /\ flying' = Quiet
    /\ UNCHANGED <<chain, pending, ex, msg, left>>

\* Mutant: the exception stays pending.
TakePendingUncleared ==
    ex' = (IF pending # None THEN pending ELSE ex) /\ UNCHANGED <<pending, left>>

(* JS_GetPendingException into ex, JS_ClearPendingException. *)
TakePending ==
    /\ ex' = IF pending # None THEN pending ELSE ex
    /\ pending' = None /\ left' = None

raise_js_error_in_ruby ==
    /\ Innermost({"call"}) /\ flying.in = "js"
    /\ TakePending
    /\ IF Stored'
       THEN Become("deliver", ex') /\ flying' = Quiet
       ELSE Pop /\ flying' = Fly("ruby", msg)
    /\ UNCHANGED msg

(* The two if (!ok) blocks of runtime.c: without a stored exception both   *)
(* functions go on with the value they have and return.                    *)
RaiseOrGoOn ==
    /\ Innermost({"compile", "evaluate"}) /\ flying.in = "js"
    /\ TakePending
    /\ IF Stored' THEN Become("deliver", ex') ELSE Pop
    /\ flying' = Quiet
    /\ UNCHANGED msg

\* Mutant: what is raised is what the context has stored by then.
DeliverRereads ==
    /\ Innermost({"deliver"}) /\ flying = Quiet
    /\ Pop
    /\ flying' = Fly("ruby", ex)
    /\ UNCHANGED <<pending, ex, msg, left>>

(* RAISE_JS_ERROR: the exception has been converted, its properties have   *)
(* been read, and raise_js_exception raises the error made of them.        *)
Deliver ==
    /\ Innermost({"deliver"}) /\ flying = Quiet
    /\ Pop
    /\ flying' = Fly("ruby", Last(chain).error)
    /\ UNCHANGED <<pending, ex, msg, left>>

(* The script of set_trap, clear_trap and evaluate_compiled_script cannot  *)
(* be converted: rb_raise, and the exception stays pending.                *)
RaiseUnconverted ==
    /\ Innermost({"trap", "prepare"}) /\ flying.in = "js"
    /\ Pop
    /\ flying' = Fly("ruby", Unconverted)
    /\ left' = pending
    /\ UNCHANGED <<pending, ex, msg>>

(* JPROTECT and call_ruby_from_js in a handler: inspect an exception; a    *)
(* throw becomes a string, unless there is no memory for it.               *)
report_ruby_error_in_js ==
    /\ Innermost({"handler"}) /\ flying.in = "ruby"
    /\ IF flying.error # Longjmp
       THEN /\ Become("report", flying.error)
            /\ flying' = Quiet
            /\ UNCHANGED <<pending, ex, msg, left>>
       ELSE /\ Pop
            /\ \/ Throw(Longjmp)
               \/ \E e \in Errors : Unpropagated /\ RunOutOfMemory(e)
            /\ flying' = Fly("js", Longjmp)

(* JS_ReportError with what inspect has returned: an Error becomes         *)
(* pending if there is a frame, which can be one that was jumped over.     *)
Report ==
    /\ Innermost({"report"}) /\ flying = Quiet
    /\ Pop
    /\ \/ Throw(Last(chain).error)
       \/ Unpropagated /\ ~Framed /\ report_js_error(Last(chain).error)
    /\ flying' = Fly("js", Last(chain).error)

\* Mutant: the jump does not leave the function.
JumpNowhere == chain # <<>> /\ flying.in = "ruby" /\ UNCHANGED vars

(* rb_jump_tag at the end of JPROTECT in a function of kind ruby, and the  *)
(* jump over everything else when Ruby was called without rb_protect.      *)
JumpOn ==
    /\ chain # <<>> /\ flying.in = "ruby"
    /\ Pop
    /\ UNCHANGED <<pending, ex, msg, flying, left>>

Start == \/ \E entry \in Entries : Enter(entry)
         \/ Continue \/ Finish \/ Deliver \/ Report
         \/ \E e \in Values : ScriptThrows(e) \/ RubyRaises(e) \/ EngineFails(e)

Propagate == \/ ScriptUnwinds \/ ScriptCatches \/ RubyRescues
             \/ raise_js_error_in_ruby \/ RaiseOrGoOn \/ RaiseUnconverted
             \/ report_ruby_error_in_js \/ JumpOn

Next == Start \/ Propagate
Spec == Init /\ [][Next]_vars
(* An error travels by returns and longjmps, which nothing delays. *)
FairSpec == Spec /\ WF_vars(Propagate)
-----------------------------------------------------------------------------
(* Among the rest: what Ruby is given or made to raise, and what is        *)
(* described to script, is an error, never null and never nothing.         *)
TypeOK ==
    /\ chain \in Seq([at : Links, error : Described \cup {None}])
    /\ \A i \in DOMAIN chain : chain[i].error # None <=> chain[i].at \in Carriers
    /\ {pending, ex, left} \subseteq Described \cup {Null, None} /\ msg \in Described
    /\ flying = Quiet \/ flying \in [in : {"ruby"}, error : Described]
                      \/ flying \in [in : {"js"}, error : Described \cup {Null}]

(* An exception pending on the context is the error that script is about   *)
(* to see, or one that set_trap, clear_trap or evaluate_compiled_script    *)
(* left there; the functions that take an error out of the engine leave    *)
(* none, whatever the code that describes it does, so no later call of the *)
(* engine fails because of it (conversions.c:305, runtime.c:108 and 160).  *)
PendingIsInFlight == pending # None => flying = Fly("js", pending) \/ pending = left

(* An error that is an exception of either side, null excepted, is handled *)
(* or described to the other side, and what is raised there is about it,   *)
(* whatever the code that describes it stores and leaves in the context,   *)
(* unless that code fails: ErrorDelivery.                                  *)
Exception == IF flying.in = "js" /\ (pending # flying.error \/ pending = Null)
             THEN None ELSE flying.error
Side == IF RubyActive THEN "ruby"
        ELSE IF Innermost({"script"}) THEN "script"
        ELSE IF Innermost({"trap", "prepare"}) THEN "argument" ELSE "bridge"
Carried == [i \in DOMAIN chain |-> chain[i].error]
Delivery == INSTANCE ErrorDelivery WITH
    Failures <- Described, NoFailure <- None, Jumps <- {Longjmp}, Unspecific <- Unconverted,
    inflight <- Exception, carried <- Carried, side <- Side, framed <- Framed
ImplementsDelivery == Delivery!Spec

(* An error on its way is handled by Ruby or script, or reaches the code   *)
(* that describes it to the other side.                                    *)
ErrorsArrive == flying # Quiet ~> flying = Quiet
-----------------------------------------------------------------------------
(* What comments promise or later calls rely on, and the code does not     *)
(* keep.                                                                   *)

(* What the if (!ok) blocks and raise_js_error_in_ruby raise is the error  *)
(* that made the call fail, not one stored before (context.c:18-21).       *)
TheErrorIsRaised ==
    [][flying.in = "js" /\ Innermost({"call", "compile", "evaluate"})
         => \/ Len(chain') = Len(chain) /\ Last(chain').error = flying.error
            \/ flying' = Fly("ruby", flying.error)]_vars

(* A script that failed does not return a value to Ruby (context.c:21).    *)
FailureIsNotAResult ==
    [][flying.in = "js" /\ flying' = Quiet => Innermost({"script"}) \/ Stored']_vars

(* The message is never what is raised: "I don't think this can ever       *)
(* happen" (conversions.c:318).                                            *)
MessageIsNotNeeded ==
    [][flying.in = "js" /\ Innermost({"call"}) => Stored']_vars

(* No exception stays pending when Ruby code goes on: set_trap, clear_trap *)
(* and evaluate_compiled_script leave one (runtime.c:48, 73 and 147).      *)
NothingIsLeft == left = None
=============================================================================
