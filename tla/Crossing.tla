------------------------------ MODULE Crossing ------------------------------
(***************************************************************************)
(* The stack of C functions between Ruby and JavaScript, and the local     *)
(* roots of ext/spidermonkey/jroot.h.  Each function of BridgeFunctions    *)
(* runs in a frame that carries what it still has to do and the cleanups   *)
(* it holds.  At a step "ruby", "bare" or "script" the program has the     *)
(* control: Ruby code or script, that may call the bridge again, return or *)
(* fail.  A failure of script reaches the C function as a false value, an  *)
(* exception of Ruby as a longjmp that only rb_protect stops.              *)
(***************************************************************************)
EXTENDS BridgeFunctions, Naturals, FiniteSets, SequencesExt

CONSTANTS
    MaxDepth,        \* bound on the C functions that are active at once
    RubyEntries,     \* the methods Ruby code calls
    ScriptEntries,   \* the handlers script calls
    MaxTears         \* bound on the exceptions from unprotected calls

ASSUME CrossingAssumption ==
    /\ MaxDepth \in Nat \ {0} /\ MaxTears \in Nat
    /\ RubyEntries \subseteq RubyMethods
    /\ ScriptEntries \subseteq ScriptHandlers

VARIABLES
    stack,       \* the active C functions, the innermost last
    registered,  \* roots of the JSRuntime and id arrays in use: <<depth, name>>
    torn,        \* the exceptions that unprotected calls have raised
    control      \* "bridge": the innermost C function runs; "program": Ruby or
                 \* script runs above it; "js", "ruby": a failure, or an
                 \* exception, arrives there; "null": it uses a NULL

vars == <<stack, registered, torn, control>>

Hole == "NULL"      \* a cleanup that JUNROOT has cleared
Depth == Len(stack)
Top == stack[Depth]
Op == Head(Top.todo)
Idle == stack = <<>>

OpIs(kinds) == ~Idle /\ Op.do \in kinds
RubyRuns   == Idle \/ OpIs({"ruby", "bare"})
ScriptRuns == OpIs({"script"})

Frame(f) == [fn |-> f, todo |-> Body[f].todo, held |-> <<>>]
Held(d)  == {<<d, x>> : x \in ToSet(stack[d].held) \ {Hole}}

Init == stack = <<>> /\ registered = {} /\ torn = 0 /\ control = "program"
-----------------------------------------------------------------------------
(* The list of cleanups. *)
Become(frame) == stack' = [stack EXCEPT ![Depth] = frame]
Continue(steps) == Become([Top EXCEPT !.todo = steps])
Advance == Continue(Tail(Top.todo))

Register ==      \* JROOT once JS_AddNamedRoot succeeded, JCLEANUP
    /\ OpIs({"root", "cleanup"})
    /\ Become([Top EXCEPT !.todo = Tail(@), !.held = Append(@, Op.of)])
    /\ registered' = registered \cup {<<Depth, Op.of>>}
    /\ UNCHANGED <<torn, control>>

\* Mutant: JUNROOT never shrinks the list.
WithoutShrinking(held, x) == [i \in DOMAIN held |-> IF held[i] = x THEN Hole ELSE held[i]]

(* The last entry goes, with those like it right below; others become a hole. *)
Without(held, x) ==
    LET keep == SelectLastInSeq(held, LAMBDA y : y # x)
    IN  [i \in 1..keep |-> IF held[i] = x THEN Hole ELSE held[i]]

\* Mutant: JUNROOT forgets its entry of the list.
UnregisterKeepsEntry ==
    /\ OpIs({"unroot"})
    /\ Advance
    /\ registered' = registered \ ({<<Depth, Op.of>>} \cap Held(Depth))
    /\ UNCHANGED <<torn, control>>

Unregister ==      \* JUNROOT
    /\ OpIs({"unroot"})
    /\ Become([Top EXCEPT !.todo = Tail(@), !.held = Without(@, Op.of)])
    /\ registered' = registered \ ({<<Depth, Op.of>>} \cap Held(Depth))
    /\ UNCHANGED <<torn, control>>

(* REMOVE_JROOTS does not reset the index, but every caller leaves next. *)
RemoveRoots ==
    /\ OpIs({"remove"})
    /\ Become([Top EXCEPT !.todo = Tail(@), !.held = <<>>])
    /\ registered' = registered \ Held(Depth)
    /\ UNCHANGED <<torn, control>>
-----------------------------------------------------------------------------
(* Calls and returns of C functions. *)
Push(f) ==
    /\ stack' = Append(stack, Frame(f))
    /\ control' = "bridge"
    /\ UNCHANGED <<registered, torn>>

CallFunction ==
    /\ OpIs({"call", "protected", "direct"})
    /\ Depth < MaxDepth
    /\ Push(Op.fn)

(* Control goes back to the caller: a C function goes on, program code *)
(* gets a value, the engine goes on with the call that collected.      *)
PopAndReturn ==
    LET caller == Front(stack)
    IN  IF caller # <<>> /\ Head(Last(caller).todo).do \in {"call", "protected", "direct"}
        THEN /\ stack' = [caller EXCEPT ![Len(caller)].todo = Tail(@)]
             /\ control' = "bridge"
        ELSE /\ stack' = caller
             /\ control' = IF caller # <<>> /\ Head(Last(caller).todo).do = "engine"
                           THEN "bridge" ELSE "program"

PopAndFail(how) == stack' = Front(stack) /\ control' = how

Leaving ==      \* JRETURN, JRETURN_RUBY; a plain return removes nothing
    /\ OpIs({"leave", "return"})
    /\ PopAndReturn
    /\ registered' = IF Op.do = "leave" THEN registered \ Held(Depth) ELSE registered
    /\ UNCHANGED torn

Failing ==      \* return JS_FALSE; rb_raise, rb_jump_tag
    /\ OpIs({"fail", "raise"})
    /\ PopAndFail(IF Op.do = "fail" THEN "js" ELSE "ruby")
    /\ UNCHANGED <<registered, torn>>
-----------------------------------------------------------------------------
\* Mutants: JCHECK does not clean up; does not leave; tries again.
JCheckUnclean(kind) == IF kind = "ruby" THEN raise_js_error_in_ruby ELSE <<Fail>>
JCheckStays(kind) == <<Release>>
JCheckRetries(kind) == Top.todo

(* A false value: JCHECK cleans up, then raises in Ruby or passes it on, *)
(* unless the function tests the value itself.                           *)
JCheck(kind) ==
    <<Release>> \o (IF kind = "ruby" THEN raise_js_error_in_ruby ELSE <<Fail>>)

WhenFalse ==
    IF "else" \in DOMAIN Op /\ Op.else # <<>>
    THEN Op.else \o Tail(Top.todo)
    ELSE JCheck(Body[Top.fn].kind)

\* Mutant: JPROTECT goes on with the jump in every function.
WhenRaisedJumps == <<Release, Raise>>

(* An exception that rb_protect has stopped: JPROTECT. *)
WhenRaised ==
    <<Release>> \o (IF Body[Top.fn].kind = "ruby" THEN <<Raise>> ELSE report_ruby_error_in_js)

(* An exception from a call that no rb_protect surrounds. *)
Tear == torn < MaxTears /\ torn' = torn + 1

(* What the innermost function does without leaving C.  A function that    *)
(* would go beyond MaxDepth is not entered: it succeeds or fails at once.  *)
Choose ==
    /\ OpIs({"either"})
    /\ \E branch \in Op.of : Continue(branch \o Tail(Top.todo))
    /\ UNCHANGED <<registered, torn, control>>

Repeat ==
    /\ OpIs({"loop"})
    /\ Continue(Op.of \o Top.todo)
    /\ UNCHANGED <<registered, torn, control>>

Succeed ==
    /\ \/ OpIs({"engine", "loop", "coerce"})
       \/ OpIs({"call", "protected", "direct"}) /\ Depth = MaxDepth
    /\ Advance
    /\ UNCHANGED <<registered, torn, control>>

NotDone ==      \* an engine call or JS_AddNamedRoot fails
    /\ OpIs({"engine", "root"}) \/ (OpIs({"call"}) /\ Depth = MaxDepth)
    /\ Continue(WhenFalse)
    /\ UNCHANGED <<registered, torn, control>>

Jump ==         \* the argument of NUM2INT, or a C function, raises
    /\ \/ OpIs({"coerce"}) /\ Tear
       \/ OpIs({"protected", "direct"}) /\ Depth = MaxDepth /\ UNCHANGED torn
    /\ control' = "ruby"
    /\ UNCHANGED <<stack, registered>>

Collect ==      \* an engine call collects
    /\ OpIs({"engine"}) /\ Depth < MaxDepth
    /\ \E f \in ScriptEntries \cap CollectorHandlers : Push(f)

Handover ==     \* Ruby code or script begins to run
    /\ OpIs({"ruby", "bare", "script"})
    /\ control' = "program"
    /\ UNCHANGED <<stack, registered, torn>>

UseNull ==
    /\ OpIs({"null"})
    /\ control' = "null"
    /\ UNCHANGED <<stack, registered, torn>>

Bridge ==
    /\ control = "bridge"
    /\ \/ Register \/ Unregister \/ RemoveRoots \/ CallFunction \/ Leaving \/ Failing
       \/ Choose \/ Repeat \/ Succeed \/ NotDone \/ Jump \/ Collect \/ Handover \/ UseNull
-----------------------------------------------------------------------------
(* Ruby code and script. *)
ProgramCalls ==
    /\ control = "program" /\ Depth < MaxDepth
    /\ \/ RubyRuns   /\ \E f \in RubyEntries : Push(f)
       \/ ScriptRuns /\ \E f \in ScriptEntries : Push(f)

ProgramReturns ==
    /\ control = "program" /\ ~Idle
    /\ Advance
    /\ control' = "bridge"
    /\ UNCHANGED <<registered, torn>>

ProgramFails ==
    /\ control = "program"
    /\ \/ ScriptRuns /\ control' = "js" /\ UNCHANGED torn
       \/ OpIs({"ruby"}) /\ control' = "ruby" /\ UNCHANGED torn
       \/ OpIs({"bare"}) /\ control' = "ruby" /\ Tear
    /\ UNCHANGED <<stack, registered>>

(* The program handles what its call of the bridge raised or threw. *)
Handle ==
    /\ \/ control = "js" /\ ScriptRuns
       \/ control = "ruby" /\ RubyRuns
    /\ control' = "program"
    /\ UNCHANGED <<stack, registered, torn>>

(* A false value arrives at the C function that made the call. *)
Arrive ==
    /\ control = "js" /\ OpIs({"engine", "script", "call"})
    /\ Continue(WhenFalse)
    /\ control' = "bridge"
    /\ UNCHANGED <<registered, torn>>

(* A longjmp arrives at a C function: rb_protect stops it, *)
Stop ==
    /\ control = "ruby" /\ OpIs({"ruby", "protected"})
    /\ Continue(WhenRaised)
    /\ control' = "bridge"
    /\ UNCHANGED <<registered, torn>>

(* any other call does not: the function is abandoned where it is. *)
Abandon ==
    /\ control = "ruby" /\ ~Idle /\ ~OpIs({"ruby", "protected"})
    /\ IF OpIs({"bare"}) THEN Tear ELSE UNCHANGED torn
    /\ PopAndFail("ruby")
    /\ UNCHANGED registered

Unwind == Handle \/ Arrive \/ Stop \/ Abandon

(* The use of a NULL ends the process. *)
Ended == control = "null" /\ UNCHANGED vars

Next == Bridge \/ ProgramCalls \/ ProgramReturns \/ ProgramFails \/ Unwind \/ Ended

(* Ruby and script may run for ever.  C code may not: its loops are over   *)
(* the arguments of a call, the elements of an array, the ids of an object.*)
LoopEnds == control = "bridge" /\ OpIs({"loop"}) /\ Succeed
Fairness == WF_vars(Bridge) /\ SF_vars(LoopEnds) /\ WF_vars(Unwind)
Spec == Init /\ [][Next]_vars
FairSpec == Spec /\ Fairness
-----------------------------------------------------------------------------
Names == {"target", "function", "args[i]", "proxy_value", "js_value", "obj", "value", "ids",
          "js_key", "str", "regexp", "js", "id", "johnson", "jsobj", "Object", "name",
          "nsJohnson", "cSymbol", "maybe_symbol", "maybe_regexp"}

TypeOK ==
    /\ Depth <= MaxDepth
    /\ \A d \in 1..Depth :
         /\ stack[d].fn \in Functions
         /\ stack[d].held \in Seq(Names \cup {Hole})
         /\ stack[d].todo # <<>>
    /\ registered \subseteq (1..MaxDepth) \X Names
    /\ torn \in 0..MaxTears
    /\ control \in {"bridge", "program", "js", "ruby", "null"}

(* What is registered is what the active functions will remove, at every   *)
(* step and along every way out of a function: no root outlives the C      *)
(* variable it points to, and none is removed while the variable is used   *)
(* (JROOT, JUNROOT, REMOVE_JROOTS of jroot.h and every function), as long  *)
(* as no call outside of rb_protect has raised.                            *)
RootsBalanced == torn = 0 => registered = UNION {Held(d) : d \in 1..Depth}

(* A variable an active function relies on is never unregistered by any    *)
(* other function, after an unprotected call has raised as well: the roots *)
(* it leaves behind keep more alive, never less.                           *)
HeldIsRegistered == \A d \in 1..Depth : Held(d) \subseteq registered

(* assert(_jroot_cleanidx < _jroot_cleans) of JCLEANUP never fails: the    *)
(* number given to PREPARE_JROOTS is enough for every path, also for the   *)
(* loop of each, whose JUNROOTs have to come in the reverse order.         *)
CapacityHolds == \A d \in 1..Depth : Len(stack[d].held) <= Body[stack[d].fn].room

(* A false value only reaches C code that tests it, never Ruby: a function *)
(* Ruby or a protected call can reach raises, and the others do not.       *)
FailureIsTested == control = "js" => OpIs({"engine", "script", "call"})

(* An exception of Ruby never passes through script, unless it comes from  *)
(* an unprotected call: every other C function the engine calls stops it   *)
(* ("SpiderMonkey REALLY doesn't like being interrupted", context.c:18).   *)
NoJumpOverScript == control = "ruby" /\ torn = 0 => ~OpIs({"engine", "script", "call"})

(* Every call of the bridge gives control back: a failure on its way up,   *)
(* or C code that runs, comes to an end in Ruby code or in script, or uses *)
(* a NULL (see NullIsNotUsed) and ends the process.                        *)
ControlComesBack == control # "program" ~> control \in {"program", "null"}
-----------------------------------------------------------------------------
(* What the code does not keep. *)

(* No function goes on with the NULL of an engine call that failed: to_s   *)
(* converts "using its toString method if available"                       *)
(* (ruby_land_proxy.c:465-466) and convert_to_ruby calls a Symbol's, but   *)
(* the method may throw; convert_symbol_to_js and resolve only allocate.   *)
NullIsNotUsed == control # "null"
=============================================================================
