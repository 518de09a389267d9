-------------------------------- MODULE Traps --------------------------------
(***************************************************************************)
(* Breakpoints: RubyLandScript#break arms a trap of the engine with        *)
(* Runtime#set_trap, which may also be called by itself, and notes it in   *)
(* Runtime#traps.  The interpreter calls the block, and every evaluation   *)
(* clears all the traps that were ever noted when it is over.  Evaluations *)
(* nest: a block, or any Ruby method a script calls, may evaluate a script *)
(* of its own.                                                             *)
(***************************************************************************)
EXTENDS Naturals, SequencesExt

CONSTANTS
    Scripts, Blocks, Lines,
    LineNumberToPC,   \* JS_LineNumberToPC: some lines share an instruction
    MaxNest,          \* bound on evaluations that are active at once
    BlocksAreKept,    \* does the program itself refer to its blocks?
    None

ASSUME TrapsAssumption ==
    /\ LineNumberToPC \in [Lines -> Nat]
    /\ MaxNest \in Nat /\ BlocksAreKept \in BOOLEAN
    /\ None \notin Blocks

PCs == {LineNumberToPC[line] : line \in Lines}

VARIABLES
    armed,    \* rt->trapList: the block of each trap, and by what it was set
    traps,    \* Runtime#traps
    running,  \* the evaluations that are active: the script, and what it calls
    alive     \* the blocks that Ruby has not freed

vars == <<armed, traps, running, alive>>

Top == Last(running)
Method == "method"      \* any Ruby method
ScriptRuns == running # <<>> /\ Top.calls = None
RubyRuns   == ~ScriptRuns
Calls(ruby) == running' = [running EXCEPT ![Len(running)].calls = ruby]

Init ==
    /\ armed = [s \in Scripts |-> [pc \in PCs |-> None]]
    /\ traps = {} /\ running = <<>> /\ alive = Blocks
-----------------------------------------------------------------------------
(* The engine replaces the block of a trap that is armed. *)
Arm(s, line, b, by) ==
    /\ RubyRuns /\ b \in alive
    /\ armed' = [armed EXCEPT ![s][LineNumberToPC[line]] = [block |-> b, by |-> by]]
    /\ UNCHANGED <<running, alive>>

set_trap(s, line, b) == Arm(s, line, b, "set_trap") /\ UNCHANGED traps

\* Mutant: break does not note the trap.
BreakUnnoted(s, line, b) == Arm(s, line, b, "break") /\ UNCHANGED traps

(* set_trap and runtime.traps <<. *)
Break(s, line, b) == Arm(s, line, b, "break") /\ traps' = traps \cup {<<s, line>>}

Evaluate(s) ==
    /\ RubyRuns /\ Len(running) < MaxNest
    /\ running' = Append(running, [script |-> s, calls |-> None])
    /\ UNCHANGED <<armed, traps, alive>>

trap_handler(pc) ==      \* the interpreter reaches an armed instruction
    /\ ScriptRuns /\ armed[Top.script][pc] # None
    /\ Calls(armed[Top.script][pc].block)
    /\ UNCHANGED <<armed, traps, alive>>

CallRuby ==              \* the script calls a method of a Ruby object
    /\ ScriptRuns
    /\ Calls(Method)
    /\ UNCHANGED <<armed, traps, alive>>

RubyReturns ==           \* or raises, and the script catches it
    /\ running # <<>> /\ RubyRuns
    /\ Calls(None)
    /\ UNCHANGED <<armed, traps, alive>>

(* The script ends, or fails; the ensure clause clears every tuple of      *)
(* @traps and leaves them there.                                           *)
clear_trap(s, pc) == \E line \in Lines : <<s, line>> \in traps /\ LineNumberToPC[line] = pc

EvaluationEnds ==
    /\ ScriptRuns
    /\ running' = Front(running)
    /\ armed' = [s \in Scripts |->
                    [pc \in PCs |-> IF clear_trap(s, pc) THEN None ELSE armed[s][pc]]]
    /\ UNCHANGED <<traps, alive>>

(* Neither @traps nor the engine's list of traps keeps a block from Ruby's *)
(* collector; the one being called is on the stack.                        *)
CollectBlock(b) ==
    /\ ~BlocksAreKept /\ b \in alive /\ \A i \in 1..Len(running) : running[i].calls # b
    /\ alive' = alive \ {b}
    /\ UNCHANGED <<armed, traps, running>>

Next ==
    \/ \E s \in Scripts :
         Evaluate(s) \/ \E line \in Lines, b \in Blocks : set_trap(s, line, b) \/ Break(s, line, b)
    \/ \E pc \in PCs : trap_handler(pc)
    \/ CallRuby \/ RubyReturns \/ EvaluationEnds
    \/ \E b \in Blocks : CollectBlock(b)

Spec == Init /\ [][Next]_vars
-----------------------------------------------------------------------------
ArmedTraps == {trap \in Scripts \X PCs : armed[trap[1]][trap[2]] # None}
Breakpoints == {trap \in ArmedTraps : armed[trap[1]][trap[2]].by = "break"}

(* No breakpoint outlives the outermost evaluation, however it ended,      *)
(* whichever level or block set it, and whatever traps set_trap has put    *)
(* there before: test_breakpoints_are_cleared, runtime_test.rb:99.         *)
TrapsAreCleared ==
    [][running # <<>> /\ running' = <<>> => Breakpoints' = {}]_vars

-----------------------------------------------------------------------------
(* What the code does not keep.                                            *)

(* A script keeps its traps while it runs: "Set a trap to invoke +block+   *)
(* when execution of +script+ reaches +line_num+" (runtime.c:62-63).       *)
RunningScriptKeepsItsTraps ==
    [][\A trap \in ArmedTraps :
         trap[1] \in {running'[i].script : i \in 1..Len(running')} => trap \in ArmedTraps']_vars

(* No trap at all outlives the outermost evaluation: one that set_trap set *)
(* by itself is not noted.                                                 *)
NothingStaysArmed ==
    [][running # <<>> /\ running' = <<>> => ArmedTraps' = {}]_vars

(* The block a trap calls is one that Ruby has not freed. *)
CalledBlockIsAlive ==
    \A i \in 1..Len(running) : running[i].calls \in Blocks => running[i].calls \in alive
=============================================================================
