---------------------------- MODULE Traps_proofs ----------------------------
(***************************************************************************)
(* No breakpoint outlives the outermost evaluation, for any scripts, lines *)
(* and blocks, and any depth of nested evaluations: what break has armed   *)
(* is noted under a line with the same instruction, whatever set_trap arms *)
(* besides, and ending an evaluation clears all that is noted.             *)
(***************************************************************************)
EXTENDS Traps, TLAPS

ATrap == [block : Blocks, by : {"break", "set_trap"}]
Evaluations == [script : Scripts, calls : Blocks \cup {None, Method}]

TypeInv ==
    /\ armed \in [Scripts -> [PCs -> ATrap \cup {None}]]
    /\ traps \subseteq Scripts \X Lines
    /\ running \in Seq(Evaluations)
    /\ alive \subseteq Blocks

(* Every breakpoint is one that the ensure clause will clear. *)
BreakpointsAreNoted ==
    \A s \in Scripts, pc \in PCs :
        armed[s][pc] # None /\ armed[s][pc].by = "break" => clear_trap(s, pc)

IInv == TypeInv /\ BreakpointsAreNoted
-----------------------------------------------------------------------------
(* The instruction of a line is one of those that can be armed. *)
LEMMA PCOfLine == \A line \in Lines : LineNumberToPC[line] \in PCs
BY DEF PCs

(* What script calls is noted in the evaluation on top, and no other       *)
(* evaluation begins or ends with it.                                      *)
LEMMA CallsKeepsEvaluations ==
    ASSUME TypeInv, running # <<>>, NEW ruby \in Blocks \cup {None, Method}, Calls(ruby)
    PROVE  running' \in Seq(Evaluations) /\ Len(running') = Len(running)
<1>1. Len(running) \in 1..Len(running)
  BY DEF TypeInv
<1>2. running[Len(running)] \in Evaluations
  BY <1>1 DEF TypeInv
<1>3. [running[Len(running)] EXCEPT !.calls = ruby] \in Evaluations
  BY <1>2 DEF Evaluations
<1>4. running' = [running EXCEPT ![Len(running)] = [running[Len(running)] EXCEPT !.calls = ruby]]
  BY DEF Calls
<1> QED BY <1>1, <1>3, <1>4 DEF TypeInv

(* Arming keeps what is noted, or adds to it. *)
LEMMA ArmStep ==
    ASSUME IInv, NEW s \in Scripts, NEW line \in Lines, NEW b \in Blocks,
           set_trap(s, line, b) \/ Break(s, line, b)
    PROVE  IInv' /\ running' = running
<1> DEFINE pc == LineNumberToPC[line]
<1>1. pc \in PCs
  BY PCOfLine
<1>2. \E how \in {"break", "set_trap"} :
        /\ Arm(s, line, b, how)
        /\ traps \subseteq traps' /\ traps' \subseteq Scripts \X Lines
        /\ how = "break" => <<s, line>> \in traps'
  BY DEF set_trap, Break, IInv, TypeInv
<1>3. PICK how \in {"break", "set_trap"} :
        /\ Arm(s, line, b, how)
        /\ traps \subseteq traps' /\ traps' \subseteq Scripts \X Lines
        /\ how = "break" => <<s, line>> \in traps'
  BY <1>2
<1>4. [block |-> b, by |-> how] \in ATrap
  BY DEF ATrap
<1>5. TypeInv'
  BY <1>1, <1>3, <1>4 DEF Arm, IInv, TypeInv
<1>6. BreakpointsAreNoted'
  BY <1>1, <1>3 DEF Arm, IInv, TypeInv, BreakpointsAreNoted, clear_trap
<1> QED BY <1>3, <1>5, <1>6 DEF Arm, IInv

LEMMA EvaluateStep ==
    ASSUME IInv, NEW s \in Scripts, Evaluate(s)
    PROVE  IInv' /\ running' # <<>>
<1>1. [script |-> s, calls |-> None] \in Evaluations
  BY DEF Evaluations
<1>2. TypeInv' /\ running' # <<>>
  BY <1>1 DEF IInv, Evaluate, TypeInv
<1>3. BreakpointsAreNoted'
  BY DEF IInv, Evaluate, BreakpointsAreNoted, clear_trap
<1> QED BY <1>2, <1>3 DEF IInv

(* A trap, a call of Ruby and its end change nothing that is armed. *)
LEMMA CallsStep ==
    ASSUME IInv, running # <<>>, NEW ruby \in Blocks \cup {None, Method}, Calls(ruby),
           UNCHANGED <<armed, traps, alive>>
    PROVE  IInv' /\ running' # <<>>
<1>1. running' \in Seq(Evaluations) /\ Len(running') = Len(running)
  BY CallsKeepsEvaluations DEF IInv
<1>2. TypeInv' /\ running' # <<>>
  BY <1>1 DEF IInv, TypeInv
<1>3. BreakpointsAreNoted'
  BY DEF IInv, BreakpointsAreNoted, clear_trap
<1> QED BY <1>2, <1>3 DEF IInv

(* The end of any evaluation, a nested one too, clears every breakpoint. *)
LEMMA EvaluationEndsStep ==
    ASSUME IInv, EvaluationEnds
    PROVE  IInv' /\ Breakpoints' = {}
<1> USE DEF IInv, EvaluationEnds
<1>1. \A s \in Scripts, pc \in PCs : armed'[s][pc] = None \/ armed'[s][pc].by # "break"
  BY DEF TypeInv, BreakpointsAreNoted
<1>2. running' \in Seq(Evaluations)
  BY DEF TypeInv, Front, ScriptRuns
<1>3. TypeInv'
  BY <1>2 DEF TypeInv
<1>4. BreakpointsAreNoted'
  BY <1>1 DEF BreakpointsAreNoted
<1> QED BY <1>1, <1>3, <1>4 DEF Breakpoints, ArmedTraps

LEMMA CollectBlockStep ==
    ASSUME IInv, NEW b \in Blocks, CollectBlock(b)
    PROVE  IInv' /\ running' = running
BY DEF IInv, CollectBlock, TypeInv, BreakpointsAreNoted, clear_trap

(* Each step keeps the invariant, and the outermost evaluation only ends   *)
(* with no breakpoint armed.                                               *)
LEMMA NextStep ==
    ASSUME IInv, [Next]_vars
    PROVE  IInv' /\ (running # <<>> /\ running' = <<>> => Breakpoints' = {})
<1>1. CASE UNCHANGED vars
  BY <1>1 DEF vars, IInv, TypeInv, BreakpointsAreNoted, clear_trap
<1>2. ASSUME NEW s \in Scripts, Evaluate(s) PROVE IInv' /\ running' # <<>>
  BY <1>2, EvaluateStep
<1>3. ASSUME NEW s \in Scripts, NEW line \in Lines, NEW b \in Blocks,
             set_trap(s, line, b) \/ Break(s, line, b)
      PROVE  IInv' /\ running' = running
  BY <1>3, ArmStep
<1>4. ASSUME NEW pc \in PCs, trap_handler(pc) PROVE IInv' /\ running' # <<>>
  <2>1. running # <<>> /\ Top.script \in Scripts
    <3>1. running # <<>>
      BY <1>4 DEF trap_handler, ScriptRuns
    <3>2. Top \in Evaluations
      BY <3>1 DEF IInv, TypeInv, Top, Last
    <3> QED BY <3>1, <3>2 DEF Evaluations
  <2>2. armed[Top.script][pc].block \in Blocks \cup {None, Method}
    <3>1. armed[Top.script][pc] \in ATrap
      BY <1>4, <2>1 DEF trap_handler, IInv, TypeInv
    <3> QED BY <3>1 DEF ATrap
  <2> QED BY <1>4, <2>1, <2>2, CallsStep DEF trap_handler
<1>5. ASSUME CallRuby PROVE IInv' /\ running' # <<>>
  BY <1>5, CallsStep DEF CallRuby, ScriptRuns
<1>6. ASSUME RubyReturns PROVE IInv' /\ running' # <<>>
  BY <1>6, CallsStep DEF RubyReturns
<1>7. ASSUME EvaluationEnds PROVE IInv' /\ Breakpoints' = {}
  BY <1>7, EvaluationEndsStep
<1>8. ASSUME NEW b \in Blocks, CollectBlock(b) PROVE IInv' /\ running' = running
  BY <1>8, CollectBlockStep
<1> QED BY <1>1, <1>2, <1>3, <1>4, <1>5, <1>6, <1>7, <1>8 DEF Next, vars

(* What is noted covers what is armed, always. *)
LEMMA Inductive == Spec => []IInv
<1>1. Init => IInv
  BY DEF Init, IInv, TypeInv, BreakpointsAreNoted
<1>2. IInv /\ [Next]_vars => IInv'
  BY NextStep
<1> QED BY <1>1, <1>2, PTL DEF Spec
-----------------------------------------------------------------------------
(* No breakpoint outlives the outermost evaluation, however it ended, on   *)
(* whatever level it was set and whichever lines share an instruction.     *)
THEOREM NoBreakpointOutlivesEvaluation == Spec => TrapsAreCleared
<1>1. IInv /\ [Next]_vars => [running # <<>> /\ running' = <<>> => Breakpoints' = {}]_vars
  BY NextStep
<1> QED BY <1>1, Inductive, PTL DEF Spec, TrapsAreCleared
=============================================================================
