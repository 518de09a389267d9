------------------------ MODULE DebuggerHooks_proofs ------------------------
(***************************************************************************)
(* Which Debugger the hooks call, and that Ruby still has it, for any      *)
(* number of contexts and of Debuggers.                                    *)
(***************************************************************************)
EXTENDS DebuggerHooks, TLAPS

HooksTypeOK ==
    /\ held \subseteq Debuggers /\ freed \subseteq Debuggers
    /\ contextHooks \in [Contexts -> Debuggers \cup {None}]

(* debugger= gives the runtime and the context of its thread the same      *)
(* hooks; the hooks of other contexts stay what they were.                 *)
HooksFollow ==
    /\ runtimeHooks = installed
    /\ \A c \in Contexts : OnlyWithHooks(c) => contextHooks[c] \in {None, installed}

(* The Debuggers Ruby can reach have not been freed. *)
ReachableIsAlive ==
    /\ held \cap freed = {}
    /\ runtime = "live" => debugger \notin freed

Inv == HooksTypeOK /\ HooksFollow /\ ReachableIsAlive /\ HookedDebuggerIsAlive

(* A live runtime's hooks, where one thread has installed Debuggers, call  *)
(* the Debugger of the last debugger= that did not raise.                  *)
LEMMA HookIsInstalled ==
  ASSUME HooksTypeOK, HooksFollow, NEW c \in Contexts,
         OnlyWithHooks(c) \/ contextHooks[c] = None
  PROVE  HookOf(c) = installed
BY DEF HooksFollow, HookOf
-----------------------------------------------------------------------------
LEMMA InitInv == Init => Inv
BY DebuggerHooksAssumption
   DEF Init, Inv, HooksTypeOK, HooksFollow, ReachableIsAlive, HookedDebuggerIsAlive

LEMMA SetDebuggerStep ==
  ASSUME Inv, NEW c \in Contexts, NEW d \in Debuggers, set_debugger(c, d)
  PROVE  Inv'
<1> USE DEF Inv, HooksTypeOK, set_debugger
<1>1. HooksTypeOK'
  OBVIOUS
<1>2. contextHooks'[c] = d /\ d # None
  BY DebuggerHooksAssumption
<1>3. HooksFollow'
  BY <1>2 DEF HooksFollow, OnlyWithHooks
<1>4. ReachableIsAlive' /\ HookedDebuggerIsAlive'
  BY DebuggerHooksAssumption DEF ReachableIsAlive, HookedDebuggerIsAlive
<1> QED BY <1>1, <1>3, <1>4

LEMMA SetDebuggerFailsStep ==
  ASSUME Inv, NEW c \in Contexts, NEW d \in Debuggers, set_debugger_fails(c, d)
  PROVE  Inv'
BY DebuggerHooksAssumption
   DEF set_debugger_fails, Inv, HooksTypeOK, HooksFollow, OnlyWithHooks,
       ReachableIsAlive, HookedDebuggerIsAlive

(* Whichever context reaches a hook, what it calls is the installed        *)
(* Debugger, which @debugger keeps when the two are the same.              *)
LEMMA RunHookStep ==
  ASSUME Inv, NEW c \in Contexts, RunHook(c)
  PROVE  Inv'
<1> USE DEF Inv, RunHook
<1>1. HooksTypeOK' /\ HooksFollow' /\ ReachableIsAlive'
  BY DEF HooksTypeOK, HooksFollow, OnlyWithHooks, ReachableIsAlive
<1>2. ASSUME NEW only \in Contexts, OnlyWithHooks(only) PROVE HookOf(c) = installed
  <2>1. CASE c = only
    BY <1>2, <2>1, HookIsInstalled
  <2>2. CASE c # only
    BY <1>2, <2>2, HookIsInstalled DEF OnlyWithHooks
  <2> QED BY <2>1, <2>2
<1>3. HookedDebuggerIsAlive'
  BY <1>2 DEF HookedDebuggerIsAlive, ReachableIsAlive, OnlyWithHooks
<1> QED BY <1>1, <1>3

LEMMA RubyStep ==
  ASSUME Inv, \/ \E d \in Debuggers : DropDebugger(d) \/ FreeDebugger(d)
              \/ DropRuntime \/ deallocate
  PROVE  Inv'
<1> USE DebuggerHooksAssumption
    DEF Inv, HooksTypeOK, HooksFollow, OnlyWithHooks, ReachableIsAlive, HookedDebuggerIsAlive
<1>1. ASSUME NEW d \in Debuggers, DropDebugger(d) PROVE Inv'
  BY <1>1 DEF DropDebugger
<1>2. ASSUME NEW d \in Debuggers, FreeDebugger(d) PROVE Inv'
  BY <1>2 DEF FreeDebugger, Reachable
<1>3. CASE DropRuntime
  BY <1>3 DEF DropRuntime
<1>4. CASE deallocate
  BY <1>4 DEF deallocate
<1> QED BY <1>1, <1>2, <1>3, <1>4

LEMMA Stutter == Inv /\ UNCHANGED vars => Inv'
BY DEF Inv, vars, HooksTypeOK, HooksFollow, OnlyWithHooks, ReachableIsAlive,
       HookedDebuggerIsAlive

LEMMA Invariant == Spec => []Inv
<1>1. Inv /\ [Next]_vars => Inv'
  BY SetDebuggerStep, SetDebuggerFailsStep, RunHookStep, RubyStep, Stutter DEF Next
<1> QED BY InitInv, <1>1, PTL DEF Spec
-----------------------------------------------------------------------------
(* Script in a context whose thread never called debugger=, or in the only *)
(* context that did, is seen by the Debugger installed last.               *)
THEOREM LastInstalledIsCalled == Spec => []LastDebuggerIsCalled
<1>1. Inv => LastDebuggerIsCalled
  BY HookIsInstalled DEF Inv, LastDebuggerIsCalled
<1> QED BY Invariant, <1>1, PTL

(* With one thread that installs Debuggers, and no debugger= that failed,  *)
(* no hook of a live runtime calls a Debugger that Ruby has freed.         *)
THEOREM HookedStaysAlive == Spec => []HookedDebuggerIsAlive
<1>1. Inv => HookedDebuggerIsAlive
  BY DEF Inv
<1> QED BY Invariant, <1>1, PTL
=============================================================================
