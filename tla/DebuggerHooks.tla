---------------------------- MODULE DebuggerHooks ----------------------------
(***************************************************************************)
(* debugger= of a runtime with several contexts: which Debugger the hooks  *)
(* of each context call, and whether Ruby still has it.  The JSDebugHooks  *)
(* of a Debugger are never freed, but their data is a plain pointer to it. *)
(***************************************************************************)
CONSTANTS
    Contexts,      \* the contexts of one runtime, one for each thread
    Debuggers,
    None

ASSUME DebuggerHooksAssumption == None \notin Debuggers

VARIABLES
    debugger,      \* @debugger of the Runtime
    installed,     \* the Debugger of the last debugger= that did not raise
    runtimeHooks,  \* the data in rt->globalDebugHooks
    contextHooks,  \* the data in cx->debugHooks; None while that points to
                   \* rt->globalDebugHooks
    held, freed,   \* Debuggers the program refers to, and those Ruby freed
    runtime,       \* "live", "sweeping" (Ruby is about to free it), "freed"
    hook           \* the Debugger that a hook calls at this step

vars == <<debugger, installed, runtimeHooks, contextHooks, held, freed, runtime, hook>>

Init ==
    /\ debugger = None /\ installed = None /\ runtimeHooks = None
    /\ contextHooks = [c \in Contexts |-> None]
    /\ held = Debuggers /\ freed = {} /\ runtime = "live" /\ hook = None
-----------------------------------------------------------------------------
\* Mutant: only the context gets the hooks.
set_context_debugger(c, d) ==
    /\ runtime = "live" /\ d \in held
    /\ debugger' = d /\ installed' = d
    /\ contextHooks' = [contextHooks EXCEPT ![c] = d]
    /\ hook' = None
    /\ UNCHANGED <<runtimeHooks, held, freed, runtime>>

(* JS_SetInterrupt and its companions change the hooks of the runtime,     *)
(* JS_SetContextDebugHooks those of the context of the calling thread.     *)
set_debugger(c, d) ==
    /\ runtime = "live" /\ d \in held
    /\ debugger' = d /\ installed' = d
    /\ runtimeHooks' = d
    /\ contextHooks' = [contextHooks EXCEPT ![c] = d]
    /\ hook' = None
    /\ UNCHANGED <<held, freed, runtime>>

(* @debugger is set before johnson_get_current_context, which raises when  *)
(* it cannot make a context for the thread.                                *)
set_debugger_fails(c, d) ==
    /\ runtime = "live" /\ d \in held /\ contextHooks[c] = None
    /\ debugger' = d
    /\ hook' = None
    /\ UNCHANGED <<installed, runtimeHooks, contextHooks, held, freed, runtime>>

HookOf(c) == IF contextHooks[c] = None THEN runtimeHooks ELSE contextHooks[c]

(* Script in the context reaches a hook: it calls the Debugger. *)
RunHook(c) ==
    /\ runtime = "live" /\ HookOf(c) # None
    /\ hook' = HookOf(c)
    /\ UNCHANGED <<debugger, installed, runtimeHooks, contextHooks, held, freed, runtime>>

(* deallocate switches off gc_callback only: where a context is destroyed, *)
(* one of the runtime or the cleanup context, which has the hooks of the   *)
(* runtime, scripts are too, and destroy_script_hook calls the Debugger.   *)
deallocate ==
    /\ runtime = "sweeping"
    /\ runtime' = "freed"
    /\ hook' \in {None, runtimeHooks} \cup {HookOf(c) : c \in Contexts}
    /\ UNCHANGED <<debugger, installed, runtimeHooks, contextHooks, held, freed>>
-----------------------------------------------------------------------------
DropDebugger(d) ==
    /\ d \in held
    /\ held' = held \ {d} /\ hook' = None
    /\ UNCHANGED <<debugger, installed, runtimeHooks, contextHooks, freed, runtime>>

\* Mutant: @debugger is not set.
ReachableByProgram(d) == d \in held

(* Ruby refers to a Debugger from @debugger of a runtime that is not garbage. *)
Reachable(d) == d \in held \/ (runtime = "live" /\ d = debugger)

FreeDebugger(d) ==
    /\ d \notin freed /\ ~Reachable(d)
    /\ freed' = freed \cup {d} /\ hook' = None
    /\ UNCHANGED <<debugger, installed, runtimeHooks, contextHooks, held, runtime>>

DropRuntime ==
    /\ runtime = "live"
    /\ runtime' = "sweeping" /\ hook' = None
    /\ UNCHANGED <<debugger, installed, runtimeHooks, contextHooks, held, freed>>

Next ==
    \/ \E c \in Contexts : RunHook(c) \/ \E d \in Debuggers : set_debugger(c, d) \/ set_debugger_fails(c, d)
    \/ \E d \in Debuggers : DropDebugger(d) \/ FreeDebugger(d)
    \/ DropRuntime \/ deallocate

Spec == Init /\ [][Next]_vars
-----------------------------------------------------------------------------
(* No other context has hooks of its own. *)
OnlyWithHooks(c) == \A other \in Contexts \ {c} : contextHooks[other] = None

(* Script in a context whose thread never called debugger=, or in the only *)
(* context that did, is seen by the Debugger that was installed last       *)
(* (runtime.c:220-221).                                                    *)
LastDebuggerIsCalled ==
    \A c \in Contexts : OnlyWithHooks(c) \/ contextHooks[c] = None => HookOf(c) = installed

(* While only one thread has installed debuggers, and none has failed to,  *)
(* no hook of a live runtime calls one that Ruby has freed: the hooks keep *)
(* a plain pointer, only @debugger keeps the object (runtime.c:232, 269).  *)
HookedDebuggerIsAlive ==
    runtime = "live" /\ debugger = installed /\ (\E c \in Contexts : OnlyWithHooks(c))
        => hook \notin freed
-----------------------------------------------------------------------------
(* What comments promise and the code does not keep.                       *)

(* debugger= "Directs the runtime to install a full set of debug hooks,    *)
(* using the given debugger" (runtime.c:220-221): all its contexts use it. *)
DebuggerIsInstalledEverywhere ==
    runtime = "live" => \A c \in Contexts : HookOf(c) = debugger

(* No Ruby code runs while Ruby frees the runtime: "our gc callback can    *)
(* create ruby objects, so disable it" (runtime.c:345).                    *)
NoHookWhileSweeping == runtime = "freed" => hook = None
=============================================================================
