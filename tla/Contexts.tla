------------------------------ MODULE Contexts ------------------------------
(***************************************************************************)
(* The life of runtimes and of their contexts: Runtime.new, the context    *)
(* that every thread gets for every runtime it uses, the two ways in which *)
(* creating one fails, the end of a thread, and the collection of a        *)
(* runtime by Ruby.  Contexts are kept in a thread-local hash under the    *)
(* object_id of the runtime.  A JavaScript collection only runs when       *)
(* should_sm_gc? allows it.                                                *)
(***************************************************************************)
EXTENDS Naturals, FiniteSets

CONSTANTS
    Threads,
    Runtimes,      \* the Runtime objects that are ever allocated
    Ids,           \* object_ids; a free one may be given out again
    ContextObjects,\* the Context objects that are ever allocated
    None,
    RuntimeMayFail,\* may JS_NewRuntime or create_id_hash fail?
    ContextMayFail \* may JS_NewContext or the extensions fail?

ASSUME ContextsAssumption ==
    /\ None \notin Threads \cup Runtimes \cup Ids \cup ContextObjects
    /\ None \notin {"initialize", "use", "gc", "raise", "live"}
    /\ RuntimeMayFail \in BOOLEAN /\ ContextMayFail \in BOOLEAN

VARIABLES
    runtime,   \* JohnsonRuntime: its JSRuntime, object_id and global object
    context,   \* JohnsonContext: its runtime, its JSContext and global object
    map,       \* Thread.current[:johnson_context_map] of each thread
    alive,     \* the living threads
    held,      \* the runtimes the program refers to
    call,      \* what each thread does inside the bridge
    garbage    \* the runtimes whose JavaScript heap holds garbage

vars == <<runtime, context, map, alive, held, call, garbage>>

NoMap == [i \in {} |-> None]      \* the key is not set
Idle == [op |-> None, r |-> None]
NoRuntime == [js |-> None, id |-> None, global |-> None]
NoContext == [of |-> None, js |-> None, global |-> None]

Allocated(r) == runtime[r].id # None
Keyed == {t \in alive : map[t] # NoMap}
Entry(t, r) == map[t][runtime[r].id]       \* contexts[self.object_id]
HasEntry(t, r) == map[t] # NoMap /\ Entry(t, r) # None

\* Mutants: Context@runtime is not set; the runtime keeps all its contexts.
PinnedByCalls(r) == r \in held \/ \E t \in alive : call[t].r = r
PinnedByAnyContext(r) == PinnedByCalls(r) \/ \E c \in ContextObjects : context[c].of = r

(* A Context refers to its runtime (context.rb:5), a thread to its contexts. *)
Pinned(r) ==
    \/ r \in held
    \/ \E t \in alive : call[t].r = r
    \/ \E t \in alive : map[t] # NoMap /\ \E i \in Ids : map[t][i] # None /\ context[map[t][i]].of = r

Init ==
    /\ runtime = [r \in Runtimes |-> NoRuntime]
    /\ context = [c \in ContextObjects |-> NoContext]
    /\ map = [t \in Threads |-> NoMap]
    /\ alive = Threads /\ held = {} /\ garbage = {}
    /\ call = [t \in Threads |-> Idle]
-----------------------------------------------------------------------------
(* Runtime.new: allocate and the first part of initialize_native. *)
NewRuntime(t, r, i) ==
    /\ t \in alive /\ call[t] = Idle /\ ~Allocated(r)
    /\ \A s \in Runtimes : runtime[s].id # i
    /\ runtime' = [runtime EXCEPT ![r] = [js |-> "live", id |-> i, global |-> None]]
    /\ call' = [call EXCEPT ![t] = [op |-> "initialize", r |-> r]]
    /\ UNCHANGED <<context, map, alive, held, garbage>>

(* The cleanup destroys what there is and clears no pointer; Runtime.new   *)
(* raises, and the object is left to the collector of Ruby.                *)
NewRuntimeFails(t, r, i, js) ==
    /\ RuntimeMayFail
    /\ t \in alive /\ call[t] = Idle /\ ~Allocated(r)
    /\ \A s \in Runtimes : runtime[s].id # i
    /\ js \in {"null", "destroyed"}
    /\ runtime' = [runtime EXCEPT ![r] = [js |-> js, id |-> i, global |-> None]]
    /\ UNCHANGED <<context, map, alive, held, call, garbage>>

(* Any method of the runtime, called by a thread; Runtime#gc among them. *)
UseRuntime(t, r, op) ==
    /\ t \in alive /\ call[t] = Idle
    /\ r \in held
    /\ call' = [call EXCEPT ![t] = [op |-> op, r |-> r]]
    /\ UNCHANGED <<runtime, context, map, alive, held, garbage>>

(* current_context asks for the hash of the thread, and makes it. *)
SetKey(t) ==
    /\ t \in alive /\ call[t].op # None /\ map[t] = NoMap
    /\ map' = [map EXCEPT ![t] = [i \in Ids |-> None]]
    /\ UNCHANGED <<runtime, context, alive, held, call, garbage>>

(* Ruby may have freed the Context, and use its place again. *)
Forgotten(c) ==
    /\ context[c].js = "destroyed"
    /\ \A t \in alive, i \in Ids : map[t] # NoMap => map[t][i] # c

(* Context.new: JS_NewContext, the global object, the extensions.  It can  *)
(* only answer without an exception when it succeeds; the entry is written *)
(* after it has answered.                                                  *)
Fresh(t, c) ==
    /\ t \in alive /\ call[t].op # None /\ map[t] # NoMap
    /\ Entry(t, call[t].r) = None
    /\ context[c] = NoContext \/ Forgotten(c)

\* Mutants: no global object is set; each context makes one.
InitializedWithout(r, c) == [of |-> r, js |-> "live", global |-> "null"]
InitializedAlone(r, c) == [of |-> r, js |-> "live", global |-> c]

Initialized(r, c) ==
    [of |-> r, js |-> "live",
     global |-> IF runtime[r].global = None THEN c ELSE runtime[r].global]

\* Mutant: a thread is given any context of the runtime.
NewContextShared(t, c) ==
    LET r == call[t].r IN
    /\ t \in alive /\ call[t].op # None /\ map[t] # NoMap /\ Entry(t, r) = None
    /\ context[c] = NoContext \/ context[c].of = r
    /\ context' = [context EXCEPT ![c] = Initialized(r, c)]
    /\ map' = [map EXCEPT ![t][runtime[r].id] = c]
    /\ UNCHANGED <<runtime, alive, held, call, garbage>>

NewContext(t, c) ==
    LET r == call[t].r IN
    /\ Fresh(t, c)
    /\ context' = [context EXCEPT ![c] = Initialized(r, c)]
    /\ map' = [map EXCEPT ![t][runtime[r].id] = c]
    /\ UNCHANGED <<runtime, alive, held, call, garbage>>

(* JS_NewContext fails: rb_raise, through current_context and its caller.  *)
NewContextFails(t) ==
    /\ ContextMayFail /\ call[t].op # None
    /\ \E c \in ContextObjects : Fresh(t, c)
    /\ call' = [call EXCEPT ![t] = Idle]
    /\ UNCHANGED <<runtime, context, map, alive, held, garbage>>

(* A JCHECK of init_spidermonkey_extensions fails.  Its                    *)
(* raise_js_error_in_ruby asks for the current context, which is not in    *)
(* the hash yet: a second Context is made before the exception is raised.  *)
ExtensionsFail(t, c) ==
    LET r == call[t].r IN
    /\ ContextMayFail /\ Fresh(t, c)
    /\ context' = [context EXCEPT ![c] = Initialized(r, c)]
    /\ call' = [call EXCEPT ![t].op = "raise"]
    /\ UNCHANGED <<runtime, map, alive, held, garbage>>

\* Mutant: > 0 instead of > 1.
never_gc == Cardinality(Keyed) <= 0

should_sm_gc == Cardinality(Keyed) <= 1

(* The thread has its context.  Runtime.new keeps the global object and    *)
(* answers; an exception passes initialize_native without its cleanup.     *)
(* In gc, gc_callback lets JS_GC collect, or JS_GC returns without a word. *)
Finish(t) ==
    LET r == call[t].r IN
    /\ t \in alive /\ call[t].op # None /\ HasEntry(t, r)
    /\ call' = [call EXCEPT ![t] = Idle]
    /\ IF call[t].op = "initialize"
       THEN /\ runtime' = [runtime EXCEPT ![r].global = context[Entry(t, r)].global]
            /\ held' = held \cup {r}
       ELSE UNCHANGED <<runtime, held>>
    /\ garbage' = CASE call[t].op = "use" -> garbage \cup {r}
                    [] call[t].op = "gc" /\ should_sm_gc -> garbage \ {r}
                    [] OTHER -> garbage
    /\ UNCHANGED <<context, map, alive>>
-----------------------------------------------------------------------------
Drop(r) ==
    /\ r \in held
    /\ held' = held \ {r}
    /\ UNCHANGED <<runtime, context, map, alive, call, garbage>>

ThreadDies(t) ==
    /\ t \in alive /\ call[t] = Idle
    /\ alive' = alive \ {t}
    /\ map' = [map EXCEPT ![t] = NoMap]
    /\ UNCHANGED <<runtime, context, held, call, garbage>>

(* The collector of Ruby frees a runtime: deallocate destroys the          *)
(* JSContexts, those of dead threads too, and then the JSRuntime.          *)
Deallocate(r) ==
    /\ Allocated(r) /\ ~Pinned(r)
    /\ context' = [c \in ContextObjects |->
                     IF context[c].of = r THEN [context[c] EXCEPT !.js = "destroyed"]
                     ELSE context[c]]
    /\ runtime' = [runtime EXCEPT ![r] =
                     [js |-> IF runtime[r].js = "live" THEN "freed" ELSE "misused",
                      id |-> None, global |-> runtime[r].global]]
    /\ garbage' = garbage \ {r}
    /\ UNCHANGED <<map, alive, held, call>>

Proceed(t) == SetKey(t) \/ Finish(t) \/ \E c \in ContextObjects : NewContext(t, c)

Next ==
    \/ \E t \in Threads, r \in Runtimes :
         \/ \E i \in Ids : \/ NewRuntime(t, r, i)
                           \/ \E js \in {"null", "destroyed"} : NewRuntimeFails(t, r, i, js)
         \/ \E op \in {"use", "gc"} : UseRuntime(t, r, op)
    \/ \E t \in Threads :
         \/ Proceed(t) \/ ThreadDies(t) \/ NewContextFails(t)
         \/ \E c \in ContextObjects : ExtensionsFail(t, c)
    \/ \E r \in Runtimes : Drop(r) \/ Deallocate(r)

Spec == Init /\ [][Next]_vars

(* Ruby collects what is unreachable, calls come to an end, and the        *)
(* program asks for a collection of JavaScript again and again.            *)
Fairness ==
    /\ \A r \in Runtimes : WF_vars(Deallocate(r))
    /\ \A t \in Threads : WF_vars(Proceed(t))
    /\ \A r \in Runtimes : SF_vars(\E t \in Threads : UseRuntime(t, r, "gc"))
FairSpec == Spec /\ Fairness
-----------------------------------------------------------------------------
TypeOK ==
    /\ runtime \in [Runtimes -> [js : {None, "null", "live", "destroyed", "freed", "misused"},
                                 id : Ids \cup {None}, global : ContextObjects \cup {None}]]
    /\ context \in [ContextObjects -> [of : Runtimes \cup {None}, js : {None, "live", "destroyed"},
                                       global : ContextObjects \cup {None}]]
    /\ map \in [Threads -> {NoMap} \cup [Ids -> ContextObjects \cup {None}]]
    /\ alive \subseteq Threads /\ held \subseteq Runtimes /\ garbage \subseteq Runtimes
    /\ call \in [Threads -> [op : {None, "initialize", "use", "gc", "raise"}, r : Runtimes \cup {None}]]

(* current_context never answers with the context of another runtime,      *)
(* although object_ids are given out again: an entry keeps its runtime     *)
(* alive through Context@runtime (runtime.rb:30, context.rb:5).            *)
ContextIsOfItsRuntime ==
    \A t \in Threads, r \in Runtimes :
        Allocated(r) /\ HasEntry(t, r) => context[Entry(t, r)].of = r

(* What a thread would be given is still there, the JSContext and the      *)
(* JSRuntime: a runtime is never deallocated under a thread that may use   *)
(* it again, although the program has dropped it (runtime.c:351).          *)
EntriesAreUsable ==
    \A t \in alive, i \in Ids :
        map[t] # NoMap /\ map[t][i] # None =>
            LET c == context[map[t][i]] IN c.js = "live" /\ runtime[c.of].js = "live"

(* No JSContext serves two threads. *)
ContextsAreNotShared ==
    \A t, u \in Threads, i, j \in Ids :
        t # u /\ map[t] # NoMap /\ map[u] # NoMap /\ map[t][i] # None => map[t][i] # map[u][j]

(* All contexts of a runtime in use have its global object: script run by  *)
(* two threads sees the same globals (context.c:54-60).                    *)
OneGlobal ==
    \A t \in Threads, r \in held :
        HasEntry(t, r) => context[Entry(t, r)].global = runtime[r].global

(* The instance has no Context object left for another Context.new. *)
Exhausted == \A c \in ContextObjects : context[c] # NoContext /\ ~Forgotten(c)

(* Every runtime is freed again, also one whose creation failed half way,  *)
(* unless the program or a living thread that used it keeps it.            *)
UnusedRuntimeIsFreed ==
    \A r \in Runtimes :
        Allocated(r) ~> ~Allocated(r) \/ r \in held \/ Exhausted \/ \E t \in alive : HasEntry(t, r)

(* Runtime#gc, called again and again, collects what the runtime of a      *)
(* thread holds, as long as no other thread has used the bridge            *)
(* (should_sm_gc?, runtime.rb:75-80).                                      *)
GcCollectsForOneThread ==
    \A r \in Runtimes :
        r \in garbage ~> \/ r \notin garbage \/ r \notin held \/ Exhausted
                        \/ Cardinality(Keyed) > 1 \/ \A t \in alive : ~HasEntry(t, r)
-----------------------------------------------------------------------------
(* What a comment promises and the code does not keep.                     *)

(* "clean up after an initialization failure" (runtime.c:310): deallocate  *)
(* only destroys a JSRuntime that initialize_native has not destroyed.     *)
FailedRuntimeIsNotUsed == \A r \in Runtimes : runtime[r].js # "misused"

(* "Manually initiates a SpiderMonkey Garbage Collection run."             *)
(* (runtime.c:201), whatever other threads have done.                      *)
GcCollects ==
    \A r \in Runtimes :
        r \in garbage ~> \/ r \notin garbage \/ r \notin held \/ Exhausted
                        \/ \A t \in alive : ~HasEntry(t, r)
=============================================================================
