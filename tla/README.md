# Johnson in TLA+

Johnson embeds SpiderMonkey in Ruby: Ruby objects are visible to JavaScript and
JavaScript objects to Ruby, each through a proxy that belongs to the other
heap. Two garbage collectors that know nothing of each other, green threads
that may be switched whenever C code calls back into Ruby, and errors that leave
C frames by `longjmp` meet in about 2,500 lines of C. This directory models that
code: TLA+ modules, the TLC configurations that check them, and TLAPS proofs.

## The system

| component | state it keeps | operations | meets |
|---|---|---|---|
| Runtime (`ext/spidermonkey/runtime.c`, `lib/johnson/spidermonkey/runtime.rb`) | the `JSRuntime`, the global object, `jsids` and `rbids`, `@gcthings`, `@traps`, the debugger | compile, evaluate, gc, traps, `gc_callback`, `deallocate` | everything |
| Context (`context.c`, `context.rb`) | one `JSContext` per thread and runtime, the last error (`ex`, `msg`) | `current_context`, the error reporter, the branch callback | threads, both collectors |
| RubyLandProxy (`ruby_land_proxy.c/.rb`) | per proxy: `key` (a rooted value), `runtime`, `self` | make, unwrap, finalize, wrappers and conversions; property access, iteration, calls | `jsids`, the root table |
| JSLandProxy (`js_land_proxy.c/.rb`) | per cell: the private slot | make, unwrap, finalize; get, set, resolve, enumerate, construct, call | `rbids`, `@gcthings`, `core.js` |
| id hashes (`idhash.c`) | address -> entry | lookup, add, remove | both proxies |
| root macros (`jroot.h`) | the local roots of one C frame | `JROOT`, `JUNROOT`, `JCHECK`, `JPROTECT`, `JRETURN`, `JERROR` | every C function |
| conversions and the error bridge (`conversions.c`) | none; the pending exception lives in the `JSContext`, the stored one in the Context | `convert_to_js`, `convert_to_ruby`, `raise_js_error_in_ruby`, `report_ruby_error_in_js` | both proxies |
| traps (`runtime.c`, `runtime.rb`) | SpiderMonkey's trap list, `@traps` | `set_trap`, `clear_trap`, the clearing after evaluation | evaluation |
| debugger (`debugger.c`) | the `JSDebugHooks` of a Debugger, with a plain pointer to it; `@debugger` | ten hooks, one call of Ruby each; `debugger=` | the interpreter, the contexts |
| global object and extensions (`global.c`, `extensions.c`) | the global object all contexts of a runtime share | created by the first context | contexts, threads |
| prelude and core (`prelude.js`, `core.js`) | symbol cache, wrappers, conversions, required files | `symbolize`, `applyWrappers`, `applyConversions`, `require` | JSLandProxy |
| parser (`immutable_node.c.erb`) | a parse tree in an arena of its own | parse, read nodes | Ruby's collector |
| nodes, visitors, command line (`lib/johnson/...`) | Ruby trees | rewriting and printing | none of the above |

How they interact. Ruby calls into C, C calls SpiderMonkey, SpiderMonkey calls
back (property hooks, finalizers, the collector's callback), and the callbacks
call Ruby. Every function of the bridge first asks Ruby for the current context
(`johnson_get_current_context`, a method call), so every one is cut in two by a
point where another green thread may run. A proxy on either side keeps its
original alive: a RubyLandProxy registers its `key` in SpiderMonkey's root
table, a JSLandProxy puts the Ruby object in `@gcthings`. The two weak tables,
`jsids` and `rbids`, find the proxy of an original again; the finalizers keep
them free of dead entries.

What is hard: the two collectors and their finalizers, run in an order nobody
chose; threads between the reading of a table and its writing; nested
conversions from wrappers; failures half way, at every call of the engine or of
Ruby; a failure that crosses the border between the languages several times;
addresses and object ids that are used again; teardown while proxies are still
around. `PROJECT.json` lists each hazard at
its line, with the property that covers it or the planned module that will.

What makes each part correct: the tables never name a dead object
(`IndexIsExact`); a proxy in use pins its original (`ProxyPinsValue`,
`PrivateIsLive`); an original has one proxy (`OneProxyPerValue`,
`OneProxyPerObject`); nothing is pinned for ever (`PinnedByAProxy`); nothing
touches what was freed (`RootsAreAllocated`, `FreedRuntimeIsForgotten`); a C
function leaves the root table as it found it on every exit (`RootsBalanced`); an
error arrives, and what arrives is about the failure that happened
(`ImplementsDelivery`, `ErrorsArrive`); a thread gets a live context of its own (`EntriesAreUsable`,
`ContextsAreNotShared`); what script assigns is what it reads (`AssignedIsRead`).

## The modules

### ProxyIdentity

What either side promises: a map from originals to proxies, injective, in
which the entry of a proxy that is in use does not change. Both detailed modules
implement it, on one thread and without failures half way (`ImplementsIdentity`).

### RubyLandProxies

`make_ruby_land_proxy`, `unwrap_ruby_land_proxy` and `finalize` of
`ruby_land_proxy.c`, and `deallocate` of `runtime.c`.

Values and proxies are addresses. A value's address is in use while it is in
`jsLive`, a proxy's while it is in `allocated`; freed addresses are allocated
again, which is what makes a stale table entry dangerous. A Proxy stands for the
C struct and the Ruby object around it, which live and die together; `bound`
are those whose `runtime` field is set, `key` and `self` are the other two fields.

One call of `make_ruby_land_proxy` is a frame in `Calls`. It is one step where
the C code runs without calling Ruby, and it is cut at the three calls that reach
Ruby:

| step | lines of `ruby_land_proxy.c` |
|---|---|
| `LookupHit` | 548-553: the entry's `self` goes to the conversions |
| `LookupMiss` | 555-560: the struct is allocated, then `current_context` |
| `Insert` | 562-576: the struct is bound, rooted, entered in `jsids` |
| `RootValueFails`, `RootKeyFails`, `AddFails` | the `JCHECK` of line 563, 573, 576 fails |
| `WrapExtends`, `WrapReplaces`, `WrapRaises` | 578-580: what `apply_wrappers` did |
| `Return` | 582: `apply_conversions` is done; the caller keeps the object or not |

At each cut another thread's frame may move (`ThreadOf`), and in the wrappers and
conversions the same thread may start another frame (`parent`, `current`: a stack
per thread). `Stash`: Ruby code run by a wrapper or a conversion keeps the object.

The Ruby collector is `Mark` (everything not reachable from the program or from
a C frame becomes garbage) followed by one sweep step per dead object in any
order, with the program stopped; a proxy's sweep runs `finalize`, the runtime's
runs `deallocate`. The runtime is kept by every thread that has used it, through
the Context in the thread's map (`rtHeld`), and by every reachable bound proxy
through its `@runtime` variable. `JSCollect` frees the values that no root, no
frame and no script refers to.

### JSLandProxies

`make_js_land_proxy`, `unwrap_js_land_proxy` and `finalize` of
`js_land_proxy.c`, `add_gcthing`, `remove_gcthing` and `should_sm_gc?` of
`runtime.rb`, and the wrapper of `core.js` that puts a Date in front of the proxy
of a Time.

| step | lines of `js_land_proxy.c` |
|---|---|
| `Lookup` | 562-568: `rbids` is read, then `current_context` |
| `Hit` | 571-574: `base_value` goes to `applyConversions` |
| `Miss` | 576-588: `respond_to?` is called |
| `NewProxy` | 591-608: the cell, its private slot, its functions, `add_gcthing` |
| `NewObjectFails`, `DefineFails`, `WrapFails` | a failure at 588-591, 596-602, 611-614 |
| `AddProxy`, `AddDate` | 611-614: what `applyWrappers` returned goes into `rbids` |
| `Return` | 616-618 |

A collection on thread `t` has two steps. `gc_callback(t)` asks `should_sm_gc?`,
which refuses while another thread has a context map (`context` is the set of
threads with one); it does not happen while `t` itself is inside
`current_context`. The answer is Ruby code, so other threads may run before
`JSCollect(t)` finalizes every dead cell; `asked` holds the threads in between.
With `Preemptible = FALSE` the collection follows its permission at once: what
the code means to guarantee, as opposed to what it does guarantee. `JSCollect` is
one step although each finalizer calls `remove_gcthing` (`js_land_proxy.c:556`), where
a thread may be switched: a thread with a context map would have forbidden the
collection, and one that makes its first context in the middle of it would enter
the engine while it collects, which is not modelled.

### BridgeFunctions and Crossing

`BridgeFunctions` writes down every C function of the bridge as a sequence of
steps: which variable it roots (`Root`, `Unroot`), what it calls (`Engine`,
`Protected`, `Bare`, another function), how the call is checked (`JCHECK`, an `if`,
not at all), and how it returns. `RubyMethods` are those Ruby calls and
`ScriptHandlers` those SpiderMonkey calls. A function is of kind "ruby" or "js",
by which `PREPARE_` macro it starts with: that decides whether `JCHECK` and
`JPROTECT` leave it with a `longjmp` (`rb_raise`, `rb_jump_tag`) or with
`JS_FALSE`, and a `convert_to_ruby` below script behaves differently from one
below Ruby.

`Crossing` is the machine that runs them: a stack of active functions, the root
table (`registered`), and who has control: the "program", the C code on top of the
stack, or a failure on its way up as a Ruby exception or as a false return.

| actions | code |
|---|---|
| `Register`, `Unregister`, `RemoveRoots` | `JROOT`, `JCLEANUP`, `JUNROOT` with its array, `REMOVE_JROOTS` |
| `CallFunction`, `Leaving`, `Failing` | calls, `JRETURN`, `return JS_FALSE`, `rb_raise`, `rb_jump_tag` |
| `Succeed`, `NotDone`, `Jump` | an engine call, a root or `NUM2INT` succeeds or fails; `JCHECK` (`WhenFalse`) |
| `Choose`, `Repeat` | the branches and loops of a function |
| `Handover`, `ProgramCalls`, `ProgramReturns`, `ProgramFails` | Ruby code or script runs above the function |
| `Handle`, `Arrive`, `Stop`, `Abandon` | a failure is handled, reaches a check, is stopped by `rb_protect` (`WhenRaised`: `JPROTECT`), or passes a frame by `longjmp` |

`torn` counts exceptions raised where no `rb_protect` is: `respond_to?` in
`make_js_land_proxy`, the predicates of `get` and `resolve`, `NUM2INT`, the setter's
name in `set`. After one, roots of abandoned frames stay behind, and what can still be said is
`HeldIsRegistered`: no variable an active function uses is without its root.

An engine call that runs no script may still allocate, and then collect: `Collect`
enters `CollectorHandlers` (`gc_callback` and the finalizer of a JSLandProxy) from an
`Engine` step, and both call Ruby. Four functions use the result of an engine call
without a test (`UncheckedEngine`, `Unchecked`): where the call fails, the next step
is `UseNull`, and the process is over (`Ended`). `call_ruby_from_js` reports the
exception it stops before its caller's `JCHECK` removes the caller's roots, so it
has a frame of its own.

`current_context`, which nearly every function starts with, is left out of the
bodies: it roots nothing, and its failures are those of `Contexts`. So is the copy
that the engine makes of a `JERROR` message. `call_js_function_value` is modelled
for at most one argument: its array of cleanups grows with the number of arguments, so
`CapacityHolds` says nothing of it beyond that.

### ErrorDelivery and ErrorBridge

Neither side can be handed the other's error as it is. `RAISE_JS_ERROR` converts the
exception of script and has `raise_js_exception` read its properties to make a
`Johnson::Error`; `report_ruby_error_in_js` calls `inspect` and makes a JS Error of what
it says. Both run code of the program, which calls the bridge again and may fail by
itself. An error of the models stands for all that is made to describe it: what is
raised in Ruby is "about" the exception that script threw.

`ErrorDelivery` is what the bridge owes to errors. One in flight is handled, or taken
over (`TakeOver`) by a call that describes it to the other side; that call delivers it
(`Deliver`) or fails, and only then its own error displaces the one it carries
(`Travel`). It may reach the message only when there is no script that could see it
(`Fade`), and `set_trap`, `clear_trap` and an evaluation say no more than that the script
could not be converted (`Generalize`).

`ErrorBridge` has the nested calls (`chain`: links, of which "deliver" and "report" carry
the error they describe), the pending exception of the JSContext, `ex` and `msg` of
the JohnsonContext, and the error in flight.

| actions | code |
|---|---|
| `Enter`, `Continue`, `Finish` | a call of the bridge, what it runs, its end; an evaluation clears `ex` and `msg` first |
| `ScriptThrows`, `RubyRaises`, `EngineFails` | a new error; without a script frame the engine gives it to the reporter only, without memory the pending exception is lost as well |
| `raise_js_error_in_ruby`, `RaiseOrGoOn`, then `Deliver` | `conversions.c:297-321` and the two `if (!ok)` blocks of `runtime.c`; the end of `raise_js_exception` |
| `RaiseUnconverted` | `runtime.c:48`, `73`, `147`: `rb_raise` with the exception still pending (`left`) |
| `report_ruby_error_in_js`, then `Report` | `inspect` is called; `JS_ReportError` with what it said |
| `ScriptUnwinds`, `ScriptCatches`, `RubyRescues`, `JumpOn` | handlers, false returns, and the `longjmp`s between |

It implements `ErrorDelivery` for errors that are exceptions other than null
(`Exception`). `Empty` is the RuntimeError with an empty message, `Longjmp` is Ruby's
`throw`, `break` or `retry`, which is passed on with its tag or described as a string.
What `set_trap` and `clear_trap` do after the conversion of the script, and an engine
without memory for the Error that `JS_ReportError` makes, are left out.

### Contexts

`Runtime.new` with its failure (`NewRuntime`, `NewRuntimeFails`), `current_context`
cut where threads may be switched (`SetKey`, `NewContext`, `Finish`), `Context.new`
with its two failures (`NewContextFails`, `ExtensionsFail`), `gc` with
`should_sm_gc?`, the end of a thread, and `deallocate`. `map` is the thread-local
hash, keyed by `object_id`; an id that is free is given out again, which is what
makes an entry that outlives its runtime dangerous. Here runtimes and contexts
are the objects; the proxy modules know only one runtime.

### PropertyAccess

One named property of a Ruby object behind a JSLandProxy: what Ruby presents under
the name (`face`: autovivified, constant, global, attribute, key, method), the
writer `name=`, the property SpiderMonkey keeps on the proxy with its getter and
slot (`own`), and script that reads (`Get`), assigns (`Set`, `SetRaises`), tests
(`In`) and deletes it, while Ruby changes the object between. `get`, `set` and
`resolve` are the functions of `js_land_proxy.c`. What kind of object it is
(`object`) is chosen at the start.

### Traps

`RubyLandScript#break`, which arms a trap and notes it (`Break`), the public `set_trap`,
which arms one and notes nothing (`set_trap`), the interpreter reaching a trap
(`trap_handler`), nested evaluations (`running`), and the `ensure` clause that
clears all noted traps (`EvaluationEnds`). A trap remembers by what it was set;
when both set one on the same instruction, the later one counts, as in the engine.
`clear_trap` is private and called by the `ensure` clause only. Two lines can be one
instruction (`LineNumberToPC`).

### DebuggerHooks

`debugger=` (`set_debugger`, and `set_debugger_fails` when the thread's context
cannot be made), the hooks of the runtime and of each context, and the life of
Debuggers, whose hooks are never freed but point to them.

### How the modules fit together

Each module takes a different cut through the same calls, because their product is
beyond TLC: the proxy modules have the two heaps and the tables, `Crossing` the
frames and roots of the same functions with the tables left out, `ErrorBridge` the
identity of the error whose control flow `Crossing` has, `Contexts` what
`current_context` does inside the step that the proxy modules cut at.
`BridgeFunctions` is extended by `Crossing`; `ProxyIdentity` is instantiated by
both proxy modules, `ErrorDelivery` by `ErrorBridge`.

### Proofs

Each component's theorems and proofs are in a module of their own.

| module | what it proves |
|---|---|
| `RubyLandProxies_proofs` | the inductive invariant of the table, the roots and both heaps for any number of threads, any wrappers and any failures; then what one thread and sufficient memory add, up to the refinement of `ProxyIdentity` |
| `JSLandProxies_proofs` | the same for the other side |
| `Crossing_proofs` | that each of the C functions in `BridgeFunctions` keeps to the rules of the root macros on every path, and what follows for any stack of them |
| `ErrorBridge_proofs` | what can be raised, where an exception may be pending, and the refinement of `ErrorDelivery`, for any nesting of calls |
| `Contexts_proofs` | the invariant of the thread-local maps, for any number of threads, runtimes and object ids |
| `PropertyAccess_proofs` | what script reads, for any set of values |
| `Traps_proofs` | that every breakpoint is noted, and so cleared |
| `DebuggerHooks_proofs` | which Debugger a hook calls, for any number of contexts and Debuggers |

### MC modules

`MC_RubyLandProxies` and `MC_JSLandProxies` define the two thread assignments
(`OneThread`: frames nest; `TwoThreads`: frames interleave) and the symmetry
sets of addresses. `MC_Traps` names the lines and their instructions, and the
symmetry of scripts and of blocks; the others give the sets their
elements. The operators marked "Mutant" in the component modules are
variants of a definition with a plausible bug; no specification uses them. They
show that each property notices a bug: see "mutants" in `PROJECT.json`.

## The runs

| run | result | what it shows |
|---|---|---|
| `ruby_proxies_single` | passes | one thread, wrappers that extend the proxy, no failures: one proxy per value, teardown clears every pointer, answers are not freed, and the refinement |
| `ruby_proxies_hostile` | passes | two threads, a wrapper that replaces the proxy, tables that refuse to grow: table, roots and heaps still agree |
| `js_proxies_single` | passes | one thread, shipped wrappers, a Date, `respond_to?` that may raise: objects live, one proxy per object, and the refinement |
| `js_proxies_atomic` | passes | two threads, failures at every step, self-converting objects: the tables stay exact, the unrooted `base_value` survives, and a reachable object is lost only if some object had two cells |
| `js_proxies_dates` | violates `CachedHitIsLive` | a Time's Date dies before its proxy, the entry stays |
| `crossing_all` | passes | three nested functions, all methods, all handlers, everything that can fail fails, every engine call may collect: roots balanced, cleanups fit, failures tested, no jump over script, and control always comes back (or a NULL is used) |
| `crossing_torn` | passes | all methods and handlers, with an unprotected exception: a variable in use never loses its root |
| `errors_bridge` | passes | four nested calls, those of the code that describes errors among them, `throw null`, Ruby's `throw`, failures the reporter alone sees: nothing stays pending but what three functions leave, errors arrive, and what arrives is about the error that came in (the refinement of `ErrorDelivery`) |
| `contexts` | passes | two of everything and every failure: a thread gets a live context of the right runtime, one global object, runtimes are freed again, gc works for one thread |
| `property_access` | passes | all kinds of objects that change between accesses: Ruby wins over slots, resolve leaves nothing behind without a reason, what is assigned is read |
| `traps_cleared` | passes | two nested evaluations, `set_trap` and `break` on the same lines: no breakpoint survives the outermost |
| `debugger_hooks` | passes | two contexts, three debuggers: which debugger a hook calls, and that it is alive |

`js_proxies_dates` is a disagreement between the code and a comment; "findings" in
`PROJECT.json` quotes it. Others are listed below.

`CHECK_DEADLOCK FALSE` stands where the program may really stop: in the proxy,
context and debugger runs, where a program that has dropped its last reference has
nothing more to do and addresses and objects are finite. The other runs check that
there is no deadlock; in `Crossing` the end of the process by a NULL is a
step that repeats (`Ended`).

### Bounds, and why they are enough

Two originals and two or three addresses on the other side: one to be used again
after it was freed while another is alive, which every stale-entry scenario
needs, and a spare one for a proxy that lost a race or was abandoned. Two
frames: one that has read a table and one that changes it in between, either
nested in the first (one thread) or on another thread. One substitute: it has to
die and be made again. `js_proxies_dates` has the smallest instance that shows the
disagreement. The theorems below need none of
these bounds, and the proxy modules have no others.

* `MaxDepth` (`Crossing`) bounds the active C functions: 3 for a method, the
  conversion it calls and the proxy maker below it, or method, handler and what
  the handler calls; 2 where the entries of all methods with a torn frame are
  combined. A function that would be entered at the bound succeeds or fails at once.
* `MaxTears` bounds the unprotected exceptions: none where the balance is stated,
  one where its effect is. A second would abandon frames like the first.
* `MaxChain` (`ErrorBridge`) bounds nested calls: 4 is a call, a script, a handler and
  what the handler, or the code that describes its error, calls: an error is
  described in both directions, one inside the other, and the calls inside can fail
  and store an error of their own. Two errors can be told apart. The theorems hold for
  any bound.
* `Contexts` has two threads, runtimes, ids and Context objects. Two Contexts are
  enough for two threads in one runtime, one thread in two, and the second Context
  that the error path makes; liveness excludes the states where the instance has no
  Context object left (`Exhausted`), which are the instance's and not the code's.
* `MaxNest` (`Traps`) is 2: an evaluation and one nested in it. Three lines share two
  instructions.
* `PropertyAccess` and `DebuggerHooks` need no bounds beyond two values, two
  contexts and three Debuggers (one per context and one that was replaced).

### Fairness

Safety is checked without it. The proxy modules assume none: neither collector
promises to run.

* `Crossing`: C code that has control goes on (`WF` of its steps), a failure goes on
  unwinding, and a loop over finitely many elements ends (`SF` of its exit: `each`
  runs over an array or the enumerated ids). Ruby code and script need not end.
* `ErrorBridge`: an error in flight travels on (`WF` of `Propagate`). Only returns and
  `longjmp`s are needed, which nothing delays. It gets as far as a handler or the
  code that describes it; that code is the program's and may run for ever.
* `Contexts`: Ruby collects what is unreachable (`WF` of `Deallocate`), a call that was
  begun goes on (`WF` of `Proceed`: the Ruby scheduler runs every thread), and the
  program asks for `gc` again and again (`SF`: the property is about such a program).

### What the models take for granted

* Ruby's collector stops the program until its sweep is over, and finalizers run in
  any order; deferred finalization is not modelled.
* SpiderMonkey collects only where it allocates or is asked to, and only if the
  callback agrees; this holds for the last-ditch collection too
  (`vendor/spidermonkey/jsgc.c`). Evaluating the expression `Johnson` (line 568)
  looks up an existing atom and does not collect, so a thread's own collection
  does not hit the window between 562 and 573. With a debugger installed its
  hooks could run Ruby code there: `DebuggerHooks` has the hooks, the proxy modules
  do not.
* With one thread, or with `Preemptible = FALSE`, nothing runs between the answer
  of `should_sm_gc?` and the collection, nor between its finalizers. The list below
  says what goes wrong otherwise.
* A thread that has used a runtime keeps it alive: its Context refers to it.
* The wrappers that come with Johnson do not convert the very object they are
  wrapping (`SelfConverting = FALSE`); `js_proxies_atomic` allows it.
* What a program does with a pointer to a freed object is not modelled: the
  properties say whether it gets one.
* `Crossing`: an assertion (`assert` of the C library) that fails ends the process and
  is not followed; SpiderMonkey gives a false return exactly when it fails.
* `PropertyAccess`: numeric indexes and `__iterator__` bypass the faces and are left
  out; a `name=` either stores where `name` reads or somewhere else.
* `ErrorBridge`: the engine asserts in one place that a failed call has left an exception
  (`vendor/spidermonkey/jsinterp.c:2876`); a build with that assertion would end there
  where the model goes on.
* `Traps`: what the engine does with an armed trap beyond its closure is left out, and so
  is a `clear_trap` that fails in the `ensure` clause, which leaves the rest armed.

### Known disagreements

What a comment or a test says and the code does not do. Each is stated as a
property, in the section "not kept" of its module or among its properties; TLC
finds the counterexample with the constants given, when the property is checked in
place of those of the run named.

| property | line that says it | what the code does | instance |
|---|---|---|---|
| `RubyLandProxies!OneProxyPerValue` | `ruby_land_proxy.c:552` "if we already have a proxy, return it" | the table is read at 548 and written at 576 with a call of Ruby between; two threads make two proxies | two threads, `ruby_proxies_hostile` |
| `RubyLandProxies!FreedRuntimeIsForgotten` | `ruby_land_proxy.c:490` "could get finalized after the context has been freed" | the proxy that lost that race is not in `jsids`; `deallocate` does not clear its pointer and finalize follows it | same |
| `RubyLandProxies!AnswerIsAllocated` | `ruby_land_proxy.c:552` | a wrapper's substitute is kept in `self`, which nothing marks; a lookup answers with a collected object | one thread, a substitute |
| `JSLandProxies!OneProxyPerObject` | `js_land_proxy_test.rb:68-71` | `rbids` is read at 562 and written at 614; two threads make two cells | two threads, no failures |
| `JSLandProxies!PrivateIsLive` | `js_land_proxy.c:606` "root the ruby value for GC" | a wrapper throws, the conversion is retried: the finalizer of the first cell unpins the second's object | one thread, `Failures = {"wrap"}` |
| `JSLandProxies!CachedHitIsLive` | `runtime.rb:73-74` on `should_sm_gc?` | the answer is Ruby code; a thread that starts after it has its cell collected | `Preemptible = TRUE`, two threads |
| `Crossing!NoJumpOverScript` without its `torn` condition | `context.c:18-19` "SpiderMonkey REALLY doesn't like being interrupted" | `resolve` and `get` ask the object without `rb_protect`; the exception jumps over the interpreter | `MaxTears = 1` |
| `Crossing!NullIsNotUsed` | `ruby_land_proxy.c:465-466` | `to_s` (`ruby_land_proxy.c:480`) and `convert_to_ruby` of a Symbol (`conversions.c:268`) go on with the NULL of a `toString` that throws; `convert_symbol_to_js` (`conversions.c:35`) and `resolve` (`js_land_proxy.c:406`) with that of an allocation that fails | `crossing_all`, `crossing_torn` |
| `ErrorBridge!TheErrorIsRaised` | `context.c:20-21` "dealt with in the if (!ok) block" | with nothing pending, the exception stored by an earlier failure is raised | `Unpropagated = TRUE` or `ThrowsNull = TRUE` |
| `ErrorBridge!FailureIsNotAResult` | `runtime.c:126-127` | after `throw null`, `ex` is 0 and the failed script returns a value | either switch |
| `ErrorBridge!MessageIsNotNeeded` | `conversions.c:318` "I don't think this can ever happen" | it does, for an error outside of script | either switch |
| `ErrorBridge!NothingIsLeft` | `conversions.c:305`, `runtime.c:108`, `160`: every other function takes the exception | `set_trap`, `clear_trap` and `evaluate_compiled_script` (`runtime.c:48`, `73`, `147`) raise and leave the exception of the failed conversion pending | `errors_bridge`, with any constants |
| `Contexts!GcCollects` | `runtime.c:201` "Manually initiates a ... run" | with two threads that have a context map, `gc` returns without collecting | two threads, one runtime |
| `Contexts!FailedRuntimeIsNotUsed` | `runtime.c:310` "clean up after an initialization failure" | the pointer is kept, and `deallocate` uses it | `RuntimeMayFail = TRUE` |
| `PropertyAccess!UnknownIsUndefined` | `js_land_proxy.c:285`, `js_land_proxy_test.rb:140-143` | the engine's slot answers for a name that Ruby has taken back | `property_access` |
| `Traps!RunningScriptKeepsItsTraps` | `runtime.c:62-63` | a nested evaluation clears the traps of the outer script | `traps_cleared` |
| `Traps!NothingStaysArmed` | `runtime_test.rb:99` `test_breakpoints_are_cleared` | a trap that `set_trap` has set by itself is in no list and stays armed | `traps_cleared` |
| `Traps!CalledBlockIsAlive` | `runtime.c:62-63` | nothing keeps the block of a trap alive | `BlocksAreKept = FALSE` |
| `DebuggerHooks!DebuggerIsInstalledEverywhere` | `runtime.c:220-221` | a context with hooks of its own keeps the older Debugger, or one that was collected | two contexts |
| `DebuggerHooks!NoHookWhileSweeping` | `runtime.c:345` | destroying contexts in `deallocate` calls `destroy_script_hook`, which calls Ruby | one context |

## What is proved

Every safety invariant and every refinement that a passing run checks is stated by a
theorem. All theorems are proved for every choice of the constants that satisfies the
assumptions of their module:

| module | assumptions |
|---|---|
| `RubyLandProxies` | `None` is none of the other objects, proxies and substitutes are different objects, every frame has a thread, `OutOfMemory` is a Boolean |
| `JSLandProxies` | the same about `None` and about threads |
| `Contexts` | the same about `None`, and the two failure switches are Booleans |
| `Crossing` | at least one function may be active, the number of unprotected exceptions is bounded by a natural number, Ruby calls only `RubyMethods` and script only `ScriptHandlers` |
| `ErrorBridge` | the errors told apart are none of the five special ones, the bound on nested calls is a natural number, the switches are Booleans |
| `PropertyAccess` | "nothing under that name" is none of the values, the switch is a Boolean |
| `DebuggerHooks` | "no Debugger" is none of the Debuggers |
| `Traps` | none |

None of these says more than that the constants are what their names say. The model
values of the runs satisfy them, and TLC evaluates each.

| theorem | statement |
|---|---|
| `TypeCorrect` | `Spec => []TypeOK` |
| `IndexStaysExact` | `Spec => []IndexIsExact` |
| `RootsStayAllocated` | `Spec => []RootsAreAllocated` |
| `ProxiesPinValues` | `Spec => []ProxyPinsValue` |
| `AnswersAreAllocated` | without substitutes, `Spec => []AnswerIsAllocated` |
| `OneThreadOneProxy` | on one thread, `Spec => []OneProxyPerValue` |
| `OneThreadTeardown` | on one thread, `Spec => []FreedRuntimeIsForgotten` |
| `OneThreadRefines` | on one thread, `Spec => ImplementsIdentity` |
| `JSTypeCorrect` | `Spec => []TypeOK` (of `JSLandProxies`) |
| `PinsHaveAnEnd` | `Spec => []PinnedByAProxy` |
| `RbidsStaysExact` | undisturbed, `Spec => []IndexIsExact` |
| `HitsStayLive` | undisturbed, `Spec => []CachedHitIsLive` |
| `OnlyTwinsLose` | undisturbed, `Spec => OnlyTwinsLoseObjects` |
| `OneThreadOneCell` | on one thread, with Dates, `Spec => []OneProxyPerObject` |
| `OneThreadKeepsObjects` | on one thread, with Dates, `Spec => []PrivateIsLive` |
| `OneThreadIdentity` | on one thread, with Dates, `Spec => ImplementsIdentity` |
| `NoBreakpointOutlivesEvaluation` | `Spec => TrapsAreCleared` |
| `ContextsTypeCorrect` | `Spec => []TypeOK` (of `Contexts`) |
| `ContextsBelong` | `Spec => []ContextIsOfItsRuntime` |
| `EntriesStayUsable` | `Spec => []EntriesAreUsable` |
| `ContextsStayUnshared` | `Spec => []ContextsAreNotShared` |
| `OneGlobalForAll` | `Spec => []OneGlobal` |
| `AllVerified` | `\A f \in Functions : Verified(f)`: each C function keeps to the rules, whatever its calls do |
| `CrossingTypeCorrect` | `Spec => []TypeOK` (of `Crossing`) |
| `RootsAreBalanced` | `Spec => []RootsBalanced` |
| `NothingHeldIsLost` | `Spec => []HeldIsRegistered` |
| `CleanupsFit` | `Spec => []CapacityHolds` |
| `FailuresAreTested` | `Spec => []FailureIsTested` |
| `ScriptIsNotJumpedOver` | `Spec => []NoJumpOverScript` |
| `ErrorBridgeTypeCorrect` | `Spec => []TypeOK` (of `ErrorBridge`) |
| `NothingElseStaysPending` | `Spec => []PendingIsInFlight` |
| `ErrorsAreDelivered` | `Spec => ImplementsDelivery` |
| `RubyAlwaysWins` | `Spec => []RubyWins` |
| `ResolvedStaysAnswered` | `Spec => []ResolvedHasAReason` |
| `AssignmentIsRead` | `Spec => []AssignedIsRead` |
| `LastInstalledIsCalled` | `Spec => []LastDebuggerIsCalled` |
| `HookedStaysAlive` | `Spec => []HookedDebuggerIsAlive` |

"On one thread" is `Lone`. For RubyLandProxy it says at most one thread and
`~OutOfMemory`. Both are needed: with two threads there are the counterexamples listed
above, and a failed `JCHECK` leaves a bound proxy out of the table. For JSLandProxy it
says at most one thread, no failure once the cell is made, and no `SelfConverting`;
TLC finds a counterexample without any one of them. Dates and preemption are allowed: these
are the hypotheses of `js_proxies_single` for any number of objects, cells and frames.
"Undisturbed" is `Undisturbed`: no Times or Dates, and no other thread running between the
permission to collect and the collection, which holds on one thread or if the collection
follows at once. The counterexamples of `js_proxies_dates` and of preemption show that
neither can be dropped.

The inductive invariant `IInv` of `RubyLandProxies`. `IndexIsExact` is not inductive: `Insert` needs
to know that its frame's value is live and its proxy allocated and not yet
anybody's (`FrameInv`); a sweep must not free what a frame, the program or a
substitute refers to (`GarbageInv`, `HeldInv`); a JavaScript collection must spare
the value of every entry, and does because the entry's proxy is in the root
table (`RootInv`); and teardown must not find a frame in the middle
(`LifeInv`). There is one lemma per action, with one step for each part the
action disturbs.

On one thread `LoneInv` adds that every bound proxy is the table's answer for its value, and
that a frame which is asking for the current context is on top of its thread's
stack and its value has no entry yet. The second part is the heart: on one
thread nothing can run between line 548 and line 576, because `current_context`
converts nothing. `NobodyAsks` states it. The refinement maps the table to
`standsFor` and the reachable bound proxies to `inUse`; `Insert` is `Wrap`, a
sweep that runs `finalize` is `Forget` of one value, `deallocate` is `Forget` of
all, and every other step changes at most `inUse`.

The invariants of `JSLandProxies` have a common base. `BasicInv` holds always: private
slots and references to a proxy belong to live cells, every pin has a cell, what is
pinned or being converted is alive, and a frame that asks for the current context is on
top of the stack of a thread with a context map (`AskingIsOnTop`). `should_sm_gc?` then
lets no collection run while there is such a frame, unless it is on the collecting
thread, and there it is not on top (`AllowedWhenNobodyAsks`). So, undisturbed, a base_value
that nothing roots is never in use when a collection runs (`SafeInv`). `TwinInv` adds
that what is named, by a script, a frame or the table, is pinned; it is inductive only
as long as no object has two cells, which is what `OnlyTwinsLose` says.

On one thread the table need not be exact: a Date dies before its proxy, its entry stays,
and another cell may get its address. `LoneInv` asks less of it. An object with a
cell has *some* entry, or a frame is about to write it (`CellsAreNoted`); a frame that
found none has no entry (`MissingHaveNoEntry`), and two such frames convert different
objects (`MissingDiffer`). So an object that has missed has no cell
(`MissedHasNoCell`), no second one is made, and no finalizer unpins an object under
another cell (`CellsArePinned`). What is wrong with a stale entry is the answer, not
the identity: `CachedHitIsLive` fails, `OneProxyPerObject` and `PrivateIsLive` hold.

The invariant of `Traps` is that what `break` has armed is noted (`BreakpointsAreNoted`),
also when `set_trap` has replaced the block or `break` the trap of `set_trap`; the
`ensure` clause then clears every breakpoint, and a nested one does so already.

The invariant of `Contexts` goes around a circle: an entry keeps its runtime from
being deallocated (`Pinned`), so the runtime keeps its object id (`EntryInv`), so the
id cannot be given to another runtime (`IdInv`), so the entry is found by nobody who
asks for another. A call and the program pin their runtime too (`CallInv`,
`HeldInv`). `OneGlobal` needs `GlobalInv`, and that needs to know that no other
thread has a context of a runtime that is still being initialized (`NewInv`):
`Finish` copies the global object of the one entry its thread has, whichever of the
two Contexts of a failed initialization made it.

`Crossing`. None of its properties is inductive, because what a step of a function may
do depends on all that the function did before: `JRETURN` is balanced if everything
rooted earlier was noted, a false return arrives at a test if the function below is in
a call that is tested. So the proof has two halves.

The first is about one function at a time. A *point* is what a function still has to do
and what it holds. `Kept` says what the rules ask of the next step at a point: there is
room for a cleanup, `Unroot` removes the innermost entry of that name, only a function
of kind "ruby" raises, only one of kind "js" returns `JS_FALSE`, both with nothing
held, and a call without a check goes only where a failure is a `longjmp`. `After` is
the set of points that can follow inside the function, one per outcome. A point is
`Sound` if it belongs to some set of points that are all kept and that `After` does not
leave: a greatest fixed point, so a loop needs no induction, only a set that contains
the points of its body. `Verified(f)` says that the beginning of `f` is sound, and
`AllVerified` that all 46 are.

Most of that is done by rules, so that the proof of a function reads like its body. The
*vocabulary* of a function that roots nothing itself has to fit its kind (`Fits`,
`AllFit`: a set of steps closed under the branches and loop bodies in it, which replaces
an induction over their nesting). For a function that roots, a *proof outline*
(`FollowsOutline`) gives a bound on what is held before each step; `Outline` carries it
from the end of the function to its beginning. `Passes` is the outline of a branch. The
loop of `each` takes its two roots back with `JUNROOT`, which writes a hole into the
array and not a shorter array; its proof follows what is in the array, `EachProperty`.

The second half is about the stack. `IInv` says that every frame is sound, that every
frame but the top one is in a call of the kind of the frame above it (`WellFormed`,
`Waits`; an engine call has a collector handler above it), that everything held is
registered and, before an unprotected exception, nothing else (`Rooted`), and that a failure on its way up has a frame below that waits for its kind
(`Waiting`). Each action turns the top frame's point into one of `After`, or pushes the
beginning of a verified function, or pops; the theorems follow from `IInv` by reading
`Kept` at the top. `RootsBalanced` and `NoJumpOverScript` say nothing once an unprotected
exception has been raised, because then they are false (see the disagreements);
`HeldIsRegistered` is proved without that condition, for any number of such
exceptions. The proof is for the functions as `BridgeFunctions` writes them down, any
depth and any entries. The four that use a NULL are among them: the use is a step
("null") that ends the process, which is why `NullIsNotUsed` is a disagreement and
no theorem.

`ErrorBridge`. `TypeOK` says more than types: a link carries an error exactly when it
describes one, and Ruby is never made to raise null or nothing. It is inductive, and
so is `PendingIsInFlight` with it. The refinement is proved step by step over the
three things an action does to the carried errors: a call is pushed (`CarriedPushed`),
popped (`CarriedPopped`), or takes over the error in flight (`CarriedTaken`). What
`Deliver` and `Report` bring out is what their link was given, whatever the calls above
it, which are gone by then, have left in `pending`, `ex` and `msg`. `ErrorsAreDelivered`
does not say that the code which describes an error succeeds: if it raises, its error
is the one that goes on.

`PropertyAccess`. `Inv` adds to its three properties that an autovivified reader has its
writer (`AutovivifiedHasWriter`). `GetFirst` says what `get` computes: what the first
source in its order presents, and by `GetNothing` the engine's slot if none does.

`DebuggerHooks`. `HooksFollow` says that the hooks of the runtime, and those of a context
on its own, are the installed ones; `ReachableIsAlive` that what Ruby can reach was not
freed. With them, what a hook calls is what `@debugger` keeps (`HookIsInstalled`).

TLC checked each of these invariants on an instance of its module before it was
proved; for `Crossing` that was `IInv` with `Kept` of the frame's next step in place of
`Sound`, a set TLC cannot enumerate.

Only model-checked:

* Liveness: `ControlComesBack`, `ErrorsArrive`, `UnusedRuntimeIsFreed`,
  `GcCollectsForOneThread`. It needs `ENABLED` and fairness, which the prover does not
  reason about.
* The known disagreements: a counterexample is an instance, and the run that finds it is
  its proof.

## Plan

1. Theorems: what a second thread can still rely on with Dates; how long a stale entry
   of a Date lives; a shorter proof of the longer bodies of `Crossing`.
2. Prelude: `Johnson.require` with cycles, with a file that throws (it counts as
   loaded) and with two threads that load one file; `symbolize`, wrappers and
   conversions as lists.
3. Bridge: both proxy modules composed over both heaps; cycles through both are
   never collected, acyclic garbage can be.
4. Conversions: the integer boundary of a tagged value, round trips.
5. ParseTree: raw nodes and the arena that owns them; the rewriting visitor.

## Not modelled

The command line and the printing visitors (formatting and I/O), the
debugger's three reading methods, registration of classes, the
vendored SpiderMonkey and the browser environment. Names of roots, messages and
backtraces are left out everywhere.
