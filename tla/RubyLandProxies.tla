-------------------------- MODULE RubyLandProxies --------------------------
(***************************************************************************)
(* How a JavaScript value becomes a Ruby object, and how that Ruby object  *)
(* dies: make_ruby_land_proxy, unwrap_ruby_land_proxy and finalize of      *)
(* ext/spidermonkey/ruby_land_proxy.c, with deallocate of runtime.c, under *)
(* the two garbage collectors.                                             *)
(*                                                                         *)
(* A Proxy is a RubyLandProxy struct together with the T_DATA Ruby object  *)
(* that owns it.  Values and Proxies are ADDRESSES: once collected, an     *)
(* address is given to a new object.  jsids is the weak table from a value *)
(* to its proxy; roots is the set of proxies whose key field is registered *)
(* in SpiderMonkey's root table.                                           *)
(*                                                                         *)
(* A call of make_ruby_land_proxy is a frame.  It is cut into steps where  *)
(* the C code re-enters Ruby, because there another green thread may be    *)
(* scheduled and, inside the wrappers and the conversions, the same thread *)
(* may call make_ruby_land_proxy again:                                    *)
(*    idle -> context (the current_context call) -> wrap -> convert -> idle*)
(***************************************************************************)
EXTENDS FiniteSets

CONSTANTS Values,       \* addresses of JavaScript objects
          Proxies,      \* addresses of RubyLandProxy cells
          Substitutes,  \* Ruby objects a wrapper may return in place of a proxy
          Calls,        \* frames of make_ruby_land_proxy
          Threads,
          ThreadOf,     \* the thread a frame runs on
          OutOfMemory,  \* can SpiderMonkey refuse to grow its tables?
          None

ASSUME NoneAssumption ==
         None \notin Values \cup Proxies \cup Substitutes \cup Calls
ASSUME DisjointAssumption == Proxies \cap Substitutes = {}
ASSUME ThreadOfAssumption == ThreadOf \in [Calls -> Threads]
ASSUME OutOfMemoryAssumption == OutOfMemory \in BOOLEAN

Objects == Proxies \cup Substitutes

VARIABLES
  allocated,  \* Ruby objects that exist
  bound,      \* proxies whose runtime field is not NULL
  key,        \* proxy -> the value it stands for
  self,       \* proxy -> the Ruby object handed out for it
  inner,      \* substitute -> the proxy it refers to
  held,       \* objects the Ruby program refers to
  jsids, roots,
  jsLive,     \* JavaScript objects that exist
  jsHeld,     \* JavaScript objects the script refers to
  pc, value, local, parent, current,  \* the frames, and the top frame per thread
  runtime,    \* "up" or "freed"
  rtHeld,     \* has a live thread used it, or a variable kept it?
  garbage, rtGarbage  \* what the running Ruby collection has yet to sweep

rubyHeap == <<allocated, bound, key, self, inner, held>>
tables   == <<jsids, roots>>
jsHeap   == <<jsLive, jsHeld>>
frames   == <<pc, value, local, parent, current>>
life     == <<runtime, rtHeld, garbage, rtGarbage>>
vars     == <<rubyHeap, tables, jsHeap, frames, life>>

TypeOK ==
  /\ allocated \subseteq Objects
  /\ bound \subseteq Proxies
  /\ key \in [Proxies -> Values \cup {None}]
  /\ self \in [Proxies -> Objects \cup {None}]
  /\ inner \in [Substitutes -> Proxies \cup {None}]
  /\ held \subseteq Objects
  /\ jsids \in [Values -> Proxies \cup {None}]
  /\ roots \subseteq Proxies
  /\ jsLive \subseteq Values
  /\ jsHeld \subseteq Values
  /\ pc \in [Calls -> {"idle", "context", "wrap", "convert"}]
  /\ value \in [Calls -> Values \cup {None}]
  /\ local \in [Calls -> Objects \cup {None}]
  /\ parent \in [Calls -> Calls \cup {None}]
  /\ current \in [Threads -> Calls \cup {None}]
  /\ runtime \in {"up", "freed"}
  /\ rtHeld \in BOOLEAN
  /\ garbage \subseteq Objects
  /\ rtGarbage \in BOOLEAN

Init ==
  /\ allocated = {} /\ bound = {} /\ held = {}
  /\ key = [p \in Proxies |-> None]
  /\ self = [p \in Proxies |-> None]
  /\ inner = [s \in Substitutes |-> None]
  /\ jsids = [v \in Values |-> None]
  /\ roots = {}
  /\ jsLive = {} /\ jsHeld = {}
  /\ pc = [c \in Calls |-> "idle"]
  /\ value = [c \in Calls |-> None]
  /\ local = [c \in Calls |-> None]
  /\ parent = [c \in Calls |-> None]
  /\ current = [t \in Threads |-> None]
  /\ runtime = "up" /\ rtHeld = TRUE
  /\ garbage = {} /\ rtGarbage = FALSE

-----------------------------------------------------------------------------
Active == {c \in Calls : pc[c] # "idle"}

\* Ruby's collector scans the program's variables and the C stacks
\* conservatively; a RubyLandProxy has no mark function, so self keeps
\* nothing alive.
Referenced == held \cup {local[c] : c \in Active}
Reachable  == Referenced \cup {inner[s] : s \in Referenced \cap Substitutes}

\* SpiderMonkey marks what the script holds, every registered root, and the
\* value each frame (and its caller convert_to_ruby) has JROOTed.
JSReachable == jsHeld \cup {key[p] : p \in roots} \cup {value[c] : c \in Active}

\* The Ruby collector stops the program until the sweep is over.
Mutating == garbage = {} /\ ~rtGarbage

\* Whoever uses the bridge has a Context in its thread's map, and that Context
\* refers to the runtime.
Up == runtime = "up" /\ rtHeld /\ Mutating

Running(c) == Up /\ current[ThreadOf[c]] = c

\* A thread starts a frame from its program or from the Ruby code that the
\* wrappers and conversions of its top frame run.
MayEnter(t) ==
  current[t] \in {None} \cup {c \in Calls : pc[c] \in {"wrap", "convert"}}

Enter(c, v) ==
  /\ Up /\ pc[c] = "idle" /\ MayEnter(ThreadOf[c])
  /\ v \in JSReachable
  /\ value' = [value EXCEPT ![c] = v]
  /\ parent' = [parent EXCEPT ![c] = current[ThreadOf[c]]]
  /\ current' = [current EXCEPT ![ThreadOf[c]] = c]

Leave(c) ==
  /\ pc' = [pc EXCEPT ![c] = "idle"]
  /\ value' = [value EXCEPT ![c] = None]
  /\ local' = [local EXCEPT ![c] = None]
  /\ parent' = [parent EXCEPT ![c] = None]
  /\ current' = [current EXCEPT ![ThreadOf[c]] = parent[c]]

\* The table has a proxy: its self goes through the conversions.
LookupHit(c, v) ==
  /\ Enter(c, v)
  /\ jsids[v] # None
  /\ pc' = [pc EXCEPT ![c] = "convert"]
  /\ local' = [local EXCEPT ![c] = self[jsids[v]]]
  /\ UNCHANGED <<rubyHeap, tables, jsHeap, life>>

\* It has none: a zeroed struct and its Ruby object are allocated, then the
\* current context is asked for, in Ruby.
LookupMiss(c, v) ==
  /\ Enter(c, v)
  /\ jsids[v] = None
  /\ \E q \in Proxies \ allocated :
       /\ allocated' = allocated \cup {q}
       /\ local' = [local EXCEPT ![c] = q]
  /\ pc' = [pc EXCEPT ![c] = "context"]
  /\ UNCHANGED <<bound, key, self, inner, held, tables, jsHeap, life>>

\* Mutant: the key is rooted but never assigned.
BindKeyless(c) ==
  /\ bound' = bound \cup {local[c]}
  /\ self' = [self EXCEPT ![local[c]] = local[c]]
  /\ UNCHANGED key

Bind(c) ==
  /\ bound' = bound \cup {local[c]}
  /\ key' = [key EXCEPT ![local[c]] = value[c]]
  /\ self' = [self EXCEPT ![local[c]] = local[c]]

\* Mutants: the key is not rooted; the proxy is not entered in the table.
InsertUnrooted(c) ==
  /\ Running(c) /\ pc[c] = "context"
  /\ Bind(c)
  /\ jsids' = [jsids EXCEPT ![value[c]] = local[c]]
  /\ pc' = [pc EXCEPT ![c] = "wrap"]
  /\ UNCHANGED <<allocated, inner, held, roots, jsHeap, value, local, parent, current, life>>

InsertUncached(c) ==
  /\ Running(c) /\ pc[c] = "context"
  /\ Bind(c)
  /\ roots' = roots \cup {local[c]}
  /\ pc' = [pc EXCEPT ![c] = "wrap"]
  /\ UNCHANGED <<allocated, inner, held, jsids, jsHeap, value, local, parent, current, life>>

\* The struct is filled in, its key rooted and the table entry written, with
\* no Ruby code in between.
Insert(c) ==
  /\ Running(c) /\ pc[c] = "context"
  /\ Bind(c)
  /\ roots' = roots \cup {local[c]}
  /\ jsids' = [jsids EXCEPT ![value[c]] = local[c]]
  /\ pc' = [pc EXCEPT ![c] = "wrap"]
  /\ UNCHANGED <<allocated, inner, held, jsHeap, value, local, parent, current, life>>

\* One of the three JCHECKs fails: the frame is left by raising in Ruby.
RootValueFails(c) ==
  /\ OutOfMemory /\ Running(c) /\ pc[c] = "context"
  /\ Leave(c)
  /\ UNCHANGED <<rubyHeap, tables, jsHeap, life>>

RootKeyFails(c) ==
  /\ OutOfMemory /\ Running(c) /\ pc[c] = "context"
  /\ Bind(c)
  /\ Leave(c)
  /\ UNCHANGED <<allocated, inner, held, tables, jsHeap, life>>

AddFails(c) ==
  /\ OutOfMemory /\ Running(c) /\ pc[c] = "context"
  /\ Bind(c)
  /\ roots' = roots \cup {local[c]}
  /\ Leave(c)
  /\ UNCHANGED <<allocated, inner, held, jsids, jsHeap, life>>

\* apply_wrappers returns the proxy it was given (extended with modules) ...
WrapExtends(c) ==
  /\ Running(c) /\ pc[c] = "wrap"
  /\ pc' = [pc EXCEPT ![c] = "convert"]
  /\ UNCHANGED <<rubyHeap, tables, jsHeap, value, local, parent, current, life>>

\* ... or another object built around it, which becomes self ...
WrapReplaces(c) ==
  /\ Running(c) /\ pc[c] = "wrap"
  /\ \E s \in Substitutes \ allocated :
       /\ allocated' = allocated \cup {s}
       /\ inner' = [inner EXCEPT ![s] = local[c]]
       /\ self' = [self EXCEPT ![local[c]] = s]
       /\ local' = [local EXCEPT ![c] = s]
  /\ pc' = [pc EXCEPT ![c] = "convert"]
  /\ UNCHANGED <<bound, key, held, tables, jsHeap, value, parent, current, life>>

\* ... or raises: JPROTECT removes the local root and jumps.
WrapRaises(c) ==
  /\ Running(c) /\ pc[c] = "wrap"
  /\ Leave(c)
  /\ UNCHANGED <<rubyHeap, tables, jsHeap, life>>

\* apply_conversions has run; the caller keeps the result or does not.  (What
\* a program does with an object that is not there is not modelled.)
Return(c) ==
  /\ Running(c) /\ pc[c] = "convert"
  /\ held' \in {held, held \cup ({local[c]} \cap allocated)}
  /\ Leave(c)
  /\ UNCHANGED <<allocated, bound, key, self, inner, tables, jsHeap, life>>

\* A wrapper or a conversion stores the object it is given.
Stash(c) ==
  /\ Up /\ pc[c] \in {"wrap", "convert"}
  /\ local[c] \in allocated \ held
  /\ held' = held \cup {local[c]}
  /\ UNCHANGED <<allocated, bound, key, self, inner, tables, jsHeap, frames, life>>

-----------------------------------------------------------------------------
\* The program around the bridge.

\* A proxy is passed back to JavaScript.
Unwrap(p) ==
  /\ Up /\ p \in held \cap Proxies /\ key[p] \notin jsHeld
  /\ jsHeld' = jsHeld \cup {key[p]}
  /\ UNCHANGED <<rubyHeap, tables, jsLive, frames, life>>

ReadInner(s) ==
  /\ Mutating /\ s \in held \cap Substitutes
  /\ held' = held \cup {inner[s]}
  /\ UNCHANGED <<allocated, bound, key, self, inner, tables, jsHeap, frames, life>>

Drop(o) ==
  /\ Mutating /\ o \in held
  /\ held' = held \ {o}
  /\ UNCHANGED <<allocated, bound, key, self, inner, tables, jsHeap, frames, life>>

\* The last thread that used the runtime ends (or the process does) ...
DropRuntime ==
  /\ Up /\ Active = {}
  /\ rtHeld' = FALSE
  /\ UNCHANGED <<rubyHeap, tables, jsHeap, frames, runtime, garbage, rtGarbage>>

\* ... and another one comes to it through a proxy it was left.
UseProxy(p) ==
  /\ runtime = "up" /\ Mutating /\ ~rtHeld
  /\ p \in held \cap bound
  /\ rtHeld' = TRUE
  /\ UNCHANGED <<rubyHeap, tables, jsHeap, frames, runtime, garbage, rtGarbage>>

JSNew(v) ==
  /\ Up /\ v \notin jsLive
  /\ jsLive' = jsLive \cup {v}
  /\ jsHeld' = jsHeld \cup {v}
  /\ UNCHANGED <<rubyHeap, tables, frames, life>>

JSDrop(v) ==
  /\ Up /\ v \in jsHeld
  /\ jsHeld' = jsHeld \ {v}
  /\ UNCHANGED <<rubyHeap, tables, jsLive, frames, life>>

\* JS_GC.
JSCollect ==
  /\ Up /\ ~ (jsLive \subseteq JSReachable)
  /\ jsLive' = jsLive \cap JSReachable
  /\ UNCHANGED <<rubyHeap, tables, jsHeld, frames, life>>

-----------------------------------------------------------------------------
\* Ruby's mark phase.  A reachable proxy keeps the runtime alive through its
\* @runtime variable.
Mark ==
  /\ Mutating
  /\ garbage' = allocated \ Reachable
  /\ rtGarbage' = (runtime = "up" /\ ~rtHeld /\ Reachable \cap bound = {})
  /\ garbage' # {} \/ rtGarbage'
  /\ UNCHANGED <<rubyHeap, tables, jsHeap, frames, runtime, rtHeld>>

\* Mutants: finalize forgets the table entry; it forgets the root.
finalizeKeepsEntry(p) ==
  /\ roots' = roots \ {p}
  /\ UNCHANGED jsids

finalizeKeepsRoot(p) ==
  IF p \in bound
    THEN jsids' = [jsids EXCEPT ![key[p]] = None] /\ UNCHANGED roots
    ELSE UNCHANGED tables

\* finalize: only a proxy that still has a runtime touches it.
finalize(p) ==
  IF p \in bound
    THEN /\ jsids' = [jsids EXCEPT ![key[p]] = None]
         /\ roots' = roots \ {p}
    ELSE UNCHANGED tables

SweepProxy(p) ==
  /\ p \in garbage \cap Proxies
  /\ finalize(p)
  /\ garbage' = garbage \ {p}
  /\ allocated' = allocated \ {p}
  /\ bound' = bound \ {p}
  /\ key' = [key EXCEPT ![p] = None]
  /\ self' = [self EXCEPT ![p] = None]
  /\ UNCHANGED <<inner, held, jsHeap, frames, runtime, rtHeld, rtGarbage>>

SweepSubstitute(s) ==
  /\ s \in garbage \cap Substitutes
  /\ garbage' = garbage \ {s}
  /\ allocated' = allocated \ {s}
  /\ inner' = [inner EXCEPT ![s] = None]
  /\ UNCHANGED <<bound, key, self, held, tables, jsHeap, frames, runtime, rtHeld, rtGarbage>>

\* Mutant: deallocate leaves the proxies as they are.
no_cleanup == {}

\* deallocate: every proxy IN THE TABLE loses its root and its pointer to the
\* runtime, then the JavaScript heap, the tables and the runtime go.
proxy_cleanup == {p \in Proxies : \E v \in Values : jsids[v] = p}

deallocate ==
  /\ rtGarbage
  /\ bound' = bound \ proxy_cleanup
  /\ roots' = {}
  /\ jsids' = [v \in Values |-> None]
  /\ jsLive' = {} /\ jsHeld' = {}
  /\ runtime' = "freed" /\ rtGarbage' = FALSE
  /\ UNCHANGED <<allocated, key, self, inner, held, frames, rtHeld, garbage>>

-----------------------------------------------------------------------------
make_ruby_land_proxy(c) ==
  \/ \E v \in Values : LookupHit(c, v) \/ LookupMiss(c, v)
  \/ Insert(c)
  \/ RootValueFails(c) \/ RootKeyFails(c) \/ AddFails(c)
  \/ WrapExtends(c) \/ WrapReplaces(c) \/ WrapRaises(c)
  \/ Return(c) \/ Stash(c)

Program ==
  \/ \E p \in Proxies : Unwrap(p) \/ UseProxy(p)
  \/ \E s \in Substitutes : ReadInner(s)
  \/ \E o \in Objects : Drop(o)
  \/ DropRuntime
  \/ \E v \in Values : JSNew(v) \/ JSDrop(v)

Collectors ==
  \/ JSCollect
  \/ Mark
  \/ \E p \in Proxies : SweepProxy(p)
  \/ \E s \in Substitutes : SweepSubstitute(s)
  \/ deallocate

Next == (\E c \in Calls : make_ruby_land_proxy(c)) \/ Program \/ Collectors

Spec == Init /\ [][Next]_vars

-----------------------------------------------------------------------------
\* An entry of jsids never outlives what it refers to: the proxy exists, it
\* stands for that value, its root is registered and the value is alive.  So
\* a JavaScript object created at a recycled address cannot be answered with
\* the proxy of the object that was there before (ruby_land_proxy.c:548-553).
IndexIsExact ==
  \A v \in Values : jsids[v] # None =>
    /\ jsids[v] \in allocated \cap bound \cap roots
    /\ key[jsids[v]] = v
    /\ v \in jsLive

\* Whatever proxy the program can still pass back to JavaScript, the object
\* behind it has not been collected (the root of ruby_land_proxy.c:572-573).
ProxyPinsValue ==
  runtime = "up" =>
    \A p \in Reachable \cap bound : key[p] \in jsLive

\* SpiderMonkey's root table never holds the address of a freed struct, which
\* its next mark phase would read (finalize removes it, deallocate too).
RootsAreAllocated == roots \subseteq allocated

\* No two proxies stand for one value (the caching of lines 548-580).
OneProxyPerValue ==
  \A p, q \in bound : key[p] = key[q] => p = q

\* Once the runtime is freed no proxy still points to it, so a finalize that
\* is swept after deallocate does not touch it (lines 490-503).
FreedRuntimeIsForgotten == runtime = "freed" => bound = {}

\* The object a lookup answers with exists (line 553).
AnswerIsAllocated == \A c \in Active : local[c] \in allocated

\* The proxies are an identity map: as long as the program can reach the proxy
\* of a value, the value has that proxy and no other (lines 548-580).
Identity == INSTANCE ProxyIdentity WITH
  Originals <- Values, standsFor <- jsids, inUse <- Reachable \cap bound

ImplementsIdentity == Identity!Spec
=============================================================================
