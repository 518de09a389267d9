--------------------------- MODULE JSLandProxies ---------------------------
(***************************************************************************)
(* How a Ruby object becomes a JavaScript object, and how that object      *)
(* dies: make_js_land_proxy, unwrap_js_land_proxy and finalize of          *)
(* ext/spidermonkey/js_land_proxy.c, with add_gcthing, remove_gcthing and  *)
(* should_sm_gc? of lib/johnson/spidermonkey/runtime.rb, under the two     *)
(* garbage collectors.                                                     *)
(*                                                                         *)
(* Objects are addresses of Ruby objects, Cells addresses of JavaScript    *)
(* objects: a collected address is used again.  A cell with a private      *)
(* field is a JSLandProxy; a cell with a wrappedRuby field is the Date     *)
(* that core.js puts in front of the proxy of a Time.                      *)
(*                                                                         *)
(* A call of make_js_land_proxy is a frame, cut where the C code re-enters *)
(* Ruby or JavaScript, because there another thread may be scheduled, the  *)
(* same thread may convert another object, or a collector may run:         *)
(*    idle -> context (current_context) -> convert               (a hit)   *)
(*    idle -> context -> respond (respond_to?) -> wrap -> convert (a miss) *)
(***************************************************************************)
EXTENDS FiniteSets

CONSTANTS Objects,        \* addresses of Ruby objects
          Cells,          \* addresses of JavaScript objects
          Dates,          \* the Times and Dates among the objects
          Calls,          \* frames of make_js_land_proxy
          Threads,
          ThreadOf,       \* the thread a frame runs on
          Failures,       \* which of "respond", "define", "wrap" may fail
          SelfConverting, \* may respond_to? or a wrapper hand back the object itself?
          Preemptible,    \* may a thread switch fall between should_sm_gc?'s answer
                          \* and the collection?
          None

ASSUME NoneAssumption == None \notin Objects \cup Cells \cup Calls
ASSUME DatesAssumption == Dates \subseteq Objects
ASSUME ThreadOfAssumption == ThreadOf \in [Calls -> Threads]
ASSUME FailuresAssumption == Failures \subseteq {"respond", "define", "wrap"}
ASSUME SelfConvertingAssumption == SelfConverting \in BOOLEAN
ASSUME PreemptibleAssumption == Preemptible \in BOOLEAN

VARIABLES
  live,         \* JavaScript objects that exist
  private,      \* cell -> the Ruby object in its private slot
  wrappedRuby,  \* cell -> the proxy a Date refers to
  jsHeld,       \* cells the script refers to
  rbids, gcthings,
  rubyLive, rubyHeld,                       \* Ruby objects: existing, referred to
  pc, value, base, parent, current,         \* the frames, and the top one per thread
  context,                                  \* threads that have a context map
  asked                                     \* those about to collect, as allowed

jsHeap   == <<live, private, wrappedRuby, jsHeld>>
tables   == <<rbids, gcthings>>
rubyHeap == <<rubyLive, rubyHeld>>
frames   == <<pc, value, base, parent, current>>
threads  == <<context, asked>>
vars     == <<jsHeap, tables, rubyHeap, frames, threads>>

TypeOK ==
  /\ live \subseteq Cells
  /\ private \in [Cells -> Objects \cup {None}]
  /\ wrappedRuby \in [Cells -> Cells \cup {None}]
  /\ jsHeld \subseteq Cells
  /\ rbids \in [Objects -> Cells \cup {None}]
  /\ gcthings \subseteq Objects
  /\ rubyLive \subseteq Objects
  /\ rubyHeld \subseteq Objects
  /\ pc \in [Calls -> {"idle", "context", "respond", "wrap", "convert"}]
  /\ value \in [Calls -> Objects \cup {None}]
  /\ base \in [Calls -> Cells \cup {None}]
  /\ parent \in [Calls -> Calls \cup {None}]
  /\ current \in [Threads -> Calls \cup {None}]
  /\ context \subseteq Threads
  /\ asked \subseteq Threads

Init ==
  /\ live = {} /\ jsHeld = {}
  /\ private = [o \in Cells |-> None]
  /\ wrappedRuby = [o \in Cells |-> None]
  /\ rbids = [r \in Objects |-> None]
  /\ gcthings = {}
  /\ rubyLive = {} /\ rubyHeld = {}
  /\ pc = [c \in Calls |-> "idle"]
  /\ value = [c \in Calls |-> None]
  /\ base = [c \in Calls |-> None]
  /\ parent = [c \in Calls |-> None]
  /\ current = [t \in Threads |-> None]
  /\ context = {} /\ asked = {}

-----------------------------------------------------------------------------
Active == {c \in Calls : pc[c] # "idle"}

\* A fresh proxy is JROOTed and an argument of a JavaScript function is on
\* its stack; base_value as read from the table is neither.
JSReferenced == jsHeld \cup {base[c] : c \in {d \in Calls : pc[d] \in {"wrap", "convert"}}}
JSReachable  == JSReferenced \cup {wrappedRuby[o] : o \in JSReferenced \cap live}

\* The Ruby collector sees the program's variables, the C stacks and the
\* runtime's @gcthings; a private slot keeps nothing alive.
RubyReferenced == rubyHeld \cup {value[c] : c \in Active}
RubyReachable  == RubyReferenced \cup gcthings

Running(c) == current[ThreadOf[c]] = c /\ ThreadOf[c] \notin asked

\* A thread converts an object from its program or from the Ruby and
\* JavaScript code that its top frame runs.
MayEnter(t) ==
  /\ t \in context \ asked
  /\ current[t] \in {None} \cup {c \in Calls : pc[c] \in {"respond", "wrap", "convert"}}

Converting(t, r) ==
  \E c \in Calls : ThreadOf[c] = t /\ pc[c] \in {"respond", "wrap"} /\ value[c] = r

Leave(c) ==
  /\ pc' = [pc EXCEPT ![c] = "idle"]
  /\ value' = [value EXCEPT ![c] = None]
  /\ base' = [base EXCEPT ![c] = None]
  /\ parent' = [parent EXCEPT ![c] = None]
  /\ current' = [current EXCEPT ![ThreadOf[c]] = parent[c]]

\* The table is read, then the current context is asked for, in Ruby.
Lookup(c, r) ==
  /\ pc[c] = "idle" /\ MayEnter(ThreadOf[c])
  /\ r \in RubyReferenced \cap rubyLive
  /\ SelfConverting \/ ~ Converting(ThreadOf[c], r)
  /\ pc' = [pc EXCEPT ![c] = "context"]
  /\ value' = [value EXCEPT ![c] = r]
  /\ base' = [base EXCEPT ![c] = rbids[r]]
  /\ parent' = [parent EXCEPT ![c] = current[ThreadOf[c]]]
  /\ current' = [current EXCEPT ![ThreadOf[c]] = c]
  /\ UNCHANGED <<jsHeap, tables, rubyHeap, threads>>

\* base_value becomes the argument of applyConversions.
Hit(c) ==
  /\ Running(c) /\ pc[c] = "context" /\ base[c] # None
  /\ pc' = [pc EXCEPT ![c] = "convert"]
  /\ UNCHANGED <<jsHeap, tables, rubyHeap, value, base, parent, current, threads>>

Miss(c) ==
  /\ Running(c) /\ pc[c] = "context" /\ base[c] = None
  /\ pc' = [pc EXCEPT ![c] = "respond"]
  /\ UNCHANGED <<jsHeap, tables, rubyHeap, value, base, parent, current, threads>>

\* A cell is allocated and the Ruby object stored in its private slot.
NewCell(c, o) ==
  /\ o \in Cells \ live
  /\ live' = live \cup {o}
  /\ private' = [private EXCEPT ![o] = value[c]]

\* Mutant: add_gcthing is not called.
NewProxyUnpinned(c) ==
  /\ Running(c) /\ pc[c] = "respond"
  /\ \E o \in Cells :
       /\ NewCell(c, o)
       /\ base' = [base EXCEPT ![c] = o]
  /\ pc' = [pc EXCEPT ![c] = "wrap"]
  /\ UNCHANGED <<wrappedRuby, jsHeld, tables, rubyHeap, value, parent, current, threads>>

NewProxy(c) ==
  /\ Running(c) /\ pc[c] = "respond"
  /\ \E o \in Cells :
       /\ NewCell(c, o)
       /\ base' = [base EXCEPT ![c] = o]
  /\ gcthings' = gcthings \cup {value[c]}
  /\ pc' = [pc EXCEPT ![c] = "wrap"]
  /\ UNCHANGED <<wrappedRuby, jsHeld, rbids, rubyHeap, value, parent, current, threads>>

\* respond_to? raises or JS_NewObject fails: nothing was done.
NewObjectFails(c) ==
  /\ "respond" \in Failures /\ Running(c) /\ pc[c] = "respond"
  /\ Leave(c)
  /\ UNCHANGED <<jsHeap, tables, rubyHeap, threads>>

\* A JS_DefineFunction fails: the cell stays, with its private slot set.
DefineFails(c) ==
  /\ "define" \in Failures /\ Running(c) /\ pc[c] = "respond"
  /\ \E o \in Cells : NewCell(c, o)
  /\ Leave(c)
  /\ UNCHANGED <<wrappedRuby, jsHeld, tables, rubyHeap, threads>>

\* Mutant: the proxy is not entered in rbids.
AddProxyUncached(c) ==
  /\ Running(c) /\ pc[c] = "wrap" /\ value[c] \notin Dates
  /\ pc' = [pc EXCEPT ![c] = "convert"]
  /\ UNCHANGED <<jsHeap, tables, rubyHeap, value, base, parent, current, threads>>

\* applyWrappers is done and its result goes into the table: the proxy ...
AddProxy(c) ==
  /\ Running(c) /\ pc[c] = "wrap" /\ value[c] \notin Dates
  /\ rbids' = [rbids EXCEPT ![value[c]] = base[c]]
  /\ pc' = [pc EXCEPT ![c] = "convert"]
  /\ UNCHANGED <<jsHeap, gcthings, rubyHeap, value, base, parent, current, threads>>

\* ... or, for a Time or a Date, a JavaScript Date that refers to the proxy.
AddDate(c) ==
  /\ Running(c) /\ pc[c] = "wrap" /\ value[c] \in Dates
  /\ \E d \in Cells \ live :
       /\ live' = live \cup {d}
       /\ wrappedRuby' = [wrappedRuby EXCEPT ![d] = base[c]]
       /\ rbids' = [rbids EXCEPT ![value[c]] = d]
       /\ base' = [base EXCEPT ![c] = d]
  /\ pc' = [pc EXCEPT ![c] = "convert"]
  /\ UNCHANGED <<private, jsHeld, gcthings, rubyHeap, value, parent, current, threads>>

\* A wrapper throws (or JS_HashTableAdd fails): the cell and its entry in
\* @gcthings stay behind.
WrapFails(c) ==
  /\ "wrap" \in Failures /\ Running(c) /\ pc[c] = "wrap"
  /\ Leave(c)
  /\ UNCHANGED <<jsHeap, tables, rubyHeap, threads>>

\* applyConversions has run; the script keeps the result or does not.  (What
\* happens with a result that is not there is not modelled.)
Return(c) ==
  /\ Running(c) /\ pc[c] = "convert"
  /\ jsHeld' \in {jsHeld, jsHeld \cup ({base[c]} \cap live)}
  /\ Leave(c)
  /\ UNCHANGED <<live, private, wrappedRuby, tables, rubyHeap, threads>>

-----------------------------------------------------------------------------
\* The programs on the two sides.

\* A thread uses the runtime for the first time; later it ends.
StartThread(t) ==
  /\ t \notin context
  /\ context' = context \cup {t}
  /\ UNCHANGED <<jsHeap, tables, rubyHeap, frames, asked>>

EndThread(t) ==
  /\ t \in context \ asked /\ current[t] = None
  /\ context' = context \ {t}
  /\ UNCHANGED <<jsHeap, tables, rubyHeap, frames, asked>>

RubyNew(r) ==
  /\ r \notin rubyLive
  /\ rubyLive' = rubyLive \cup {r}
  /\ rubyHeld' = rubyHeld \cup {r}
  /\ UNCHANGED <<jsHeap, tables, frames, threads>>

RubyDrop(r) ==
  /\ r \in rubyHeld
  /\ rubyHeld' = rubyHeld \ {r}
  /\ UNCHANGED <<jsHeap, tables, rubyLive, frames, threads>>

\* Mutant: any object is taken for a proxy.
UnwrapUnchecked(o) ==
  /\ o \in jsHeld /\ private[o] \notin rubyHeld
  /\ rubyHeld' = rubyHeld \cup {private[o]}
  /\ UNCHANGED <<jsHeap, tables, rubyLive, frames, threads>>

\* The script passes a proxy back to Ruby, which finds the object in it.
Unwrap(o) ==
  /\ o \in jsHeld /\ private[o] \in rubyLive \ rubyHeld
  /\ rubyHeld' = rubyHeld \cup {private[o]}
  /\ UNCHANGED <<jsHeap, tables, rubyLive, frames, threads>>

ReadWrappedRuby(d) ==
  /\ d \in jsHeld /\ wrappedRuby[d] \in Cells \ jsHeld
  /\ jsHeld' = jsHeld \cup {wrappedRuby[d]}
  /\ UNCHANGED <<live, private, wrappedRuby, tables, rubyHeap, frames, threads>>

JSDrop(o) ==
  /\ o \in jsHeld
  /\ jsHeld' = jsHeld \ {o}
  /\ UNCHANGED <<live, private, wrappedRuby, tables, rubyHeap, frames, threads>>

-----------------------------------------------------------------------------
\* The collectors.

\* Mutant: JavaScript is collected whoever else is inside.
always_gc(t) == TRUE

\* No thread but t has a context map.
should_sm_gc(t) == context \subseteq {t}

\* Mutants: finalize forgets one of the two tables.
finalizeKeepsEntry(dead) ==
  /\ gcthings' = gcthings \ {private[o] : o \in dead}
  /\ UNCHANGED rbids

finalizeKeepsPin(dead) ==
  LET freed == {private[o] : o \in dead} \ {None}
  IN /\ rbids' = [r \in Objects |-> IF r \in freed THEN None ELSE rbids[r]]
     /\ UNCHANGED gcthings

\* Every dead proxy has its object's entry removed from both tables.
finalize(dead) ==
  LET freed == {private[o] : o \in dead} \ {None}
  IN /\ rbids' = [r \in Objects |-> IF r \in freed THEN None ELSE rbids[r]]
     /\ gcthings' = gcthings \ freed

\* JS_GC asks Ruby, on a thread that is anywhere but in its own
\* current_context, and the answer is yes ...
Allowed(t) == MayEnter(t) /\ should_sm_gc(t)

gc_callback(t) ==
  /\ Preemptible /\ Allowed(t)
  /\ asked' = asked \cup {t}
  /\ UNCHANGED <<jsHeap, tables, rubyHeap, frames, context>>

\* ... and then collects.  Each finalizer calls Ruby (js_land_proxy.c:556), where
\* a thread that had no context of this runtime may begin to use it; the cells
\* that are dead by then are gone together here, and such a thread only comes
\* before or after all of them.
JSCollect(t) ==
  /\ IF Preemptible THEN t \in asked ELSE Allowed(t)
  /\ LET dead == live \ JSReachable
     IN /\ live' = live \ dead
        /\ finalize(dead)
        /\ private' = [o \in Cells |-> IF o \in dead THEN None ELSE private[o]]
        /\ wrappedRuby' = [o \in Cells |-> IF o \in dead THEN None ELSE wrappedRuby[o]]
  /\ asked' = asked \ {t}
  /\ UNCHANGED <<jsHeld, rubyHeap, frames, context>>

RubyCollect ==
  /\ ~ (rubyLive \subseteq RubyReachable)
  /\ rubyLive' = rubyLive \cap RubyReachable
  /\ UNCHANGED <<jsHeap, tables, rubyHeld, frames, threads>>

-----------------------------------------------------------------------------
make_js_land_proxy(c) ==
  \/ \E r \in Objects : Lookup(c, r)
  \/ Hit(c) \/ Miss(c)
  \/ NewProxy(c) \/ NewObjectFails(c) \/ DefineFails(c)
  \/ AddProxy(c) \/ AddDate(c) \/ WrapFails(c)
  \/ Return(c)

Program ==
  \/ \E t \in Threads : StartThread(t) \/ EndThread(t)
  \/ \E r \in Objects : RubyNew(r) \/ RubyDrop(r)
  \/ \E o \in Cells : Unwrap(o) \/ ReadWrappedRuby(o) \/ JSDrop(o)

Next ==
  \/ \E c \in Calls : make_js_land_proxy(c)
  \/ Program
  \/ \E t \in Threads : gc_callback(t) \/ JSCollect(t)
  \/ RubyCollect

Spec == Init /\ [][Next]_vars

-----------------------------------------------------------------------------
\* The Ruby object a proxy, or the Date in front of it, stands for.
original(o) == IF wrappedRuby[o] = None THEN private[o] ELSE private[wrappedRuby[o]]

\* An entry of rbids refers to a live proxy of that very object: finalize
\* removes it when the proxy dies (js_land_proxy.c:552-553).
IndexIsExact ==
  \A r \in Objects : rbids[r] # None => rbids[r] \in live /\ original(rbids[r]) = r

\* The base_value that a frame read at js_land_proxy.c:562 is still alive when
\* it is used at line 573: it is not rooted in between, but no collection runs
\* while another thread has a context.
CachedHitIsLive ==
  \A c \in Active : base[c] # None =>
    base[c] \in live /\ original(base[c]) = value[c]

\* Every object in @gcthings has a proxy whose finalizer will remove it:
\* nothing stays pinned once JavaScript has let go (lines 555-556, 606-608).
PinnedByAProxy == gcthings \subseteq {private[o] : o \in live}

\* The Ruby object behind every proxy that a script can still reach exists
\* ("root the ruby value for GC", lines 606-608).
PrivateIsLive ==
  \A o \in JSReachable \cap live : private[o] # None => private[o] \in rubyLive

\* No object has two proxies (test_proxies_get_reused,
\* test/johnson/spidermonkey/js_land_proxy_test.rb:68-71).
OneProxyPerObject ==
  \A o, p \in live : private[o] = private[p] /\ private[o] # None => o = p

\* The only way to lose an object that a script can reach is to have had two
\* cells for it: both tables are keyed by the object, so the first of the two
\* finalizers (lines 552-556) unpins it under the other.
OnlyTwinsLoseObjects == []OneProxyPerObject => []PrivateIsLive

\* The proxies are an identity map: as long as the script can reach the proxy
\* of an object, the object has that proxy and no other (lines 562-574).
ProxyOf(r) ==
  LET cells == {o \in live : private[o] = r}
  IN IF cells = {} THEN None ELSE CHOOSE o \in cells : TRUE

Identity == INSTANCE ProxyIdentity WITH
  Originals <- Objects, Proxies <- Cells,
  standsFor <- [r \in Objects |-> ProxyOf(r)],
  inUse <- {o \in JSReachable \cap live : private[o] # None}

ImplementsIdentity == Identity!Spec
=============================================================================
