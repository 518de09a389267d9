----------------------- MODULE RubyLandProxies_proofs -----------------------
(***************************************************************************)
(* Proofs about RubyLandProxies, for every number of values, proxies,      *)
(* substitutes, frames and threads; then on one thread, up to the identity *)
(* map that ProxyIdentity specifies.                                       *)
(***************************************************************************)
EXTENDS RubyLandProxies, TLAPS

-----------------------------------------------------------------------------
(* The inductive invariant, in parts. *)

\* Who works on the bridge keeps the runtime.
LifeInv ==
  /\ runtime = "freed" => ~rtHeld /\ ~rtGarbage
  /\ ~rtHeld => Active = {}
  /\ rtGarbage => ~rtHeld

\* What a frame has in its hands.
FrameInv ==
  /\ \A c \in Active : value[c] \in jsLive /\ local[c] \in Objects
  /\ \A c \in Calls : pc[c] = "context" =>
       /\ local[c] \in Proxies \cap allocated
       /\ local[c] \notin bound \cup held
       /\ \A d \in Active : d # c => local[d] # local[c]
  /\ \A c \in Calls : pc[c] = "wrap" => local[c] \in Proxies
  /\ \A c \in Calls : pc[c] \in {"wrap", "convert"} /\ local[c] \in Proxies
                        => local[c] \in roots

\* Collected objects are out of everybody's reach.
GarbageInv ==
  /\ garbage \subseteq allocated
  /\ garbage \cap Reachable = {}

\* What the program refers to is there, and its proxies pin their values.
HeldInv ==
  /\ held \subseteq allocated
  /\ runtime = "up" => held \cap Proxies \subseteq roots
  /\ \A s \in Substitutes \cap allocated : s \notin garbage =>
       /\ inner[s] \in Proxies \cap allocated
       /\ inner[s] \notin garbage
       /\ runtime = "up" => inner[s] \in roots
  /\ \A s \in Substitutes : s \notin allocated => inner[s] = None

\* A proxy in the root table exists and stands for a live value.
RootInv ==
  /\ bound \subseteq allocated
  /\ roots \subseteq bound
  /\ \A p \in roots : key[p] \in jsLive
  /\ \A p \in bound : key[p] \in Values /\ self[p] \in {p} \cup Substitutes
  /\ jsHeld \subseteq jsLive

IInv == TypeOK /\ LifeInv /\ FrameInv /\ GarbageInv /\ HeldInv /\ RootInv /\ IndexIsExact

-----------------------------------------------------------------------------
(* Types of what Enter and Leave assign. *)

FrameTypes ==
  /\ pc \in [Calls -> {"idle", "context", "wrap", "convert"}]
  /\ value \in [Calls -> Values \cup {None}]
  /\ local \in [Calls -> Objects \cup {None}]
  /\ parent \in [Calls -> Calls \cup {None}]
  /\ current \in [Threads -> Calls \cup {None}]

\* Leaving clears a frame and gives the thread back to its parent.
LEMMA LeaveTypes ==
  ASSUME TypeOK, NEW c \in Calls, Leave(c)
  PROVE  FrameTypes'
<1>1. parent[c] \in Calls \cup {None} /\ ThreadOf[c] \in Threads
  BY ThreadOfAssumption DEF TypeOK
<1>. QED  BY <1>1 DEF TypeOK, FrameTypes, Leave

\* Entering assigns all but the program counter and the result.
LEMMA EnterTypes ==
  ASSUME TypeOK, NEW c \in Calls, NEW v \in Values, Enter(c, v)
  PROVE  /\ value' \in [Calls -> Values \cup {None}]
         /\ parent' \in [Calls -> Calls \cup {None}]
         /\ current' \in [Threads -> Calls \cup {None}]
<1>1. ThreadOf[c] \in Threads /\ current[ThreadOf[c]] \in Calls \cup {None}
  BY ThreadOfAssumption DEF TypeOK
<1>. QED  BY <1>1 DEF TypeOK, Enter

-----------------------------------------------------------------------------
(* One lemma per action: each preserves the invariant. *)

\* A hit puts the self of an indexed proxy in the frame's hands.
LEMMA LookupHitStep ==
  ASSUME IInv, NEW c \in Calls, NEW v \in Values, LookupHit(c, v)
  PROVE  IInv'
<1>1. TypeOK'
  BY EnterTypes DEF IInv, LookupHit, TypeOK, FrameTypes, IndexIsExact,
     RootInv, Objects, rubyHeap, tables, jsHeap, life
<1>2. LifeInv'
  BY DEF IInv, LookupHit, LifeInv, Enter, Up, life
<1>3. FrameInv'
  BY NoneAssumption, DisjointAssumption DEF IInv, LookupHit, TypeOK, FrameInv,
     RootInv, IndexIsExact, Active, Enter, rubyHeap, tables, jsHeap
<1>4. GarbageInv'
  BY DEF IInv, LookupHit, GarbageInv, Enter, Up, Mutating, life
<1>5. HeldInv' /\ RootInv' /\ IndexIsExact'
  BY DEF IInv, LookupHit, HeldInv, RootInv, IndexIsExact, rubyHeap, tables,
     jsHeap, life
<1>. QED  BY <1>1, <1>2, <1>3, <1>4, <1>5 DEF IInv

\* A miss allocates an address nobody refers to.
LEMMA LookupMissStep ==
  ASSUME IInv, NEW c \in Calls, NEW v \in Values, LookupMiss(c, v)
  PROVE  IInv'
<1>1. TypeOK'
  BY EnterTypes DEF IInv, LookupMiss, TypeOK, FrameTypes, Objects, tables,
     jsHeap, life
<1>2. LifeInv'
  BY DEF IInv, LookupMiss, LifeInv, Enter, Up, life
<1>3. FrameInv'
  BY DEF IInv, LookupMiss, TypeOK, FrameInv, HeldInv, RootInv, Active,
     JSReachable, Enter, Objects, tables, jsHeap
<1>4. GarbageInv'
  BY DEF IInv, LookupMiss, GarbageInv, Enter, Up, Mutating, life
<1>5. HeldInv'
  BY DisjointAssumption DEF IInv, LookupMiss, HeldInv, tables, life
<1>6. RootInv'
  BY DEF IInv, LookupMiss, RootInv, tables, jsHeap
<1>7. IndexIsExact'
  BY DEF IInv, LookupMiss, IndexIsExact, tables, jsHeap
<1>. QED  BY <1>1, <1>2, <1>3, <1>4, <1>5, <1>6, <1>7 DEF IInv

\* Insert binds, roots and enters the frame's own proxy.
LEMMA InsertStep ==
  ASSUME IInv, NEW c \in Calls, Insert(c)
  PROVE  IInv'
<1>1. TypeOK'
  BY DEF IInv, Insert, TypeOK, FrameInv, Active, Bind, jsHeap, life
<1>2. LifeInv'
  BY DEF IInv, Insert, LifeInv, Running, Up, life
<1>3. FrameInv'
  BY DEF IInv, Insert, TypeOK, FrameInv, Active, Bind, jsHeap
<1>4. GarbageInv'
  BY DEF IInv, Insert, GarbageInv, Running, Up, Mutating, life
<1>5. HeldInv'
  BY DEF IInv, Insert, HeldInv, life
<1>6. RootInv'
  BY DEF IInv, Insert, TypeOK, FrameInv, RootInv, Active, Bind, jsHeap
<1>7. IndexIsExact'
  BY DEF IInv, Insert, TypeOK, FrameInv, IndexIsExact, Active, Bind, jsHeap
<1>. QED  BY <1>1, <1>2, <1>3, <1>4, <1>5, <1>6, <1>7 DEF IInv

\* Leaving before anything was done.
LEMMA RootValueFailsStep ==
  ASSUME IInv, NEW c \in Calls, RootValueFails(c)
  PROVE  IInv'
<1>1. TypeOK'
  BY LeaveTypes DEF IInv, RootValueFails, TypeOK, FrameTypes, rubyHeap,
     tables, jsHeap, life
<1>2. LifeInv'
  BY DEF IInv, RootValueFails, LifeInv, Running, Up, life
<1>3. FrameInv'
  BY DEF IInv, RootValueFails, TypeOK, FrameInv, Active, Leave, rubyHeap,
     tables, jsHeap
<1>4. GarbageInv'
  BY DEF IInv, RootValueFails, GarbageInv, Running, Up, Mutating, life
<1>5. HeldInv' /\ RootInv' /\ IndexIsExact'
  BY DEF IInv, RootValueFails, HeldInv, RootInv, IndexIsExact, rubyHeap,
     tables, jsHeap, life
<1>. QED  BY <1>1, <1>2, <1>3, <1>4, <1>5 DEF IInv

\* Leaving with a bound proxy that is neither rooted nor indexed.
LEMMA RootKeyFailsStep ==
  ASSUME IInv, NEW c \in Calls, RootKeyFails(c)
  PROVE  IInv'
<1>1. TypeOK'
  BY LeaveTypes DEF IInv, RootKeyFails, TypeOK, FrameTypes, FrameInv, Bind,
     Objects, tables, jsHeap, life
<1>2. LifeInv'
  BY DEF IInv, RootKeyFails, LifeInv, Running, Up, life
<1>3. FrameInv'
  BY DEF IInv, RootKeyFails, TypeOK, FrameInv, Active, Bind, Leave, tables,
     jsHeap
<1>4. GarbageInv'
  BY DEF IInv, RootKeyFails, GarbageInv, Running, Up, Mutating, life
<1>5. RootInv'
  BY DEF IInv, RootKeyFails, TypeOK, FrameInv, RootInv, Active, Bind, tables,
     jsHeap
<1>6. IndexIsExact'
  BY DEF IInv, RootKeyFails, FrameInv, IndexIsExact, Bind, tables, jsHeap
<1>7. HeldInv'
  BY DEF IInv, RootKeyFails, HeldInv, tables, life
<1>. QED  BY <1>1, <1>2, <1>3, <1>4, <1>5, <1>6, <1>7 DEF IInv

\* Leaving with a rooted proxy that is not indexed.
LEMMA AddFailsStep ==
  ASSUME IInv, NEW c \in Calls, AddFails(c)
  PROVE  IInv'
<1>1. TypeOK'
  BY LeaveTypes DEF IInv, AddFails, TypeOK, FrameTypes, FrameInv, Bind,
     Objects, jsHeap, life
<1>2. LifeInv'
  BY DEF IInv, AddFails, LifeInv, Running, Up, life
<1>3. FrameInv'
  BY DEF IInv, AddFails, TypeOK, FrameInv, Active, Bind, Leave, jsHeap
<1>4. GarbageInv'
  BY DEF IInv, AddFails, GarbageInv, Running, Up, Mutating, life
<1>5. HeldInv'
  BY DEF IInv, AddFails, HeldInv, life
<1>6. RootInv'
  BY DEF IInv, AddFails, TypeOK, FrameInv, RootInv, Active, Bind, jsHeap
<1>7. IndexIsExact'
  BY DEF IInv, AddFails, FrameInv, IndexIsExact, Bind, jsHeap
<1>. QED  BY <1>1, <1>2, <1>3, <1>4, <1>5, <1>6, <1>7 DEF IInv

\* The proxy goes on as it is.
LEMMA WrapExtendsStep ==
  ASSUME IInv, NEW c \in Calls, WrapExtends(c)
  PROVE  IInv'
<1>1. TypeOK'
  BY DEF IInv, WrapExtends, TypeOK, rubyHeap, tables, jsHeap, life
<1>2. LifeInv'
  BY DEF IInv, WrapExtends, LifeInv, Running, Up, life
<1>3. FrameInv'
  BY DEF IInv, WrapExtends, FrameInv, Active, rubyHeap, tables, jsHeap
<1>4. GarbageInv'
  BY DEF IInv, WrapExtends, GarbageInv, Running, Up, Mutating, life
<1>5. HeldInv' /\ RootInv' /\ IndexIsExact'
  BY DEF IInv, WrapExtends, HeldInv, RootInv, IndexIsExact, rubyHeap, tables,
     jsHeap, life
<1>. QED  BY <1>1, <1>2, <1>3, <1>4, <1>5 DEF IInv

\* The substitute refers to the frame's proxy, which is rooted.
LEMMA WrapReplacesStep ==
  ASSUME IInv, NEW c \in Calls, WrapReplaces(c)
  PROVE  IInv'
<1>1. TypeOK'
  BY DEF IInv, WrapReplaces, TypeOK, FrameInv, Objects, tables, jsHeap, life
<1>2. LifeInv'
  BY DEF IInv, WrapReplaces, LifeInv, Running, Up, life
<1>3. FrameInv'
  BY DisjointAssumption DEF IInv, WrapReplaces, TypeOK, FrameInv, Active,
     Objects, tables, jsHeap
<1>4. GarbageInv'
  BY DEF IInv, WrapReplaces, GarbageInv, Running, Up, Mutating, life
<1>5. HeldInv'
  BY DEF IInv, WrapReplaces, TypeOK, FrameInv, HeldInv, RootInv, Running, Up,
     Mutating, tables, life
<1>6. RootInv'
  BY DEF IInv, WrapReplaces, RootInv, tables, jsHeap
<1>7. IndexIsExact'
  BY DEF IInv, WrapReplaces, IndexIsExact, tables, jsHeap
<1>. QED  BY <1>1, <1>2, <1>3, <1>4, <1>5, <1>6, <1>7 DEF IInv

\* The frame lets go of its proxy, which stays in the table.
LEMMA WrapRaisesStep ==
  ASSUME IInv, NEW c \in Calls, WrapRaises(c)
  PROVE  IInv'
<1>1. TypeOK'
  BY LeaveTypes DEF IInv, WrapRaises, TypeOK, FrameTypes, rubyHeap, tables,
     jsHeap, life
<1>2. LifeInv'
  BY DEF IInv, WrapRaises, LifeInv, Running, Up, life
<1>3. FrameInv'
  BY DEF IInv, WrapRaises, TypeOK, FrameInv, Active, Leave, rubyHeap, tables,
     jsHeap
<1>4. GarbageInv'
  BY DEF IInv, WrapRaises, GarbageInv, Running, Up, Mutating, life
<1>5. HeldInv' /\ RootInv' /\ IndexIsExact'
  BY DEF IInv, WrapRaises, HeldInv, RootInv, IndexIsExact, rubyHeap, tables,
     jsHeap, life
<1>. QED  BY <1>1, <1>2, <1>3, <1>4, <1>5 DEF IInv

\* The caller may keep the frame's object.
LEMMA ReturnStep ==
  ASSUME IInv, NEW c \in Calls, Return(c)
  PROVE  IInv'
<1>1. TypeOK'
  BY LeaveTypes DEF IInv, Return, TypeOK, FrameTypes, tables, jsHeap, life
<1>2. LifeInv'
  BY DEF IInv, Return, LifeInv, Running, Up, life
<1>3. FrameInv'
  BY DEF IInv, Return, TypeOK, FrameInv, Active, Leave, tables, jsHeap
<1>4. GarbageInv'
  BY DEF IInv, Return, GarbageInv, Running, Up, Mutating, life
<1>5. HeldInv'
  BY DEF IInv, Return, FrameInv, HeldInv, tables, life
<1>6. RootInv' /\ IndexIsExact'
  BY DEF IInv, Return, RootInv, IndexIsExact, tables, jsHeap
<1>. QED  BY <1>1, <1>2, <1>3, <1>4, <1>5, <1>6 DEF IInv

\* Ruby code may keep it earlier.
LEMMA StashStep ==
  ASSUME IInv, NEW c \in Calls, Stash(c)
  PROVE  IInv'
<1>1. TypeOK'
  BY DEF IInv, Stash, TypeOK, tables, jsHeap, frames, life
<1>2. FrameInv'
  BY DEF IInv, Stash, FrameInv, Active, tables, jsHeap, frames
<1>3. GarbageInv'
  BY DEF IInv, Stash, GarbageInv, Up, Mutating, life
<1>4. HeldInv'
  BY DEF IInv, Stash, FrameInv, HeldInv, tables, life
<1>5. LifeInv' /\ RootInv' /\ IndexIsExact'
  BY DEF IInv, Stash, LifeInv, RootInv, IndexIsExact, Up, tables, jsHeap, life
<1>. QED  BY <1>1, <1>2, <1>3, <1>4, <1>5 DEF IInv

\* A held proxy is rooted, so its value is live.
LEMMA UnwrapStep ==
  ASSUME IInv, NEW p \in Proxies, Unwrap(p)
  PROVE  IInv'
<1>1. TypeOK'
  BY DEF IInv, Unwrap, TypeOK, HeldInv, RootInv, Up, rubyHeap, tables, frames,
     life
<1>2. RootInv'
  BY DEF IInv, Unwrap, HeldInv, RootInv, Up, rubyHeap, tables
<1>3. LifeInv' /\ FrameInv' /\ GarbageInv' /\ HeldInv' /\ IndexIsExact'
  BY DEF IInv, Unwrap, LifeInv, FrameInv, GarbageInv, HeldInv, IndexIsExact,
     Active, Referenced, Reachable, rubyHeap, tables, frames, life
<1>. QED  BY <1>1, <1>2, <1>3 DEF IInv

\* Only a runtime that is up is used again.
LEMMA UseProxyStep ==
  ASSUME IInv, NEW p \in Proxies, UseProxy(p)
  PROVE  IInv'
<1>1. TypeOK'
  BY DEF IInv, UseProxy, TypeOK, rubyHeap, tables, jsHeap, frames
<1>2. LifeInv'
  BY DEF IInv, UseProxy, LifeInv, Mutating
<1>3. FrameInv' /\ GarbageInv' /\ HeldInv' /\ RootInv' /\ IndexIsExact'
  BY DEF IInv, UseProxy, FrameInv, GarbageInv, HeldInv, RootInv, IndexIsExact,
     Active, Referenced, Reachable, rubyHeap, tables, jsHeap, frames
<1>. QED  BY <1>1, <1>2, <1>3 DEF IInv

\* The proxy inside a held substitute is rooted.
LEMMA ReadInnerStep ==
  ASSUME IInv, NEW s \in Substitutes, ReadInner(s)
  PROVE  IInv'
<1>1. TypeOK'
  BY DEF IInv, ReadInner, TypeOK, HeldInv, Mutating, tables, jsHeap, frames,
     life
<1>2. FrameInv'
  BY DEF IInv, ReadInner, TypeOK, LifeInv, FrameInv, GarbageInv, HeldInv,
     RootInv, Active, Referenced, Reachable, tables, jsHeap, frames
<1>3. GarbageInv'
  BY DEF IInv, ReadInner, GarbageInv, Mutating, life
<1>4. HeldInv'
  BY DEF IInv, ReadInner, HeldInv, Mutating, tables, life
<1>5. LifeInv' /\ RootInv' /\ IndexIsExact'
  BY DEF IInv, ReadInner, LifeInv, RootInv, IndexIsExact, Active, tables,
     jsHeap, frames, life
<1>. QED  BY <1>1, <1>2, <1>3, <1>4, <1>5 DEF IInv

\* Letting go only shrinks what is reachable.
LEMMA DropStep ==
  ASSUME IInv, NEW o \in Objects, Drop(o)
  PROVE  IInv'
<1>1. TypeOK'
  BY DEF IInv, Drop, TypeOK, tables, jsHeap, frames, life
<1>2. FrameInv'
  BY DEF IInv, Drop, FrameInv, Active, tables, jsHeap, frames
<1>3. GarbageInv'
  BY DEF IInv, Drop, GarbageInv, Mutating, life
<1>4. HeldInv'
  BY DEF IInv, Drop, HeldInv, tables, life
<1>5. LifeInv' /\ RootInv' /\ IndexIsExact'
  BY DEF IInv, Drop, LifeInv, RootInv, IndexIsExact, Active, tables, jsHeap,
     frames, life
<1>. QED  BY <1>1, <1>2, <1>3, <1>4, <1>5 DEF IInv

\* No frame is active when the last user leaves.
LEMMA DropRuntimeStep ==
  ASSUME IInv, DropRuntime
  PROVE  IInv'
<1>1. TypeOK'
  <2>1. rtHeld' \in BOOLEAN
    BY DEF DropRuntime
  <2>. QED
    BY <2>1 DEF IInv, DropRuntime, TypeOK, rubyHeap, tables, jsHeap, frames
<1>2. LifeInv'
  BY DEF IInv, DropRuntime, LifeInv, Active, frames
<1>3. FrameInv' /\ GarbageInv' /\ HeldInv' /\ RootInv' /\ IndexIsExact'
  BY DEF IInv, DropRuntime, FrameInv, GarbageInv, HeldInv, RootInv,
     IndexIsExact, Active, Referenced, Reachable, rubyHeap, tables, jsHeap,
     frames
<1>. QED  BY <1>1, <1>2, <1>3 DEF IInv

\* A new value is live and has no entry.
LEMMA JSNewStep ==
  ASSUME IInv, NEW v \in Values, JSNew(v)
  PROVE  IInv'
<1>1. TypeOK'
  BY DEF IInv, JSNew, TypeOK, rubyHeap, tables, frames, life
<1>2. FrameInv'
  BY DEF IInv, JSNew, FrameInv, Active, rubyHeap, tables, frames
<1>3. RootInv'
  BY DEF IInv, JSNew, RootInv, rubyHeap, tables
<1>4. IndexIsExact'
  BY DEF IInv, JSNew, IndexIsExact, rubyHeap, tables
<1>5. LifeInv' /\ GarbageInv' /\ HeldInv'
  BY DEF IInv, JSNew, LifeInv, GarbageInv, HeldInv, Up, Mutating, rubyHeap,
     tables, life
<1>. QED  BY <1>1, <1>2, <1>3, <1>4, <1>5 DEF IInv

\* Letting go of a value.
LEMMA JSDropStep ==
  ASSUME IInv, NEW v \in Values, JSDrop(v)
  PROVE  IInv'
<1>1. TypeOK'
  BY DEF IInv, JSDrop, TypeOK, rubyHeap, tables, frames, life
<1>2. RootInv'
  BY DEF IInv, JSDrop, RootInv, rubyHeap, tables
<1>3. LifeInv' /\ FrameInv' /\ GarbageInv' /\ HeldInv' /\ IndexIsExact'
  BY DEF IInv, JSDrop, LifeInv, FrameInv, GarbageInv, HeldInv, IndexIsExact,
     Active, Referenced, Reachable, rubyHeap, tables, frames, life
<1>. QED  BY <1>1, <1>2, <1>3 DEF IInv

\* Rooted values and the values of frames survive.
LEMMA JSCollectStep ==
  ASSUME IInv, JSCollect
  PROVE  IInv'
<1>1. TypeOK'
  BY DEF IInv, JSCollect, TypeOK, rubyHeap, tables, frames, life
<1>2. FrameInv'
  BY DEF IInv, JSCollect, FrameInv, Active, JSReachable, rubyHeap, tables,
     frames
<1>3. RootInv'
  BY DEF IInv, JSCollect, RootInv, JSReachable, rubyHeap, tables
<1>4. IndexIsExact'
  BY DEF IInv, JSCollect, IndexIsExact, JSReachable, rubyHeap, tables
<1>5. LifeInv' /\ GarbageInv' /\ HeldInv'
  BY DEF IInv, JSCollect, LifeInv, GarbageInv, HeldInv, Up, Mutating,
     rubyHeap, tables, life
<1>. QED  BY <1>1, <1>2, <1>3, <1>4, <1>5 DEF IInv

\* What is marked garbage is out of reach; the runtime only if unused.
LEMMA MarkStep ==
  ASSUME IInv, Mark
  PROVE  IInv'
<1>1. TypeOK'
  BY DEF IInv, Mark, TypeOK, rubyHeap, tables, jsHeap, frames
<1>2. LifeInv'
  BY DEF IInv, Mark, TypeOK, LifeInv, Active, frames
<1>3. GarbageInv'
  BY DEF IInv, Mark, GarbageInv, Active, Referenced, Reachable, rubyHeap,
     frames
<1>4. HeldInv'
  BY NoneAssumption, DisjointAssumption DEF IInv, Mark, HeldInv, Reachable,
     Mutating, rubyHeap, tables
<1>5. FrameInv' /\ RootInv' /\ IndexIsExact'
  BY DEF IInv, Mark, FrameInv, RootInv, IndexIsExact, Active, rubyHeap,
     tables, jsHeap, frames
<1>. QED  BY <1>1, <1>2, <1>3, <1>4, <1>5 DEF IInv

\* The swept proxy leaves the table and the roots with its address.
LEMMA SweepProxyStep ==
  ASSUME IInv, NEW p \in Proxies, SweepProxy(p)
  PROVE  IInv'
<1>1. TypeOK'
  BY DEF IInv, SweepProxy, TypeOK, finalize, tables, jsHeap, frames
<1>2. FrameInv'
  BY DEF IInv, SweepProxy, FrameInv, GarbageInv, Active, Referenced,
     Reachable, finalize, tables, jsHeap, frames
<1>3. GarbageInv'
  BY DEF IInv, SweepProxy, GarbageInv, Active, Referenced, Reachable,
     finalize, frames
<1>4. HeldInv'
  BY DisjointAssumption DEF IInv, SweepProxy, GarbageInv, HeldInv, Referenced,
     Reachable, finalize, tables
<1>5. RootInv'
  BY DEF IInv, SweepProxy, RootInv, finalize, tables, jsHeap
<1>6. IndexIsExact'
  BY DEF IInv, SweepProxy, TypeOK, IndexIsExact, finalize, tables, jsHeap
<1>7. LifeInv'
  BY DEF IInv, SweepProxy, LifeInv, Active, finalize, frames
<1>. QED  BY <1>1, <1>2, <1>3, <1>4, <1>5, <1>6, <1>7 DEF IInv

\* The swept substitute was out of reach.
LEMMA SweepSubstituteStep ==
  ASSUME IInv, NEW s \in Substitutes, SweepSubstitute(s)
  PROVE  IInv'
<1>1. TypeOK'
  BY DEF IInv, SweepSubstitute, TypeOK, tables, jsHeap, frames
<1>2. FrameInv'
  BY DisjointAssumption DEF IInv, SweepSubstitute, FrameInv, Active, tables,
     jsHeap, frames
<1>3. GarbageInv'
  BY DEF IInv, SweepSubstitute, GarbageInv, Active, Referenced, Reachable,
     frames
<1>4. HeldInv'
  BY DEF IInv, SweepSubstitute, TypeOK, GarbageInv, HeldInv, Referenced,
     Reachable, tables
<1>5. RootInv'
  BY DisjointAssumption DEF IInv, SweepSubstitute, TypeOK, RootInv, tables,
     jsHeap
<1>6. IndexIsExact'
  BY DisjointAssumption DEF IInv, SweepSubstitute, TypeOK, IndexIsExact,
     tables, jsHeap
<1>7. LifeInv'
  BY DEF IInv, SweepSubstitute, LifeInv, Active, frames
<1>. QED  BY <1>1, <1>2, <1>3, <1>4, <1>5, <1>6, <1>7 DEF IInv

\* Nothing the program can reach is bound when the runtime goes.
LEMMA deallocateStep ==
  ASSUME IInv, deallocate
  PROVE  IInv'
<1>1. TypeOK'
  <2>1. rtGarbage' \in BOOLEAN
    BY DEF deallocate
  <2>. QED
    BY <2>1 DEF IInv, deallocate, TypeOK, proxy_cleanup, frames
<1>2. LifeInv'
  BY DEF IInv, deallocate, LifeInv, Active, proxy_cleanup, frames
<1>3. FrameInv'
  BY DEF IInv, deallocate, LifeInv, FrameInv, Active, proxy_cleanup, frames
<1>4. HeldInv'
  BY DEF IInv, deallocate, HeldInv, proxy_cleanup
<1>5. RootInv'
  BY DEF IInv, deallocate, RootInv, proxy_cleanup
<1>6. IndexIsExact'
  BY DEF IInv, deallocate, IndexIsExact, proxy_cleanup
<1>7. GarbageInv'
  BY DEF IInv, deallocate, GarbageInv, Active, Referenced, Reachable,
     proxy_cleanup, frames
<1>. QED  BY <1>1, <1>2, <1>3, <1>4, <1>5, <1>6, <1>7 DEF IInv
-----------------------------------------------------------------------------
(* The invariant, and what follows from it for any number of threads, any  *)
(* wrappers and any failure.                                               *)

LEMMA InitInv == Init => IInv
<1>. SUFFICES ASSUME Init PROVE IInv
  OBVIOUS
<1>1. TypeOK
  BY DEF Init, TypeOK
<1>2. LifeInv /\ FrameInv /\ GarbageInv /\ HeldInv /\ RootInv /\ IndexIsExact
  BY NoneAssumption DEF Init, LifeInv, FrameInv, GarbageInv, HeldInv, RootInv,
     IndexIsExact, Active, Referenced, Reachable
<1>. QED  BY <1>1, <1>2 DEF IInv

LEMMA StutterStep ==
  ASSUME IInv, UNCHANGED vars
  PROVE  IInv'
BY DEF IInv, TypeOK, LifeInv, FrameInv, GarbageInv, HeldInv, RootInv,
   IndexIsExact, Active, Referenced, Reachable, vars, rubyHeap, tables,
   jsHeap, frames, life

\* Every step preserves the invariant.
LEMMA NextStep ==
  ASSUME IInv, [Next]_vars
  PROVE  IInv'
<1>1. ASSUME NEW c \in Calls, make_ruby_land_proxy(c) PROVE IInv'
  BY <1>1, LookupHitStep, LookupMissStep, InsertStep, RootValueFailsStep,
     RootKeyFailsStep, AddFailsStep, WrapExtendsStep, WrapReplacesStep,
     WrapRaisesStep, ReturnStep, StashStep DEF make_ruby_land_proxy
<1>2. CASE Program
  BY <1>2, UnwrapStep, UseProxyStep, ReadInnerStep, DropStep, DropRuntimeStep,
     JSNewStep, JSDropStep DEF Program
<1>3. CASE Collectors
  BY <1>3, JSCollectStep, MarkStep, SweepProxyStep, SweepSubstituteStep,
     deallocateStep DEF Collectors
<1>4. CASE UNCHANGED vars
  BY <1>4, StutterStep
<1>. QED  BY <1>1, <1>2, <1>3, <1>4 DEF Next

\* The seven parts hold together in every reachable state.
THEOREM Invariant == Spec => []IInv
<1>1. Init => IInv
  BY InitInv
<1>2. IInv /\ [Next]_vars => IInv'
  BY NextStep
<1>. QED  BY <1>1, <1>2, PTL DEF Spec

\* Every variable keeps its type (the struct fields of ruby_land_proxy.h:28-32
\* and the tables of runtime.h:16-22).
THEOREM TypeCorrect == Spec => []TypeOK
<1>1. IInv => TypeOK
  BY DEF IInv
<1>. QED  BY <1>1, Invariant, PTL

\* An entry of jsids is as alive as the value and the proxy it relates, so a
\* hit at ruby_land_proxy.c:548-553 is never a proxy of an earlier object at
\* the same address.
THEOREM IndexStaysExact == Spec => []IndexIsExact
<1>1. IInv => IndexIsExact
  BY DEF IInv
<1>. QED  BY <1>1, Invariant, PTL

\* The root table never holds the address of a freed struct
\* (ruby_land_proxy.c:499-503, runtime.c:338).
THEOREM RootsStayAllocated == Spec => []RootsAreAllocated
<1>1. IInv => RootsAreAllocated
  BY DEF IInv, RootInv, RootsAreAllocated
<1>. QED  BY <1>1, Invariant, PTL

\* A proxy the program can use pins its value: every reachable proxy that has
\* a runtime is in the root table (ruby_land_proxy.c:572-573).
THEOREM ProxiesPinValues == Spec => []ProxyPinsValue
<1>1. ASSUME IInv PROVE ProxyPinsValue
  <2>. SUFFICES ASSUME runtime = "up", NEW p \in Reachable \cap bound
                PROVE  key[p] \in jsLive
    BY DEF ProxyPinsValue
  <2>1. p \in Proxies
    BY <1>1 DEF IInv, TypeOK
  <2>2. CASE p \in held
    BY <1>1, <2>1, <2>2 DEF IInv, HeldInv, RootInv
  <2>3. CASE \E c \in Active : p = local[c]
    <3>. PICK c \in Active : p = local[c]
      BY <2>3
    <3>1. pc[c] \in {"wrap", "convert"}
      BY <1>1 DEF IInv, TypeOK, FrameInv, Active
    <3>. QED  BY <1>1, <2>1, <3>1 DEF IInv, FrameInv, RootInv, Active
  <2>4. CASE \E s \in Referenced \cap Substitutes : p = inner[s]
    <3>. PICK s \in Referenced \cap Substitutes : p = inner[s]
      BY <2>4
    <3>1. s \in allocated
      BY <1>1, <2>1, NoneAssumption DEF IInv, HeldInv
    <3>2. s \notin garbage
      BY <1>1 DEF IInv, GarbageInv, Reachable
    <3>. QED  BY <1>1, <3>1, <3>2 DEF IInv, HeldInv, RootInv
  <2>. QED  BY <2>2, <2>3, <2>4 DEF Reachable, Referenced
<1>. QED  BY <1>1, Invariant, PTL

\* Where no wrapper replaces a proxy, what a frame works with exists: the hit of
\* ruby_land_proxy.c:553 never answers with a collected object.
THEOREM AnswersAreAllocated == Substitutes = {} => (Spec => []AnswerIsAllocated)
<1>. SUFFICES ASSUME Substitutes = {} PROVE Spec => []AnswerIsAllocated
  OBVIOUS
<1>1. IInv => AnswerIsAllocated
  BY DEF IInv, TypeOK, FrameInv, RootInv, AnswerIsAllocated, Active, Objects
<1>. QED  BY <1>1, Invariant, PTL

-----------------------------------------------------------------------------
(***************************************************************************)
(* Proofs about RubyLandProxies on one thread, with a memory that does not *)
(* run out: the table knows every proxy, because the frame that asks for   *)
(* the current context is the top one of the only thread.  It follows that *)
(* the proxies are the identity map that ProxyIdentity specifies.          *)
(***************************************************************************)
Lone == (\A t, u \in Threads : t = u) /\ ~OutOfMemory

LoneInv ==
  /\ \A p \in bound : jsids[key[p]] = p
  /\ \A c \in Calls : pc[c] = "context" =>
       jsids[value[c]] = None /\ current[ThreadOf[c]] = c
  /\ runtime = "freed" => bound = {}

\* A thread that can enter has no frame that asks for its context.
LEMMA NobodyAsks ==
  ASSUME Lone, TypeOK, LoneInv, NEW c \in Calls,
         \/ MayEnter(ThreadOf[c])
         \/ current[ThreadOf[c]] = c /\ pc[c] # "context"
  PROVE  \A d \in Calls : pc[d] # "context"
BY NoneAssumption, ThreadOfAssumption DEF Lone, TypeOK, LoneInv, MayEnter

LEMMA LoneFrameStep ==
  ASSUME Lone, IInv, LoneInv, NEW c \in Calls, make_ruby_land_proxy(c)
  PROVE  LoneInv'
<1>. USE DEF IInv
<1>1. ASSUME NEW v \in Values, LookupHit(c, v) PROVE LoneInv'
  BY <1>1, NobodyAsks DEF LookupHit, Enter, LoneInv, TypeOK, rubyHeap, tables, life
<1>2. ASSUME NEW v \in Values, LookupMiss(c, v) PROVE LoneInv'
  BY <1>2, NobodyAsks, ThreadOfAssumption
     DEF LookupMiss, Enter, LoneInv, TypeOK, tables, life
<1>3. CASE Insert(c)
  <2>1. \A d \in Calls : pc[d] = "context" => d = c
    BY <1>3, ThreadOfAssumption DEF Insert, Running, LoneInv, Lone
  <2>2. local[c] \notin bound
    BY <1>3 DEF Insert, FrameInv
  <2>3. value[c] \in Values
    BY <1>3 DEF Insert, FrameInv, Active, TypeOK
  <2>. QED  BY <1>3, <2>1, <2>2, <2>3, NoneAssumption
            DEF Insert, Bind, Running, Up, LoneInv, TypeOK, FrameInv, RootInv, life
<1>4. CASE RootValueFails(c) \/ RootKeyFails(c) \/ AddFails(c)
  BY <1>4 DEF RootValueFails, RootKeyFails, AddFails, Lone
<1>5. CASE WrapExtends(c)
  BY <1>5 DEF WrapExtends, LoneInv, TypeOK, rubyHeap, tables, life
<1>6. CASE WrapReplaces(c)
  BY <1>6 DEF WrapReplaces, LoneInv, TypeOK, tables, life
<1>7. CASE WrapRaises(c)
  BY <1>7, NobodyAsks
     DEF WrapRaises, Running, Leave, LoneInv, TypeOK, rubyHeap, tables, life
<1>8. CASE Return(c)
  BY <1>8, NobodyAsks DEF Return, Running, Leave, LoneInv, TypeOK, tables, life
<1>9. CASE Stash(c)
  BY <1>9 DEF Stash, LoneInv, tables, frames, life
<1>. QED  BY <1>1, <1>2, <1>3, <1>4, <1>5, <1>6, <1>7, <1>8, <1>9
          DEF make_ruby_land_proxy

LEMMA LoneCollectorStep ==
  ASSUME IInv, LoneInv, Collectors
  PROVE  LoneInv'
<1>. USE DEF IInv
<1>1. CASE JSCollect \/ Mark
  BY <1>1 DEF JSCollect, Mark, LoneInv, rubyHeap, tables, frames, life
<1>2. ASSUME NEW p \in Proxies, SweepProxy(p) PROVE LoneInv'
  BY <1>2 DEF SweepProxy, finalize, LoneInv, TypeOK, RootInv, FrameInv, Active, tables, frames
<1>3. ASSUME NEW s \in Substitutes, SweepSubstitute(s) PROVE LoneInv'
  BY <1>3 DEF SweepSubstitute, LoneInv, tables, frames
<1>4. CASE deallocate
  <2>1. bound \subseteq proxy_cleanup
    BY DEF LoneInv, RootInv, proxy_cleanup, TypeOK
  <2>2. \A c \in Calls : pc[c] # "context"
    BY <1>4 DEF deallocate, LifeInv, Active
  <2>. QED  BY <1>4, <2>1, <2>2 DEF deallocate, LoneInv, frames
<1>. QED  BY <1>1, <1>2, <1>3, <1>4 DEF Collectors

LEMMA LoneStep ==
  ASSUME Lone, IInv, LoneInv, [Next]_vars
  PROVE  LoneInv'
<1>1. CASE Program
  BY <1>1 DEF Program, Unwrap, UseProxy, ReadInner, Drop, DropRuntime, JSNew,
     JSDrop, LoneInv, rubyHeap, tables, frames, life
<1>2. CASE UNCHANGED vars
  BY <1>2 DEF vars, LoneInv, rubyHeap, tables, frames, life
<1>. QED  BY <1>1, <1>2, LoneFrameStep, LoneCollectorStep DEF Next

\* On one thread, the table's answer for the value of any bound proxy is that
\* proxy.
THEOREM LoneInvariant == Lone => (Spec => []LoneInv)
<1>. SUFFICES ASSUME Lone PROVE Spec => []LoneInv
  OBVIOUS
<1>1. Init => LoneInv
  BY DEF Init, LoneInv
<1>2. IInv /\ LoneInv /\ [Next]_vars => LoneInv'
  BY LoneStep
<1>. QED  BY <1>1, <1>2, Invariant, PTL DEF Spec

\* On one thread no value ever has two proxies (ruby_land_proxy.c:548-580).
THEOREM OneThreadOneProxy == Lone => (Spec => []OneProxyPerValue)
<1>. SUFFICES ASSUME Lone PROVE Spec => []OneProxyPerValue
  OBVIOUS
<1>1. LoneInv => OneProxyPerValue
  BY DEF LoneInv, OneProxyPerValue
<1>. QED  BY <1>1, LoneInvariant, PTL

\* On one thread deallocate reaches every proxy: a finalize that Ruby runs
\* later does not touch the freed runtime (ruby_land_proxy.c:490,
\* runtime.c:333-341).
THEOREM OneThreadTeardown == Lone => (Spec => []FreedRuntimeIsForgotten)
<1>. SUFFICES ASSUME Lone PROVE Spec => []FreedRuntimeIsForgotten
  OBVIOUS
<1>1. LoneInv => FreedRuntimeIsForgotten
  BY DEF LoneInv, FreedRuntimeIsForgotten
<1>. QED  BY <1>1, LoneInvariant, PTL

-----------------------------------------------------------------------------
(* The refinement. *)

\* A runtime that is about to be freed has no proxy in use.
TeardownInv == rtGarbage => Reachable \cap bound = {}

LEMMA TeardownStep ==
  ASSUME TeardownInv, IInv, [Next]_vars
  PROVE  TeardownInv'
<1>1. CASE rtGarbage
  <2>. USE <1>1 DEF TeardownInv, Up, Running, Mutating
  <2>1. ~ \E c \in Calls : make_ruby_land_proxy(c)
    BY DEF make_ruby_land_proxy, LookupHit, LookupMiss, Enter, Insert,
       RootValueFails, RootKeyFails, AddFails, WrapExtends, WrapReplaces,
       WrapRaises, Return, Stash
  <2>2. ~ Program
    BY DEF Program, Unwrap, UseProxy, ReadInner, Drop, DropRuntime, JSNew, JSDrop
  <2>3. ~ JSCollect /\ ~ Mark
    BY DEF JSCollect, Mark
  <2>4. ASSUME NEW p \in Proxies, SweepProxy(p) PROVE TeardownInv'
    BY <2>4 DEF SweepProxy, Reachable, Referenced, Active, frames
  <2>5. ASSUME NEW s \in Substitutes, SweepSubstitute(s) PROVE TeardownInv'
    BY <2>5 DEF SweepSubstitute, IInv, TypeOK, GarbageInv, Reachable, Referenced,
       Active, frames
  <2>6. CASE deallocate
    BY <2>6 DEF deallocate
  <2>7. CASE UNCHANGED vars
    BY <2>7 DEF vars, rubyHeap, frames, life, Reachable, Referenced, Active
  <2>. QED  BY <2>1, <2>2, <2>3, <2>4, <2>5, <2>6, <2>7 DEF Next, Collectors
<1>2. CASE ~rtGarbage
  <2>1. CASE Mark
    <3>1. rtGarbage' => Reachable \cap bound = {}
      BY <2>1 DEF Mark
    <3>2. (Reachable \cap bound)' = Reachable \cap bound
      BY <2>1 DEF Mark, Reachable, Referenced, Active, rubyHeap, frames
    <3>. QED  BY <3>1, <3>2 DEF TeardownInv
  <2>2. CASE ~Mark
    <3>1. rtGarbage' = rtGarbage
      BY <1>2, <2>2 DEF Next, make_ruby_land_proxy, Program, Collectors, LookupHit,
         LookupMiss, Insert, RootValueFails, RootKeyFails, AddFails, WrapExtends,
         WrapReplaces, WrapRaises, Return, Stash, Unwrap, UseProxy, ReadInner,
         Drop, DropRuntime, JSNew, JSDrop, JSCollect, SweepProxy,
         SweepSubstitute, deallocate, vars, life
    <3>. QED  BY <1>2, <3>1 DEF TeardownInv
  <2>. QED  BY <2>1, <2>2
<1>. QED  BY <1>1, <1>2

\* With every bound proxy in the table, a step that leaves the table alone can
\* only change which proxies are in use.
LEMMA UseStep ==
  ASSUME IInv', LoneInv', UNCHANGED jsids
  PROVE  Identity!Use
<1>1. \A p \in bound' : p \in {jsids[v] : v \in Values} \ {None}
  BY NoneAssumption DEF IInv, TypeOK, RootInv, LoneInv
<1>. QED  BY <1>1 DEF Identity!Use, Identity!Made

\* Insert wraps the value of the frame.
LEMMA InsertWraps ==
  ASSUME IInv, LoneInv, NEW c \in Calls, Insert(c)
  PROVE  Identity!Wrap(value[c], local[c])
<1>1. c \in Active /\ jsids[value[c]] = None /\ local[c] \notin bound
  BY DEF IInv, LoneInv, FrameInv, Insert, Active
<1>2. local[c] \notin Identity!Made
  BY <1>1 DEF IInv, IndexIsExact, Identity!Made
<1>3. (Reachable \cap bound)' = (Reachable \cap bound) \cup {local[c]}
  <2>1. Active' = Active
    BY DEF Insert, Active, IInv, TypeOK
  <2>2. Reachable' = Reachable /\ local[c] \in Reachable
    BY <1>1, <2>1 DEF Insert, Reachable, Referenced
  <2>. QED  BY <2>2 DEF Insert, Bind
<1>. QED  BY <1>1, <1>2, <1>3 DEF Insert, Identity!Wrap

\* finalize forgets the value of the swept proxy.
LEMMA SweepForgets ==
  ASSUME IInv, LoneInv, NEW p \in Proxies, SweepProxy(p), p \in bound
  PROVE  Identity!Forget({key[p]})
<1>1. p \notin Reachable /\ key[p] \in Values /\ jsids[key[p]] = p
  BY DEF IInv, GarbageInv, RootInv, LoneInv, SweepProxy
<1>2. jsids' = [v \in Values |-> IF v \in {key[p]} THEN None ELSE jsids[v]]
  BY <1>1 DEF SweepProxy, finalize, IInv, TypeOK
<1>3. UNCHANGED (Reachable \cap bound)
  BY <1>1 DEF SweepProxy, Reachable, Referenced, Active, frames
<1>. QED  BY <1>1, <1>2, <1>3 DEF Identity!Forget

\* deallocate forgets every value.
LEMMA DeallocateForgets ==
  ASSUME IInv, LoneInv, LoneInv', TeardownInv, deallocate
  PROVE  Identity!Forget(Values)
<1>1. Reachable \cap bound = {} /\ bound' = {}
  BY DEF TeardownInv, deallocate, LoneInv
<1>2. \A v \in Values : jsids[v] \notin Reachable \cap bound
  BY <1>1
<1>3. jsids' = [v \in Values |-> IF v \in Values THEN None ELSE jsids[v]]
  BY DEF deallocate
<1>. QED  BY <1>1, <1>2, <1>3 DEF Identity!Forget

\* Every step of the bridge is a step of the identity map, or none.
LEMMA IdentityStep ==
  ASSUME Lone, IInv, LoneInv, TeardownInv, [Next]_vars
  PROVE  [Identity!Next]_(Identity!vars)
<1>1. IInv' /\ LoneInv'
  BY NextStep, LoneStep
<1>2. CASE UNCHANGED jsids
  BY <1>1, <1>2, UseStep DEF Identity!Next
<1>3. ASSUME NEW c \in Calls, Insert(c) PROVE Identity!Next
  <2>1. value[c] \in Values /\ local[c] \in Proxies
    BY <1>3 DEF IInv, TypeOK, FrameInv, Insert, Active
  <2>. QED  BY <1>3, <2>1, InsertWraps DEF Identity!Next
<1>4. ASSUME NEW p \in Proxies, SweepProxy(p), p \in bound PROVE Identity!Next
  <2>1. {key[p]} \in SUBSET Values
    BY <1>4 DEF IInv, RootInv
  <2>. QED  BY <1>4, <2>1, SweepForgets DEF Identity!Next
<1>5. CASE deallocate
  <2>1. Identity!Forget(Values) /\ Values \in SUBSET Values
    BY <1>1, <1>5, DeallocateForgets
  <2>. QED  BY <2>1 DEF Identity!Next
<1>6. \/ UNCHANGED jsids
      \/ \E c \in Calls : Insert(c)
      \/ \E p \in Proxies : SweepProxy(p) /\ p \in bound
      \/ deallocate
  BY DEF Next, make_ruby_land_proxy, Program, Collectors, LookupHit, LookupMiss,
     RootValueFails, RootKeyFails, AddFails, WrapExtends, WrapReplaces,
     WrapRaises, Return, Stash, Unwrap, UseProxy, ReadInner, Drop, DropRuntime,
     JSNew, JSDrop, JSCollect, Mark, SweepProxy, finalize, SweepSubstitute,
     vars, tables
<1>. QED  BY <1>2, <1>3, <1>4, <1>5, <1>6

\* On one thread the proxies are an identity map: while the program can reach
\* the proxy of a value, the value has that proxy and no other
\* (ruby_land_proxy.c:546-584).
THEOREM OneThreadRefines == Lone => (Spec => ImplementsIdentity)
<1>. SUFFICES ASSUME Lone PROVE Spec => Identity!Spec
  BY DEF ImplementsIdentity
<1>1. Init => Identity!Init /\ TeardownInv
  BY DEF Init, Identity!Init, TeardownInv
<1>2. TeardownInv /\ IInv /\ [Next]_vars => TeardownInv'
  BY TeardownStep
<1>3. IInv /\ LoneInv /\ TeardownInv /\ [Next]_vars => [Identity!Next]_(Identity!vars)
  BY IdentityStep
<1>. QED  BY <1>1, <1>2, <1>3, Invariant, LoneInvariant, PTL DEF Spec, Identity!Spec
=============================================================================
