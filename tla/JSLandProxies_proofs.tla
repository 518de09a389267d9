------------------------- MODULE JSLandProxies_proofs -------------------------
(***************************************************************************)
(* What holds of Ruby objects seen from JavaScript for any number of       *)
(* threads, frames, objects and cells, and any failures; then what one     *)
(* thread adds when nothing fails half way, up to the identity map.        *)
(***************************************************************************)
EXTENDS JSLandProxies, TLAPS

(* What holds in every state, whatever the threads, dates and failures: a  *)
(* private slot and a reference to a proxy belong to live cells, what is   *)
(* pinned or being converted is alive, and a frame that asks for the       *)
(* current context is on top of the stack of a thread with a context map.  *)
OnlyLiveCellsArePrivate == \A o \in Cells : private[o] # None => o \in live
OnlyLiveCellsAreDates == \A o \in Cells : wrappedRuby[o] # None => o \in live
ActiveFramesConvert == \A c \in Active : value[c] # None
ConvertedAreLive == \A c \in Active : value[c] \in rubyLive
PinnedAreLive == gcthings \subseteq rubyLive
AskingIsOnTop ==
    \A c \in Calls : pc[c] = "context" =>
        current[ThreadOf[c]] = c /\ ThreadOf[c] \in context

BasicInv ==
    /\ TypeOK
    /\ OnlyLiveCellsArePrivate /\ OnlyLiveCellsAreDates /\ PinnedByAProxy
    /\ ActiveFramesConvert /\ ConvertedAreLive /\ PinnedAreLive /\ AskingIsOnTop

(* No Date stands in front of a proxy, and no other thread runs between    *)
(* the permission to collect and the collection.                           *)
Alone == \A t, u \in Threads : t = u
Undisturbed == Dates = {} /\ (~Preemptible \/ Alone)

NoDateInFront == \A o \in Cells : wrappedRuby[o] = None
NobodyAsksMeanwhile ==
    /\ ~Preemptible => asked = {}
    /\ asked # {} => \A c \in Calls : pc[c] # "context"

EntriesFit == \A r \in Objects : rbids[r] # None => rbids[r] \in live /\ private[rbids[r]] = r
BasesFit ==
    \A c \in Calls : base[c] # None =>
        /\ pc[c] \in {"context", "wrap", "convert"}
        /\ base[c] \in live /\ private[base[c]] = value[c]

SafeInv == BasicInv /\ NoDateInFront /\ NobodyAsksMeanwhile /\ EntriesFit /\ BasesFit

(* What the script, a frame or the table refers to is a pinned proxy. *)
Named == jsHeld \cup {base[c] : c \in Calls} \cup {rbids[r] : r \in Objects}
NamedArePinned == \A o \in Named \cap live : private[o] \in gcthings
HeldCellsAreLive == jsHeld \subseteq live

TwinInv == SafeInv /\ NamedArePinned /\ HeldCellsAreLive
-----------------------------------------------------------------------------
(* Every step keeps what holds of the cells in any configuration. *)
LEMMA BasicStep ==
    ASSUME BasicInv, [Next]_vars
    PROVE  BasicInv'
<1> USE ThreadOfAssumption, NoneAssumption
<1>1. ASSUME NEW c \in Calls, NEW r \in Objects, Lookup(c, r)
      PROVE  BasicInv'
  <2> USE <1>1 DEF Lookup, MayEnter, RubyReferenced, jsHeap, tables, rubyHeap, frames,
         threads
  <2>1. OnlyLiveCellsArePrivate' /\ PinnedByAProxy'
    BY DEF BasicInv, OnlyLiveCellsArePrivate, PinnedByAProxy
  <2>2. TypeOK'
    BY DEF TypeOK, BasicInv
  <2>3. ActiveFramesConvert'
    BY DEF ActiveFramesConvert, Active, BasicInv, TypeOK
  <2>4. OnlyLiveCellsAreDates' /\ AskingIsOnTop'
    BY DEF OnlyLiveCellsAreDates, AskingIsOnTop, BasicInv, TypeOK
  <2>5. ConvertedAreLive' /\ PinnedAreLive'
    BY DEF ConvertedAreLive, PinnedAreLive, Active, BasicInv, TypeOK
  <2> QED BY <2>1, <2>2, <2>3, <2>4, <2>5 DEF BasicInv
<1>2. ASSUME NEW c \in Calls, Hit(c)
      PROVE  BasicInv'
  <2> USE <1>2 DEF Hit, Running, jsHeap, tables, rubyHeap, frames, threads
  <2>1. OnlyLiveCellsArePrivate' /\ PinnedByAProxy'
    BY DEF BasicInv, OnlyLiveCellsArePrivate, PinnedByAProxy
  <2>2. TypeOK'
    BY DEF TypeOK, BasicInv
  <2>3. ActiveFramesConvert'
    BY DEF ActiveFramesConvert, Active, BasicInv, TypeOK
  <2>4. OnlyLiveCellsAreDates' /\ AskingIsOnTop'
    BY DEF OnlyLiveCellsAreDates, AskingIsOnTop, BasicInv, TypeOK
  <2>5. ConvertedAreLive' /\ PinnedAreLive'
    BY DEF ConvertedAreLive, PinnedAreLive, Active, BasicInv, TypeOK
  <2> QED BY <2>1, <2>2, <2>3, <2>4, <2>5 DEF BasicInv
<1>3. ASSUME NEW c \in Calls, Miss(c)
      PROVE  BasicInv'
  <2> USE <1>3 DEF Miss, Running, jsHeap, tables, rubyHeap, frames, threads
  <2>1. OnlyLiveCellsArePrivate' /\ PinnedByAProxy'
    BY DEF BasicInv, OnlyLiveCellsArePrivate, PinnedByAProxy
  <2>2. TypeOK'
    BY DEF TypeOK, BasicInv
  <2>3. ActiveFramesConvert'
    BY DEF ActiveFramesConvert, Active, BasicInv, TypeOK
  <2>4. OnlyLiveCellsAreDates' /\ AskingIsOnTop'
    BY DEF OnlyLiveCellsAreDates, AskingIsOnTop, BasicInv, TypeOK
  <2>5. ConvertedAreLive' /\ PinnedAreLive'
    BY DEF ConvertedAreLive, PinnedAreLive, Active, BasicInv, TypeOK
  <2> QED BY <2>1, <2>2, <2>3, <2>4, <2>5 DEF BasicInv
<1>4. ASSUME NEW c \in Calls, NewProxy(c)
      PROVE  BasicInv'
  <2> USE <1>4 DEF NewProxy, NewCell, Running, jsHeap, tables, rubyHeap, frames, threads
  <2>1. TypeOK'
    BY DEF TypeOK, BasicInv, ActiveFramesConvert, Active
  <2>2. OnlyLiveCellsArePrivate'
    BY DEF OnlyLiveCellsArePrivate, BasicInv, TypeOK
  <2>3. ActiveFramesConvert'
    BY DEF ActiveFramesConvert, Active, BasicInv, TypeOK
  <2>4. PinnedByAProxy'
    BY DEF PinnedByAProxy, OnlyLiveCellsArePrivate, ActiveFramesConvert, Active,
           BasicInv, TypeOK
  <2>5. OnlyLiveCellsAreDates' /\ AskingIsOnTop'
    BY DEF OnlyLiveCellsAreDates, AskingIsOnTop, BasicInv, TypeOK
  <2>6. ConvertedAreLive' /\ PinnedAreLive'
    BY DEF ConvertedAreLive, PinnedAreLive, Active, BasicInv, TypeOK
  <2> QED BY <2>1, <2>2, <2>3, <2>4, <2>5, <2>6 DEF BasicInv
<1>5. ASSUME NEW c \in Calls, NewObjectFails(c)
      PROVE  BasicInv'
  <2> USE <1>5 DEF NewObjectFails, Leave, Running, jsHeap, tables, rubyHeap, frames, threads
  <2>1. OnlyLiveCellsArePrivate' /\ PinnedByAProxy'
    BY DEF BasicInv, OnlyLiveCellsArePrivate, PinnedByAProxy
  <2>2. TypeOK'
    BY DEF TypeOK, BasicInv
  <2>3. ActiveFramesConvert'
    BY DEF ActiveFramesConvert, Active, BasicInv, TypeOK
  <2>4. OnlyLiveCellsAreDates' /\ AskingIsOnTop'
    BY DEF OnlyLiveCellsAreDates, AskingIsOnTop, BasicInv, TypeOK
  <2>5. ConvertedAreLive' /\ PinnedAreLive'
    BY DEF ConvertedAreLive, PinnedAreLive, Active, BasicInv, TypeOK
  <2> QED BY <2>1, <2>2, <2>3, <2>4, <2>5 DEF BasicInv
<1>6. ASSUME NEW c \in Calls, DefineFails(c)
      PROVE  BasicInv'
  <2> USE <1>6 DEF DefineFails, NewCell, Leave, Running, jsHeap, tables, rubyHeap,
         frames, threads
  <2>1. TypeOK'
    BY DEF TypeOK, BasicInv
  <2>2. OnlyLiveCellsArePrivate'
    BY DEF OnlyLiveCellsArePrivate, BasicInv, TypeOK
  <2>3. ActiveFramesConvert'
    BY DEF ActiveFramesConvert, Active, BasicInv, TypeOK
  <2>4. PinnedByAProxy'
    BY DEF PinnedByAProxy, OnlyLiveCellsArePrivate, ActiveFramesConvert, Active,
           BasicInv, TypeOK
  <2>5. OnlyLiveCellsAreDates' /\ AskingIsOnTop'
    BY DEF OnlyLiveCellsAreDates, AskingIsOnTop, BasicInv, TypeOK
  <2>6. ConvertedAreLive' /\ PinnedAreLive'
    BY DEF ConvertedAreLive, PinnedAreLive, Active, BasicInv, TypeOK
  <2> QED BY <2>1, <2>2, <2>3, <2>4, <2>5, <2>6 DEF BasicInv
<1>7. ASSUME NEW c \in Calls, AddProxy(c)
      PROVE  BasicInv'
  <2> USE <1>7 DEF AddProxy, Running, jsHeap, tables, rubyHeap, frames, threads
  <2>1. OnlyLiveCellsArePrivate' /\ PinnedByAProxy'
    BY DEF BasicInv, OnlyLiveCellsArePrivate, PinnedByAProxy
  <2>2. TypeOK'
    BY DEF TypeOK, BasicInv
  <2>3. ActiveFramesConvert'
    BY DEF ActiveFramesConvert, Active, BasicInv, TypeOK
  <2>4. OnlyLiveCellsAreDates' /\ AskingIsOnTop'
    BY DEF OnlyLiveCellsAreDates, AskingIsOnTop, BasicInv, TypeOK
  <2>5. ConvertedAreLive' /\ PinnedAreLive'
    BY DEF ConvertedAreLive, PinnedAreLive, Active, BasicInv, TypeOK
  <2> QED BY <2>1, <2>2, <2>3, <2>4, <2>5 DEF BasicInv
<1>8. ASSUME NEW c \in Calls, AddDate(c)
      PROVE  BasicInv'
  <2> USE <1>8 DEF AddDate, Running, jsHeap, tables, rubyHeap, frames, threads
  <2>1. TypeOK'
    <3>1. PICK d \in Cells \ live :
            /\ live' = live \cup {d}
            /\ wrappedRuby' = [wrappedRuby EXCEPT ![d] = base[c]]
            /\ rbids' = [rbids EXCEPT ![value[c]] = d]
            /\ base' = [base EXCEPT ![c] = d]
      OBVIOUS
    <3>2. live' \subseteq Cells /\ wrappedRuby' \in [Cells -> Cells \cup {None}]
      BY <3>1 DEF TypeOK, BasicInv
    <3>3. rbids' \in [Objects -> Cells \cup {None}] /\ base' \in [Calls -> Cells \cup {None}]
      BY <3>1 DEF TypeOK, BasicInv
    <3>4. pc' \in [Calls -> {"idle", "context", "respond", "wrap", "convert"}]
      BY DEF TypeOK, BasicInv
    <3> QED BY <3>2, <3>3, <3>4 DEF TypeOK, BasicInv
  <2>2. OnlyLiveCellsArePrivate'
    BY DEF OnlyLiveCellsArePrivate, BasicInv, TypeOK
  <2>3. ActiveFramesConvert'
    BY DEF ActiveFramesConvert, Active, BasicInv, TypeOK
  <2>4. PinnedByAProxy'
    BY DEF PinnedByAProxy, OnlyLiveCellsArePrivate, ActiveFramesConvert, Active,
           BasicInv, TypeOK
  <2>5. OnlyLiveCellsAreDates' /\ AskingIsOnTop'
    BY DEF OnlyLiveCellsAreDates, AskingIsOnTop, BasicInv, TypeOK
  <2>6. ConvertedAreLive' /\ PinnedAreLive'
    BY DEF ConvertedAreLive, PinnedAreLive, Active, BasicInv, TypeOK
  <2> QED BY <2>1, <2>2, <2>3, <2>4, <2>5, <2>6 DEF BasicInv
<1>9. ASSUME NEW c \in Calls, WrapFails(c)
      PROVE  BasicInv'
  <2> USE <1>9 DEF WrapFails, Leave, Running, jsHeap, tables, rubyHeap, frames, threads
  <2>1. OnlyLiveCellsArePrivate' /\ PinnedByAProxy'
    BY DEF BasicInv, OnlyLiveCellsArePrivate, PinnedByAProxy
  <2>2. TypeOK'
    BY DEF TypeOK, BasicInv
  <2>3. ActiveFramesConvert'
    BY DEF ActiveFramesConvert, Active, BasicInv, TypeOK
  <2>4. OnlyLiveCellsAreDates' /\ AskingIsOnTop'
    BY DEF OnlyLiveCellsAreDates, AskingIsOnTop, BasicInv, TypeOK
  <2>5. ConvertedAreLive' /\ PinnedAreLive'
    BY DEF ConvertedAreLive, PinnedAreLive, Active, BasicInv, TypeOK
  <2> QED BY <2>1, <2>2, <2>3, <2>4, <2>5 DEF BasicInv
<1>10. ASSUME NEW c \in Calls, Return(c)
      PROVE  BasicInv'
  <2> USE <1>10 DEF Return, Leave, Running, jsHeap, tables, rubyHeap, frames, threads
  <2>1. OnlyLiveCellsArePrivate' /\ PinnedByAProxy'
    BY DEF BasicInv, OnlyLiveCellsArePrivate, PinnedByAProxy
  <2>2. TypeOK'
    BY DEF TypeOK, BasicInv
  <2>3. ActiveFramesConvert'
    BY DEF ActiveFramesConvert, Active, BasicInv, TypeOK
  <2>4. OnlyLiveCellsAreDates' /\ AskingIsOnTop'
    BY DEF OnlyLiveCellsAreDates, AskingIsOnTop, BasicInv, TypeOK
  <2>5. ConvertedAreLive' /\ PinnedAreLive'
    BY DEF ConvertedAreLive, PinnedAreLive, Active, BasicInv, TypeOK
  <2> QED BY <2>1, <2>2, <2>3, <2>4, <2>5 DEF BasicInv
<1>11. ASSUME NEW t \in Threads, StartThread(t) \/ EndThread(t)
      PROVE  BasicInv'
  <2> USE <1>11 DEF StartThread, EndThread, jsHeap, tables, rubyHeap, frames, threads
  <2>1. OnlyLiveCellsArePrivate' /\ ActiveFramesConvert' /\ PinnedByAProxy'
    BY DEF BasicInv, OnlyLiveCellsArePrivate, ActiveFramesConvert, Active, PinnedByAProxy
  <2>2. TypeOK'
    BY DEF TypeOK, BasicInv
  <2>3. OnlyLiveCellsAreDates' /\ AskingIsOnTop'
    BY DEF OnlyLiveCellsAreDates, AskingIsOnTop, BasicInv, TypeOK
  <2>4. ConvertedAreLive' /\ PinnedAreLive'
    BY DEF ConvertedAreLive, PinnedAreLive, Active, BasicInv, TypeOK
  <2> QED BY <2>1, <2>2, <2>3, <2>4 DEF BasicInv
<1>12. ASSUME NEW r \in Objects, RubyNew(r) \/ RubyDrop(r)
      PROVE  BasicInv'
  <2> USE <1>12 DEF RubyNew, RubyDrop, jsHeap, tables, rubyHeap, frames, threads
  <2>1. OnlyLiveCellsArePrivate' /\ ActiveFramesConvert' /\ PinnedByAProxy'
    BY DEF BasicInv, OnlyLiveCellsArePrivate, ActiveFramesConvert, Active, PinnedByAProxy
  <2>2. TypeOK'
    BY DEF TypeOK, BasicInv
  <2>3. OnlyLiveCellsAreDates' /\ AskingIsOnTop'
    BY DEF OnlyLiveCellsAreDates, AskingIsOnTop, BasicInv, TypeOK
  <2>4. ConvertedAreLive' /\ PinnedAreLive'
    BY DEF ConvertedAreLive, PinnedAreLive, Active, BasicInv, TypeOK
  <2> QED BY <2>1, <2>2, <2>3, <2>4 DEF BasicInv
<1>13. ASSUME NEW o \in Cells, Unwrap(o) \/ ReadWrappedRuby(o) \/ JSDrop(o)
      PROVE  BasicInv'
  <2> USE <1>13 DEF Unwrap, ReadWrappedRuby, JSDrop, jsHeap, tables, rubyHeap, frames,
         threads
  <2>1. OnlyLiveCellsArePrivate' /\ ActiveFramesConvert' /\ PinnedByAProxy'
    BY DEF BasicInv, OnlyLiveCellsArePrivate, ActiveFramesConvert, Active, PinnedByAProxy
  <2>2. TypeOK'
    BY DEF TypeOK, BasicInv
  <2>3. OnlyLiveCellsAreDates' /\ AskingIsOnTop'
    BY DEF OnlyLiveCellsAreDates, AskingIsOnTop, BasicInv, TypeOK
  <2>4. ConvertedAreLive' /\ PinnedAreLive'
    BY DEF ConvertedAreLive, PinnedAreLive, Active, BasicInv, TypeOK
  <2> QED BY <2>1, <2>2, <2>3, <2>4 DEF BasicInv
<1>14. ASSUME NEW t \in Threads, gc_callback(t)
      PROVE  BasicInv'
  <2> USE <1>14 DEF gc_callback, jsHeap, tables, rubyHeap, frames, threads
  <2>1. OnlyLiveCellsArePrivate' /\ ActiveFramesConvert' /\ PinnedByAProxy'
    BY DEF BasicInv, OnlyLiveCellsArePrivate, ActiveFramesConvert, Active, PinnedByAProxy
  <2>2. TypeOK'
    BY DEF TypeOK, BasicInv
  <2>3. OnlyLiveCellsAreDates' /\ AskingIsOnTop'
    BY DEF OnlyLiveCellsAreDates, AskingIsOnTop, BasicInv, TypeOK
  <2>4. ConvertedAreLive' /\ PinnedAreLive'
    BY DEF ConvertedAreLive, PinnedAreLive, Active, BasicInv, TypeOK
  <2> QED BY <2>1, <2>2, <2>3, <2>4 DEF BasicInv
<1>15. ASSUME NEW t \in Threads, JSCollect(t)
      PROVE  BasicInv'
  <2> USE <1>15 DEF JSCollect, finalize, jsHeap, tables, rubyHeap, frames, threads
  <2>1. ActiveFramesConvert'
    BY DEF BasicInv, ActiveFramesConvert, Active
  <2>2. TypeOK'
    BY DEF TypeOK, BasicInv
  <2>3. OnlyLiveCellsArePrivate'
    BY DEF OnlyLiveCellsArePrivate, BasicInv, TypeOK
  <2>4. PinnedByAProxy'
    BY DEF PinnedByAProxy, OnlyLiveCellsArePrivate, ActiveFramesConvert, Active,
           BasicInv, TypeOK
  <2>5. OnlyLiveCellsAreDates' /\ AskingIsOnTop'
    BY DEF OnlyLiveCellsAreDates, AskingIsOnTop, BasicInv, TypeOK
  <2>6. ConvertedAreLive' /\ PinnedAreLive'
    BY DEF ConvertedAreLive, PinnedAreLive, Active, BasicInv, TypeOK
  <2> QED BY <2>1, <2>2, <2>3, <2>4, <2>5, <2>6 DEF BasicInv
<1>16. ASSUME RubyCollect
      PROVE  BasicInv'
  <2> USE <1>16 DEF RubyCollect, RubyReachable, RubyReferenced, jsHeap, tables, rubyHeap,
         frames, threads
  <2>1. OnlyLiveCellsArePrivate' /\ ActiveFramesConvert' /\ PinnedByAProxy'
    BY DEF BasicInv, OnlyLiveCellsArePrivate, ActiveFramesConvert, Active, PinnedByAProxy
  <2>2. TypeOK'
    BY DEF TypeOK, BasicInv
  <2>3. OnlyLiveCellsAreDates' /\ AskingIsOnTop'
    BY DEF OnlyLiveCellsAreDates, AskingIsOnTop, BasicInv, TypeOK
  <2>4. ConvertedAreLive' /\ PinnedAreLive'
    BY DEF ConvertedAreLive, PinnedAreLive, Active, BasicInv, TypeOK
  <2> QED BY <2>1, <2>2, <2>3, <2>4 DEF BasicInv
<1>17. ASSUME UNCHANGED vars
      PROVE  BasicInv'
  BY <1>17 DEF vars, jsHeap, tables, rubyHeap, frames, threads,
         BasicInv, TypeOK, OnlyLiveCellsArePrivate, ActiveFramesConvert, Active, PinnedByAProxy,
         OnlyLiveCellsAreDates, ConvertedAreLive, PinnedAreLive, AskingIsOnTop
<1> QED BY <1>1, <1>2, <1>3, <1>4, <1>5, <1>6, <1>7, <1>8, <1>9, <1>10, <1>11, <1>12,
       <1>13, <1>14, <1>15, <1>16, <1>17
       DEF Next, make_js_land_proxy, Program

(* should_sm_gc? lets a collection run only if no other thread has a       *)
(* context map, and its own thread is not asking.                          *)
LEMMA AllowedWhenNobodyAsks ==
    ASSUME BasicInv, NEW t \in Threads, Allowed(t)
    PROVE  \A c \in Calls : pc[c] # "context"
BY NoneAssumption, ThreadOfAssumption
   DEF Allowed, MayEnter, should_sm_gc, AskingIsOnTop, BasicInv, TypeOK

(* A collection runs only where no frame asks for the current context, so   *)
(* every base_value is either on the JavaScript side or not used.           *)
LEMMA SafeStep ==
    ASSUME Undisturbed, SafeInv, [Next]_vars
    PROVE  SafeInv'
<1>0. BasicInv'
  BY BasicStep DEF SafeInv
<1> USE ThreadOfAssumption, NoneAssumption DEF Undisturbed
<1>1. ASSUME NEW c \in Calls, NEW r \in Objects, Lookup(c, r)
      PROVE  SafeInv'
  <2> USE <1>1 DEF Lookup, MayEnter, RubyReferenced, jsHeap, tables, rubyHeap, frames,
         threads
  <2>1. NoDateInFront' /\ EntriesFit'
    BY DEF SafeInv, NoDateInFront, EntriesFit
  <2>2. NobodyAsksMeanwhile'
    <3>1. Alone => asked = {}
      BY DEF Alone, SafeInv, BasicInv, TypeOK
    <3> QED BY <3>1 DEF NobodyAsksMeanwhile, SafeInv
  <2>3. BasesFit'
    BY DEF BasesFit, EntriesFit, ActiveFramesConvert, Active, SafeInv, BasicInv, TypeOK
  <2> QED BY <1>0, <2>1, <2>2, <2>3 DEF SafeInv
<1>2. ASSUME NEW c \in Calls, Hit(c)
      PROVE  SafeInv'
  <2> USE <1>2 DEF Hit, Running, jsHeap, tables, rubyHeap, frames, threads
  <2>1. NoDateInFront' /\ NobodyAsksMeanwhile' /\ EntriesFit'
    BY DEF SafeInv, NoDateInFront, NobodyAsksMeanwhile, EntriesFit
  <2>2. BasesFit'
    BY DEF BasesFit, EntriesFit, ActiveFramesConvert, Active, SafeInv, BasicInv, TypeOK
  <2> QED BY <1>0, <2>1, <2>2 DEF SafeInv
<1>3. ASSUME NEW c \in Calls, Miss(c)
      PROVE  SafeInv'
  <2> USE <1>3 DEF Miss, Running, jsHeap, tables, rubyHeap, frames, threads
  <2>1. NoDateInFront' /\ NobodyAsksMeanwhile' /\ EntriesFit'
    BY DEF SafeInv, NoDateInFront, NobodyAsksMeanwhile, EntriesFit
  <2>2. BasesFit'
    BY DEF BasesFit, EntriesFit, ActiveFramesConvert, Active, SafeInv, BasicInv, TypeOK
  <2> QED BY <1>0, <2>1, <2>2 DEF SafeInv
<1>4. ASSUME NEW c \in Calls, NewProxy(c)
      PROVE  SafeInv'
  <2> USE <1>4 DEF NewProxy, NewCell, Running, jsHeap, tables, rubyHeap, frames, threads
  <2>1. NoDateInFront' /\ NobodyAsksMeanwhile'
    BY DEF SafeInv, NoDateInFront, NobodyAsksMeanwhile
  <2>2. EntriesFit'
    BY DEF EntriesFit, BasesFit, OnlyLiveCellsArePrivate, SafeInv, BasicInv, TypeOK
  <2>3. BasesFit'
    BY DEF BasesFit, EntriesFit, ActiveFramesConvert, Active, SafeInv, BasicInv, TypeOK
  <2> QED BY <1>0, <2>1, <2>2, <2>3 DEF SafeInv
<1>5. ASSUME NEW c \in Calls, NewObjectFails(c)
      PROVE  SafeInv'
  <2> USE <1>5 DEF NewObjectFails, Leave, Running, jsHeap, tables, rubyHeap, frames, threads
  <2>1. NoDateInFront' /\ NobodyAsksMeanwhile' /\ EntriesFit'
    BY DEF SafeInv, NoDateInFront, NobodyAsksMeanwhile, EntriesFit
  <2>2. BasesFit'
    BY DEF BasesFit, EntriesFit, ActiveFramesConvert, Active, SafeInv, BasicInv, TypeOK
  <2> QED BY <1>0, <2>1, <2>2 DEF SafeInv
<1>6. ASSUME NEW c \in Calls, DefineFails(c)
      PROVE  SafeInv'
  <2> USE <1>6 DEF DefineFails, NewCell, Leave, Running, jsHeap, tables, rubyHeap,
         frames, threads
  <2>1. NoDateInFront' /\ NobodyAsksMeanwhile'
    BY DEF SafeInv, NoDateInFront, NobodyAsksMeanwhile
  <2>2. EntriesFit'
    BY DEF EntriesFit, BasesFit, OnlyLiveCellsArePrivate, SafeInv, BasicInv, TypeOK
  <2>3. BasesFit'
    BY DEF BasesFit, EntriesFit, ActiveFramesConvert, Active, SafeInv, BasicInv, TypeOK
  <2> QED BY <1>0, <2>1, <2>2, <2>3 DEF SafeInv
<1>7. ASSUME NEW c \in Calls, AddProxy(c)
      PROVE  SafeInv'
  <2> USE <1>7 DEF AddProxy, Running, jsHeap, tables, rubyHeap, frames, threads
  <2>1. NoDateInFront' /\ NobodyAsksMeanwhile'
    BY DEF SafeInv, NoDateInFront, NobodyAsksMeanwhile
  <2>2. EntriesFit'
    BY DEF EntriesFit, BasesFit, OnlyLiveCellsArePrivate, SafeInv, BasicInv, TypeOK
  <2>3. BasesFit'
    BY DEF BasesFit, EntriesFit, ActiveFramesConvert, Active, SafeInv, BasicInv, TypeOK
  <2> QED BY <1>0, <2>1, <2>2, <2>3 DEF SafeInv
<1>8. ASSUME NEW c \in Calls, AddDate(c)
      PROVE  SafeInv'
  <2> USE <1>8 DEF AddDate, Running, jsHeap, tables, rubyHeap, frames, threads
  <2>1. NobodyAsksMeanwhile'
    BY DEF SafeInv, NobodyAsksMeanwhile
  <2>2. NoDateInFront'
    BY DEF NoDateInFront, SafeInv, BasicInv, TypeOK
  <2>3. EntriesFit'
    BY DEF EntriesFit, BasesFit, OnlyLiveCellsArePrivate, SafeInv, BasicInv, TypeOK
  <2>4. BasesFit'
    BY DEF BasesFit, EntriesFit, ActiveFramesConvert, Active, SafeInv, BasicInv, TypeOK
  <2> QED BY <1>0, <2>1, <2>2, <2>3, <2>4 DEF SafeInv
<1>9. ASSUME NEW c \in Calls, WrapFails(c)
      PROVE  SafeInv'
  <2> USE <1>9 DEF WrapFails, Leave, Running, jsHeap, tables, rubyHeap, frames, threads
  <2>1. NoDateInFront' /\ NobodyAsksMeanwhile' /\ EntriesFit'
    BY DEF SafeInv, NoDateInFront, NobodyAsksMeanwhile, EntriesFit
  <2>2. BasesFit'
    BY DEF BasesFit, EntriesFit, ActiveFramesConvert, Active, SafeInv, BasicInv, TypeOK
  <2> QED BY <1>0, <2>1, <2>2 DEF SafeInv
<1>10. ASSUME NEW c \in Calls, Return(c)
      PROVE  SafeInv'
  <2> USE <1>10 DEF Return, Leave, Running, jsHeap, tables, rubyHeap, frames, threads
  <2>1. NoDateInFront' /\ NobodyAsksMeanwhile' /\ EntriesFit'
    BY DEF SafeInv, NoDateInFront, NobodyAsksMeanwhile, EntriesFit
  <2>2. BasesFit'
    BY DEF BasesFit, EntriesFit, ActiveFramesConvert, Active, SafeInv, BasicInv, TypeOK
  <2> QED BY <1>0, <2>1, <2>2 DEF SafeInv
<1>11. ASSUME NEW t \in Threads, StartThread(t) \/ EndThread(t)
      PROVE  SafeInv'
  <2> USE <1>11 DEF StartThread, EndThread, jsHeap, tables, rubyHeap, frames, threads
  <2>1. NoDateInFront' /\ NobodyAsksMeanwhile' /\ EntriesFit' /\ BasesFit'
    BY DEF SafeInv, NoDateInFront, NobodyAsksMeanwhile, EntriesFit, BasesFit
  <2> QED BY <1>0, <2>1 DEF SafeInv
<1>12. ASSUME NEW r \in Objects, RubyNew(r) \/ RubyDrop(r)
      PROVE  SafeInv'
  BY <1>12, <1>0 DEF RubyNew, RubyDrop, jsHeap, tables, rubyHeap, frames, threads,
         SafeInv, NoDateInFront, NobodyAsksMeanwhile, EntriesFit, BasesFit
<1>13. ASSUME NEW o \in Cells, Unwrap(o) \/ ReadWrappedRuby(o) \/ JSDrop(o)
      PROVE  SafeInv'
  BY <1>13, <1>0 DEF Unwrap, ReadWrappedRuby, JSDrop, jsHeap, tables, rubyHeap, frames,
         threads,
         SafeInv, NoDateInFront, NobodyAsksMeanwhile, EntriesFit, BasesFit
<1>14. ASSUME NEW t \in Threads, gc_callback(t)
      PROVE  SafeInv'
  <2> USE <1>14 DEF gc_callback, jsHeap, tables, rubyHeap, frames, threads
  <2>1. NoDateInFront' /\ EntriesFit' /\ BasesFit'
    BY DEF SafeInv, NoDateInFront, EntriesFit, BasesFit
  <2>2. NobodyAsksMeanwhile'
    BY AllowedWhenNobodyAsks DEF NobodyAsksMeanwhile, SafeInv
  <2> QED BY <1>0, <2>1, <2>2 DEF SafeInv
<1>15. ASSUME NEW t \in Threads, JSCollect(t)
      PROVE  SafeInv'
  <2> USE <1>15 DEF JSCollect, finalize, jsHeap, tables, rubyHeap, frames, threads
  <2>1. NoDateInFront'
    BY DEF NoDateInFront, SafeInv, BasicInv, TypeOK
  <2>2. NobodyAsksMeanwhile'
    BY DEF NobodyAsksMeanwhile, SafeInv, BasicInv, TypeOK
  <2>3. EntriesFit'
    BY DEF EntriesFit, BasesFit, OnlyLiveCellsArePrivate, SafeInv, BasicInv, TypeOK
  <2>4. BasesFit'
    <3>1. \A d \in Calls : pc[d] # "context"
      BY AllowedWhenNobodyAsks DEF NobodyAsksMeanwhile, SafeInv
    <3>2. \A d \in Calls : base[d] # None => base[d] \in JSReachable
      BY <3>1 DEF BasesFit, SafeInv, BasicInv, TypeOK, JSReachable, JSReferenced
    <3> QED BY <3>2 DEF BasesFit, SafeInv, BasicInv, TypeOK
  <2> QED BY <1>0, <2>1, <2>2, <2>3, <2>4 DEF SafeInv
<1>16. ASSUME RubyCollect
      PROVE  SafeInv'
  BY <1>16, <1>0 DEF RubyCollect, RubyReachable, RubyReferenced, jsHeap, tables,
         rubyHeap, frames, threads,
         SafeInv, NoDateInFront, NobodyAsksMeanwhile, EntriesFit, BasesFit
<1>17. ASSUME UNCHANGED vars
      PROVE  SafeInv'
  BY <1>17, <1>0 DEF vars, jsHeap, tables, rubyHeap, frames, threads,
         SafeInv, NoDateInFront, NobodyAsksMeanwhile, EntriesFit, BasesFit
<1> QED BY <1>1, <1>2, <1>3, <1>4, <1>5, <1>6, <1>7, <1>8, <1>9, <1>10, <1>11, <1>12,
       <1>13, <1>14, <1>15, <1>16, <1>17
       DEF Next, make_js_land_proxy, Program

(* As long as no object has two cells, no finalizer unpins the object of   *)
(* another cell.                                                            *)
LEMMA TwinStep ==
    ASSUME Undisturbed, TwinInv, OneProxyPerObject, [Next]_vars
    PROVE  TwinInv'
<1>0. SafeInv'
  BY SafeStep DEF TwinInv
<1> USE ThreadOfAssumption, NoneAssumption DEF Undisturbed
<1>1. ASSUME NEW c \in Calls, NEW r \in Objects, Lookup(c, r)
      PROVE  TwinInv'
  <2> USE <1>1 DEF Lookup, MayEnter, RubyReferenced, jsHeap, tables, rubyHeap, frames,
         threads
  <2>1. HeldCellsAreLive'
    BY DEF TwinInv, PinnedAreLive, HeldCellsAreLive
  <2>2. NamedArePinned'
    BY DEF NamedArePinned, Named, HeldCellsAreLive, BasesFit, EntriesFit, NoDateInFront,
           TwinInv, SafeInv, BasicInv, TypeOK
  <2> QED BY <1>0, <2>1, <2>2 DEF TwinInv
<1>2. ASSUME NEW c \in Calls, Hit(c)
      PROVE  TwinInv'
  <2> USE <1>2 DEF Hit, Running, jsHeap, tables, rubyHeap, frames, threads
  <2>1. NamedArePinned' /\ HeldCellsAreLive'
    BY DEF TwinInv, NamedArePinned, Named, PinnedAreLive, HeldCellsAreLive
  <2> QED BY <1>0, <2>1 DEF TwinInv
<1>3. ASSUME NEW c \in Calls, Miss(c)
      PROVE  TwinInv'
  <2> USE <1>3 DEF Miss, Running, jsHeap, tables, rubyHeap, frames, threads
  <2>1. NamedArePinned' /\ HeldCellsAreLive'
    BY DEF TwinInv, NamedArePinned, Named, PinnedAreLive, HeldCellsAreLive
  <2> QED BY <1>0, <2>1 DEF TwinInv
<1>4. ASSUME NEW c \in Calls, NewProxy(c)
      PROVE  TwinInv'
  <2> USE <1>4 DEF NewProxy, NewCell, Running, jsHeap, tables, rubyHeap, frames, threads
  <2>1. NamedArePinned'
    BY DEF NamedArePinned, Named, HeldCellsAreLive, BasesFit, EntriesFit, NoDateInFront,
           TwinInv, SafeInv, BasicInv, TypeOK
  <2>2. HeldCellsAreLive'
    BY DEF HeldCellsAreLive, NoDateInFront, TwinInv, SafeInv, BasicInv, TypeOK
  <2> QED BY <1>0, <2>1, <2>2 DEF TwinInv
<1>5. ASSUME NEW c \in Calls, NewObjectFails(c)
      PROVE  TwinInv'
  <2> USE <1>5 DEF NewObjectFails, Leave, Running, jsHeap, tables, rubyHeap, frames, threads
  <2>1. HeldCellsAreLive'
    BY DEF TwinInv, PinnedAreLive, HeldCellsAreLive
  <2>2. NamedArePinned'
    BY DEF NamedArePinned, Named, HeldCellsAreLive, BasesFit, EntriesFit, NoDateInFront,
           TwinInv, SafeInv, BasicInv, TypeOK
  <2> QED BY <1>0, <2>1, <2>2 DEF TwinInv
<1>6. ASSUME NEW c \in Calls, DefineFails(c)
      PROVE  TwinInv'
  <2> USE <1>6 DEF DefineFails, NewCell, Leave, Running, jsHeap, tables, rubyHeap,
         frames, threads
  <2>1. NamedArePinned'
    BY DEF NamedArePinned, Named, HeldCellsAreLive, BasesFit, EntriesFit, NoDateInFront,
           TwinInv, SafeInv, BasicInv, TypeOK
  <2>2. HeldCellsAreLive'
    BY DEF HeldCellsAreLive, NoDateInFront, TwinInv, SafeInv, BasicInv, TypeOK
  <2> QED BY <1>0, <2>1, <2>2 DEF TwinInv
<1>7. ASSUME NEW c \in Calls, AddProxy(c)
      PROVE  TwinInv'
  <2> USE <1>7 DEF AddProxy, Running, jsHeap, tables, rubyHeap, frames, threads
  <2>1. HeldCellsAreLive'
    BY DEF TwinInv, PinnedAreLive, HeldCellsAreLive
  <2>2. NamedArePinned'
    BY DEF NamedArePinned, Named, HeldCellsAreLive, BasesFit, EntriesFit, NoDateInFront,
           TwinInv, SafeInv, BasicInv, TypeOK
  <2> QED BY <1>0, <2>1, <2>2 DEF TwinInv
<1>8. ASSUME NEW c \in Calls, AddDate(c)
      PROVE  TwinInv'
  <2> USE <1>8 DEF AddDate, Running, jsHeap, tables, rubyHeap, frames, threads
  <2>1. NamedArePinned'
    BY DEF NamedArePinned, Named, HeldCellsAreLive, BasesFit, EntriesFit, NoDateInFront,
           TwinInv, SafeInv, BasicInv, TypeOK
  <2>2. HeldCellsAreLive'
    BY DEF HeldCellsAreLive, NoDateInFront, TwinInv, SafeInv, BasicInv, TypeOK
  <2> QED BY <1>0, <2>1, <2>2 DEF TwinInv
<1>9. ASSUME NEW c \in Calls, WrapFails(c)
      PROVE  TwinInv'
  <2> USE <1>9 DEF WrapFails, Leave, Running, jsHeap, tables, rubyHeap, frames, threads
  <2>1. HeldCellsAreLive'
    BY DEF TwinInv, PinnedAreLive, HeldCellsAreLive
  <2>2. NamedArePinned'
    BY DEF NamedArePinned, Named, HeldCellsAreLive, BasesFit, EntriesFit, NoDateInFront,
           TwinInv, SafeInv, BasicInv, TypeOK
  <2> QED BY <1>0, <2>1, <2>2 DEF TwinInv
<1>10. ASSUME NEW c \in Calls, Return(c)
      PROVE  TwinInv'
  <2> USE <1>10 DEF Return, Leave, Running, jsHeap, tables, rubyHeap, frames, threads
  <2>1. NamedArePinned'
    BY DEF NamedArePinned, Named, HeldCellsAreLive, BasesFit, EntriesFit, NoDateInFront,
           TwinInv, SafeInv, BasicInv, TypeOK
  <2>2. HeldCellsAreLive'
    BY DEF HeldCellsAreLive, NoDateInFront, TwinInv, SafeInv, BasicInv, TypeOK
  <2> QED BY <1>0, <2>1, <2>2 DEF TwinInv
<1>11. ASSUME NEW t \in Threads, StartThread(t) \/ EndThread(t)
      PROVE  TwinInv'
  BY <1>11, <1>0 DEF StartThread, EndThread, jsHeap, tables, rubyHeap, frames, threads,
         TwinInv, NamedArePinned, Named, HeldCellsAreLive
<1>12. ASSUME NEW r \in Objects, RubyNew(r) \/ RubyDrop(r)
      PROVE  TwinInv'
  <2> USE <1>12 DEF RubyNew, RubyDrop, jsHeap, tables, rubyHeap, frames, threads
  <2>1. NamedArePinned' /\ HeldCellsAreLive'
    BY DEF TwinInv, NamedArePinned, Named, HeldCellsAreLive
  <2> QED BY <1>0, <2>1 DEF TwinInv
<1>13. ASSUME NEW o \in Cells, Unwrap(o) \/ ReadWrappedRuby(o) \/ JSDrop(o)
      PROVE  TwinInv'
  <2> USE <1>13 DEF Unwrap, ReadWrappedRuby, JSDrop, jsHeap, tables, rubyHeap, frames,
         threads
  <2>1. NamedArePinned'
    BY DEF NamedArePinned, Named, HeldCellsAreLive, BasesFit, EntriesFit, NoDateInFront,
           TwinInv, SafeInv, BasicInv, TypeOK
  <2>2. HeldCellsAreLive'
    BY DEF HeldCellsAreLive, NoDateInFront, TwinInv, SafeInv, BasicInv, TypeOK
  <2> QED BY <1>0, <2>1, <2>2 DEF TwinInv
<1>14. ASSUME NEW t \in Threads, gc_callback(t)
      PROVE  TwinInv'
  BY <1>14, <1>0 DEF gc_callback, jsHeap, tables, rubyHeap, frames, threads,
         TwinInv, NamedArePinned, Named, HeldCellsAreLive
<1>15. ASSUME NEW t \in Threads, JSCollect(t)
      PROVE  TwinInv'
  <2> USE <1>15 DEF JSCollect, finalize, jsHeap, tables, rubyHeap, frames, threads
  <2>1. NamedArePinned'
    <3> SUFFICES ASSUME NEW o \in Named' \cap live'
                 PROVE  private'[o] \in gcthings'
      BY DEF NamedArePinned
    <3>1. o \in Cells /\ o \in live /\ o \in JSReachable /\ private'[o] = private[o]
      BY DEF TwinInv, SafeInv, BasicInv, TypeOK
    <3>2. o \in Named
      BY <3>1 DEF Named, TwinInv, SafeInv, BasicInv, TypeOK
    <3>3. private[o] \in gcthings /\ private[o] # None
      BY <3>1, <3>2 DEF NamedArePinned, TwinInv, SafeInv, BasicInv, TypeOK
    <3>4. \A p \in live \ JSReachable : private[p] # private[o]
      BY <3>1, <3>3 DEF OneProxyPerObject
    <3> QED BY <3>1, <3>3, <3>4
  <2>2. HeldCellsAreLive'
    <3>1. jsHeld \subseteq JSReachable
      BY DEF JSReachable, JSReferenced
    <3> QED BY <3>1 DEF HeldCellsAreLive, TwinInv
  <2> QED BY <1>0, <2>1, <2>2 DEF TwinInv
<1>16. ASSUME RubyCollect
      PROVE  TwinInv'
  <2> USE <1>16 DEF RubyCollect, RubyReachable, RubyReferenced, jsHeap, tables, rubyHeap,
         frames, threads
  <2>1. NamedArePinned' /\ HeldCellsAreLive'
    BY DEF TwinInv, NamedArePinned, Named, HeldCellsAreLive
  <2> QED BY <1>0, <2>1 DEF TwinInv
<1>17. ASSUME UNCHANGED vars
      PROVE  TwinInv'
  BY <1>17, <1>0 DEF vars, jsHeap, tables, rubyHeap, frames, threads,
         TwinInv, NamedArePinned, Named, HeldCellsAreLive
<1> QED BY <1>1, <1>2, <1>3, <1>4, <1>5, <1>6, <1>7, <1>8, <1>9, <1>10, <1>11, <1>12,
       <1>13, <1>14, <1>15, <1>16, <1>17
       DEF Next, make_js_land_proxy, Program

(* At the start there are no cells, no frames and no entries. *)
LEMMA InitStep == Init => BasicInv /\ TwinInv
<1> SUFFICES ASSUME Init PROVE BasicInv /\ TwinInv
  OBVIOUS
<1> USE DEF Init
<1>1. BasicInv
  BY DEF BasicInv, TypeOK, OnlyLiveCellsArePrivate, ActiveFramesConvert, Active,
         PinnedByAProxy, OnlyLiveCellsAreDates, ConvertedAreLive, PinnedAreLive,
         AskingIsOnTop
<1>2. SafeInv
  BY <1>1 DEF SafeInv, NoDateInFront, NobodyAsksMeanwhile, EntriesFit, BasesFit
<1>3. NamedArePinned /\ HeldCellsAreLive
  BY DEF NamedArePinned, HeldCellsAreLive
<1> QED BY <1>1, <1>2, <1>3 DEF TwinInv

(* The invariants hold in every state of a behaviour. *)
LEMMA BasicInductive == Spec => []BasicInv
<1>1. Init => BasicInv
  BY InitStep
<1>2. BasicInv /\ [Next]_vars => BasicInv'
  BY BasicStep
<1> QED BY <1>1, <1>2, PTL DEF Spec

LEMMA SafeInductive ==
    ASSUME Undisturbed
    PROVE  Spec => []SafeInv
<1>1. Init => SafeInv
  BY InitStep DEF TwinInv
<1>2. SafeInv /\ [Next]_vars => SafeInv'
  BY SafeStep
<1> QED BY <1>1, <1>2, PTL DEF Spec
-----------------------------------------------------------------------------
(* The variables keep their types. *)
THEOREM JSTypeCorrect == Spec => []TypeOK
<1>1. BasicInv => TypeOK
  BY DEF BasicInv
<1> QED BY <1>1, BasicInductive, PTL

(* Whatever fails, and in whatever order threads and collectors run, an    *)
(* object in @gcthings has a cell whose finalizer will take it out.        *)
THEOREM PinsHaveAnEnd == Spec => []PinnedByAProxy
<1>1. BasicInv => PinnedByAProxy
  BY DEF BasicInv
<1> QED BY <1>1, BasicInductive, PTL

(* An entry of rbids names a live proxy of its object, on any number of    *)
(* threads and with any failures.                                          *)
THEOREM RbidsStaysExact ==
    ASSUME Undisturbed
    PROVE  Spec => []IndexIsExact
<1>1. SafeInv => IndexIsExact
  BY DEF SafeInv, BasicInv, TypeOK, EntriesFit, NoDateInFront, IndexIsExact, original
<1> QED BY <1>1, SafeInductive, PTL

(* The base_value a frame has read from rbids survives the call of Ruby    *)
(* that follows, although nothing roots it.                                *)
THEOREM HitsStayLive ==
    ASSUME Undisturbed
    PROVE  Spec => []CachedHitIsLive
<1>1. SafeInv => CachedHitIsLive
  BY DEF SafeInv, BasicInv, TypeOK, BasesFit, Active, NoDateInFront, CachedHitIsLive,
         original
<1> QED BY <1>1, SafeInductive, PTL

(* An object that a script can reach is lost only if some object had two   *)
(* cells before.                                                           *)
THEOREM OnlyTwinsLose ==
    ASSUME Undisturbed
    PROVE  Spec => OnlyTwinsLoseObjects
<1>1. Init => TwinInv
  BY InitStep
<1>2. TwinInv /\ OneProxyPerObject /\ [Next]_vars => TwinInv'
  BY TwinStep
<1>3. TwinInv => PrivateIsLive
  <2> SUFFICES ASSUME TwinInv, NEW o \in JSReachable \cap live, private[o] # None
               PROVE  private[o] \in rubyLive
    BY DEF PrivateIsLive
  <2>1. o \in Cells /\ None \notin Cells
    BY NoneAssumption DEF TwinInv, SafeInv, BasicInv, TypeOK
  <2>2. o \in Named
    BY <2>1 DEF JSReachable, JSReferenced, Named, TwinInv, SafeInv, BasicInv, TypeOK,
           NoDateInFront
  <2> QED BY <2>2 DEF TwinInv, SafeInv, BasicInv, NamedArePinned, PinnedAreLive
<1> QED BY <1>1, <1>2, <1>3, PTL DEF Spec, OnlyTwinsLoseObjects

-----------------------------------------------------------------------------
(* One thread, no failure once the cell is made, and wrappers that do not  *)
(* convert the object they are wrapping.  There may be Times and Dates: a  *)
(* Date dies before its proxy, and the entry that names it stays behind.   *)
Lone ==
    /\ Alone
    /\ Failures \subseteq {"respond"} /\ ~SelfConverting

(* Every cell of an object pins it. *)
CellsArePinned == \A o \in Cells : private[o] # None => private[o] \in gcthings

(* The frames that have found no entry and have not written one yet. *)
Missing == {c \in Calls : pc[c] \in {"respond", "wrap"} \/ (pc[c] = "context" /\ base[c] = None)}

MissingHaveNoEntry == \A c \in Missing : rbids[value[c]] = None
MissingDiffer == \A c, d \in Missing : value[c] = value[d] => c = d

(* An object with a cell has an entry, or a frame is about to write it.    *)
(* The entry may name what is not the object's: a Date that has died, or   *)
(* whatever got its address.                                               *)
CellsAreNoted ==
    \A o \in Cells : private[o] # None =>
        \/ rbids[private[o]] # None
        \/ \E c \in Calls : pc[c] = "wrap" /\ base[c] = o

(* A frame that wraps has made the cell of its object. *)
WrappingHasCell ==
    \A c \in Calls : pc[c] = "wrap" => base[c] \in live /\ private[base[c]] = value[c]

LoneInv ==
    /\ BasicInv /\ CellsArePinned /\ OneProxyPerObject
    /\ MissingHaveNoEntry /\ MissingDiffer /\ CellsAreNoted /\ WrappingHasCell
-----------------------------------------------------------------------------
(* An object that has missed has no cell yet: its entry would be there, or *)
(* another frame would be about to write it.                               *)
LEMMA MissedHasNoCell ==
    ASSUME LoneInv, NEW c \in Calls, pc[c] = "respond", NEW o \in Cells
    PROVE  private[o] # value[c]
<1> USE DEF LoneInv, BasicInv, TypeOK
<1>1. c \in Missing /\ value[c] # None /\ rbids[value[c]] = None
  BY DEF Missing, MissingHaveNoEntry, ActiveFramesConvert, Active
<1>2. \A d \in Calls : pc[d] = "wrap" /\ base[d] = o => d \in Missing /\ value[d] = private[o]
  BY DEF Missing, WrappingHasCell
<1> QED BY <1>1, <1>2 DEF CellsAreNoted, MissingDiffer

(* On one thread nothing runs between the miss and the entry that could    *)
(* convert the same object.                                                *)
LEMMA LoneStep ==
    ASSUME Lone, LoneInv, [Next]_vars
    PROVE  LoneInv'
<1>0. BasicInv'
  BY BasicStep DEF LoneInv
<1> USE ThreadOfAssumption, NoneAssumption DEF Lone, Alone
<1>1. ASSUME NEW c \in Calls, NEW r \in Objects, Lookup(c, r)
      PROVE  LoneInv'
  <2> USE <1>1 DEF Lookup, MayEnter, RubyReferenced, jsHeap, tables, rubyHeap, frames, threads
  <2>1. CellsArePinned' /\ OneProxyPerObject'
    BY DEF LoneInv, CellsArePinned, OneProxyPerObject
  <2>2. MissingHaveNoEntry'
    BY DEF MissingHaveNoEntry, Missing, LoneInv, BasicInv, TypeOK
  <2>3. MissingDiffer'
    <3>1. \A d \in Missing : value[d] # r
      BY DEF Missing, Converting, AskingIsOnTop, LoneInv, BasicInv, TypeOK
    <3>2. Missing' \subseteq Missing \cup {c}
      BY DEF Missing, LoneInv, BasicInv, TypeOK
    <3>3. \A d \in Missing : value'[d] = value[d] \/ d = c
      BY DEF Missing, LoneInv, BasicInv, TypeOK
    <3>4. value'[c] = r /\ c \notin Missing
      BY DEF Missing, LoneInv, BasicInv, TypeOK
    <3> QED BY <3>1, <3>2, <3>3, <3>4 DEF MissingDiffer, LoneInv
  <2>4. CellsAreNoted' /\ WrappingHasCell'
    BY DEF CellsAreNoted, WrappingHasCell, LoneInv, BasicInv, TypeOK
  <2> QED BY <1>0, <2>1, <2>2, <2>3, <2>4 DEF LoneInv
<1>2. ASSUME NEW c \in Calls, Hit(c)
      PROVE  LoneInv'
  <2> USE <1>2 DEF Hit, Running, jsHeap, tables, rubyHeap, frames, threads
  <2>1. CellsArePinned' /\ OneProxyPerObject'
    BY DEF LoneInv, CellsArePinned, OneProxyPerObject
  <2>2. MissingHaveNoEntry' /\ MissingDiffer'
    BY DEF MissingHaveNoEntry, MissingDiffer, Missing, LoneInv, BasicInv, TypeOK
  <2>3. CellsAreNoted' /\ WrappingHasCell'
    BY DEF CellsAreNoted, WrappingHasCell, LoneInv, BasicInv, TypeOK
  <2> QED BY <1>0, <2>1, <2>2, <2>3 DEF LoneInv
<1>3. ASSUME NEW c \in Calls, Miss(c)
      PROVE  LoneInv'
  <2> USE <1>3 DEF Miss, Running, jsHeap, tables, rubyHeap, frames, threads
  <2>1. CellsArePinned' /\ OneProxyPerObject'
    BY DEF LoneInv, CellsArePinned, OneProxyPerObject
  <2>2. MissingHaveNoEntry' /\ MissingDiffer'
    BY DEF MissingHaveNoEntry, MissingDiffer, Missing, LoneInv, BasicInv, TypeOK
  <2>3. CellsAreNoted' /\ WrappingHasCell'
    BY DEF CellsAreNoted, WrappingHasCell, LoneInv, BasicInv, TypeOK
  <2> QED BY <1>0, <2>1, <2>2, <2>3 DEF LoneInv
<1>4. ASSUME NEW c \in Calls, NewProxy(c)
      PROVE  LoneInv'
  <2> USE <1>4 DEF NewProxy, NewCell, Running, jsHeap, tables, rubyHeap, frames, threads
  <2>1. value[c] \in Objects /\ \A o \in Cells : private[o] # value[c]
    BY MissedHasNoCell DEF ActiveFramesConvert, Active, LoneInv, BasicInv, TypeOK
  <2>2. CellsArePinned' /\ OneProxyPerObject'
    BY <2>1 DEF CellsArePinned, OneProxyPerObject, LoneInv, BasicInv, TypeOK
  <2>3. MissingHaveNoEntry' /\ MissingDiffer'
    BY DEF MissingHaveNoEntry, MissingDiffer, Missing, LoneInv, BasicInv, TypeOK
  <2>4. CellsAreNoted'
    BY DEF CellsAreNoted, OnlyLiveCellsArePrivate, WrappingHasCell, LoneInv, BasicInv, TypeOK
  <2>5. WrappingHasCell'
    BY DEF WrappingHasCell, LoneInv, BasicInv, TypeOK
  <2> QED BY <1>0, <2>1, <2>2, <2>3, <2>4, <2>5 DEF LoneInv
<1>5. ASSUME NEW c \in Calls, NewObjectFails(c)
      PROVE  LoneInv'
  <2> USE <1>5 DEF NewObjectFails, Leave, Running, jsHeap, tables, rubyHeap, frames, threads
  <2>1. CellsArePinned' /\ OneProxyPerObject'
    BY DEF LoneInv, CellsArePinned, OneProxyPerObject
  <2>2. MissingHaveNoEntry' /\ MissingDiffer'
    BY DEF MissingHaveNoEntry, MissingDiffer, Missing, LoneInv, BasicInv, TypeOK
  <2>3. CellsAreNoted' /\ WrappingHasCell'
    BY DEF CellsAreNoted, WrappingHasCell, LoneInv, BasicInv, TypeOK
  <2> QED BY <1>0, <2>1, <2>2, <2>3 DEF LoneInv
<1>6. ASSUME NEW c \in Calls, DefineFails(c) \/ WrapFails(c)
      PROVE  LoneInv'
  BY <1>6 DEF DefineFails, WrapFails
<1>7. ASSUME NEW c \in Calls, AddProxy(c)
      PROVE  LoneInv'
  <2> USE <1>7 DEF AddProxy, Running, jsHeap, tables, rubyHeap, frames, threads
  <2>1. CellsArePinned' /\ OneProxyPerObject'
    BY DEF CellsArePinned, OneProxyPerObject, OnlyLiveCellsArePrivate, LoneInv, BasicInv, TypeOK
  <2>2. value[c] \in Objects /\ c \in Missing /\ base[c] \in live /\ private[base[c]] = value[c]
    BY DEF Missing, ActiveFramesConvert, Active, WrappingHasCell, LoneInv, BasicInv, TypeOK
  <2>3. rbids'[value[c]] # None /\ \A r \in Objects \ {value[c]} : rbids'[r] = rbids[r]
    BY <2>2 DEF LoneInv, BasicInv, TypeOK
  <2>4. MissingHaveNoEntry' /\ MissingDiffer'
    <3>1. Missing' = Missing \ {c}
      BY <2>2 DEF Missing, LoneInv, BasicInv, TypeOK
    <3> QED BY <2>2, <2>3, <3>1 DEF MissingHaveNoEntry, MissingDiffer, Missing, Active,
               ActiveFramesConvert, LoneInv, BasicInv, TypeOK
  <2>5. CellsAreNoted'
    <3> SUFFICES ASSUME NEW o \in Cells, private[o] # None
                 PROVE  \/ rbids'[private[o]] # None
                        \/ \E d \in Calls : pc'[d] = "wrap" /\ base'[d] = o
      BY DEF CellsAreNoted
    <3>1. CASE private[o] = value[c]
      BY <2>3, <3>1
    <3>2. CASE private[o] # value[c]
      <4>1. rbids'[private[o]] = rbids[private[o]]
        BY <2>3, <3>2 DEF LoneInv, BasicInv, TypeOK
      <4>2. ASSUME NEW d \in Calls, pc[d] = "wrap", base[d] = o
            PROVE  pc'[d] = "wrap" /\ base'[d] = o
        BY <2>2, <3>2, <4>2 DEF LoneInv, BasicInv, TypeOK
      <4> QED BY <4>1, <4>2 DEF CellsAreNoted, LoneInv
    <3> QED BY <3>1, <3>2
  <2>6. WrappingHasCell'
    BY DEF WrappingHasCell, LoneInv, BasicInv, TypeOK
  <2> QED BY <1>0, <2>1, <2>4, <2>5, <2>6 DEF LoneInv
<1>8. ASSUME NEW c \in Calls, AddDate(c)
      PROVE  LoneInv'
  <2> USE <1>8 DEF AddDate, Running, jsHeap, tables, rubyHeap, frames, threads
  <2>0. PICK date \in Cells \ live :
          /\ live' = live \cup {date}
          /\ rbids' = [rbids EXCEPT ![value[c]] = date]
          /\ base' = [base EXCEPT ![c] = date]
    OBVIOUS
  <2>1. CellsArePinned' /\ OneProxyPerObject'
    BY <2>0 DEF CellsArePinned, OneProxyPerObject, OnlyLiveCellsArePrivate,
                LoneInv, BasicInv, TypeOK
  <2>2. value[c] \in Objects /\ c \in Missing /\ base[c] \in live /\ private[base[c]] = value[c]
    BY DEF Missing, ActiveFramesConvert, Active, WrappingHasCell, LoneInv, BasicInv, TypeOK
  <2>3. rbids'[value[c]] # None /\ \A r \in Objects \ {value[c]} : rbids'[r] = rbids[r]
    BY <2>0, <2>2 DEF LoneInv, BasicInv, TypeOK
  <2>4. MissingHaveNoEntry' /\ MissingDiffer'
    <3>1. Missing' = Missing \ {c}
      BY <2>0, <2>2 DEF Missing, LoneInv, BasicInv, TypeOK
    <3> QED BY <2>2, <2>3, <3>1 DEF MissingHaveNoEntry, MissingDiffer, Missing, Active,
               ActiveFramesConvert, LoneInv, BasicInv, TypeOK
  <2>5. CellsAreNoted'
    <3> SUFFICES ASSUME NEW o \in Cells, private[o] # None
                 PROVE  \/ rbids'[private[o]] # None
                        \/ \E d \in Calls : pc'[d] = "wrap" /\ base'[d] = o
      BY DEF CellsAreNoted
    <3>1. CASE private[o] = value[c]
      BY <2>3, <3>1
    <3>2. CASE private[o] # value[c]
      <4>1. rbids'[private[o]] = rbids[private[o]]
        BY <2>3, <3>2 DEF LoneInv, BasicInv, TypeOK
      <4>2. ASSUME NEW d \in Calls, pc[d] = "wrap", base[d] = o
            PROVE  pc'[d] = "wrap" /\ base'[d] = o
        BY <2>0, <2>2, <3>2, <4>2 DEF LoneInv, BasicInv, TypeOK
      <4> QED BY <4>1, <4>2 DEF CellsAreNoted, LoneInv
    <3> QED BY <3>1, <3>2
  <2>6. WrappingHasCell'
    BY <2>0 DEF WrappingHasCell, LoneInv, BasicInv, TypeOK
  <2> QED BY <1>0, <2>1, <2>4, <2>5, <2>6 DEF LoneInv
<1>9. ASSUME NEW c \in Calls, Return(c)
      PROVE  LoneInv'
  <2> USE <1>9 DEF Return, Leave, Running, jsHeap, tables, rubyHeap, frames, threads
  <2>1. CellsArePinned' /\ OneProxyPerObject'
    BY DEF LoneInv, CellsArePinned, OneProxyPerObject
  <2>2. MissingHaveNoEntry' /\ MissingDiffer'
    BY DEF MissingHaveNoEntry, MissingDiffer, Missing, LoneInv, BasicInv, TypeOK
  <2>3. CellsAreNoted' /\ WrappingHasCell'
    BY DEF CellsAreNoted, WrappingHasCell, LoneInv, BasicInv, TypeOK
  <2> QED BY <1>0, <2>1, <2>2, <2>3 DEF LoneInv
<1>10. ASSUME NEW t \in Threads, StartThread(t) \/ EndThread(t)
      PROVE  LoneInv'
  BY <1>10, <1>0 DEF StartThread, EndThread, jsHeap, tables, rubyHeap, frames, threads,
         LoneInv, CellsArePinned, OneProxyPerObject, MissingHaveNoEntry, Missing, MissingDiffer,
         CellsAreNoted, WrappingHasCell
<1>11. ASSUME NEW r \in Objects, RubyNew(r) \/ RubyDrop(r)
      PROVE  LoneInv'
  BY <1>11, <1>0 DEF RubyNew, RubyDrop, jsHeap, tables, rubyHeap, frames, threads,
         LoneInv, CellsArePinned, OneProxyPerObject, MissingHaveNoEntry, Missing, MissingDiffer,
         CellsAreNoted, WrappingHasCell
<1>12. ASSUME NEW o \in Cells, Unwrap(o) \/ ReadWrappedRuby(o) \/ JSDrop(o)
      PROVE  LoneInv'
  BY <1>12, <1>0 DEF Unwrap, ReadWrappedRuby, JSDrop, jsHeap, tables, rubyHeap, frames, threads,
         LoneInv, CellsArePinned, OneProxyPerObject, MissingHaveNoEntry, Missing, MissingDiffer,
         CellsAreNoted, WrappingHasCell
<1>13. ASSUME NEW t \in Threads, gc_callback(t)
      PROVE  LoneInv'
  BY <1>13, <1>0 DEF gc_callback, jsHeap, tables, rubyHeap, frames, threads,
         LoneInv, CellsArePinned, OneProxyPerObject, MissingHaveNoEntry, Missing, MissingDiffer,
         CellsAreNoted, WrappingHasCell
<1>14. ASSUME RubyCollect
      PROVE  LoneInv'
  BY <1>14, <1>0 DEF RubyCollect, jsHeap, tables, rubyHeap, frames, threads,
         LoneInv, CellsArePinned, OneProxyPerObject, MissingHaveNoEntry, Missing, MissingDiffer,
         CellsAreNoted, WrappingHasCell
<1>15. ASSUME UNCHANGED vars
      PROVE  LoneInv'
  BY <1>15, <1>0 DEF vars, jsHeap, tables, rubyHeap, frames, threads,
         LoneInv, CellsArePinned, OneProxyPerObject, MissingHaveNoEntry, Missing, MissingDiffer,
         CellsAreNoted, WrappingHasCell
<1>16. ASSUME NEW t \in Threads, JSCollect(t)
      PROVE  LoneInv'
  <2> USE <1>16 DEF JSCollect, finalize, jsHeap, tables, rubyHeap, frames, threads
  <2>1. OneProxyPerObject' /\ MissingDiffer'
    BY DEF OneProxyPerObject, MissingDiffer, Missing, LoneInv, BasicInv, TypeOK
  <2>2. MissingHaveNoEntry'
    BY DEF MissingHaveNoEntry, Missing, ActiveFramesConvert, Active, LoneInv, BasicInv, TypeOK
  <2>3. ASSUME NEW o \in Cells, private'[o] # None
        PROVE  /\ private'[o] = private[o] /\ private[o] \in Objects
               /\ \A p \in live \ JSReachable : private[p] # private[o]
    <3>1. private'[o] = private[o] /\ private[o] \in Objects /\ o \in live /\ o \in JSReachable
      BY <2>3 DEF OnlyLiveCellsArePrivate, LoneInv, BasicInv, TypeOK
    <3> QED BY <2>3, <3>1 DEF OneProxyPerObject, LoneInv
  <2>4. CellsArePinned' /\ CellsAreNoted'
    BY <2>3 DEF CellsArePinned, CellsAreNoted, LoneInv, BasicInv, TypeOK
  <2>5. WrappingHasCell'
    <3>1. \A c \in Calls : pc[c] = "wrap" => base[c] \in JSReachable
      BY DEF JSReachable, JSReferenced
    <3> QED BY <3>1 DEF WrappingHasCell, LoneInv, BasicInv, TypeOK
  <2> QED BY <1>0, <2>1, <2>2, <2>4, <2>5 DEF LoneInv
<1> QED BY <1>1, <1>2, <1>3, <1>4, <1>5, <1>6, <1>7, <1>8, <1>9, <1>10, <1>11, <1>12,
       <1>13, <1>14, <1>15, <1>16
       DEF Next, make_js_land_proxy, Program

(* At the start no frame has missed and no cell exists. *)
LEMMA LoneInit == Init => LoneInv
<1> SUFFICES ASSUME Init PROVE LoneInv
  OBVIOUS
<1>1. BasicInv
  BY InitStep
<1>2. CellsArePinned /\ OneProxyPerObject
  BY DEF Init, CellsArePinned, OneProxyPerObject
<1>3. MissingHaveNoEntry /\ MissingDiffer /\ CellsAreNoted /\ WrappingHasCell
  BY DEF Init, Missing, MissingHaveNoEntry, MissingDiffer, CellsAreNoted, WrappingHasCell
<1> QED BY <1>1, <1>2, <1>3 DEF LoneInv

LEMMA LoneInductive ==
    ASSUME Lone
    PROVE  Spec => []LoneInv
<1>1. LoneInv /\ [Next]_vars => LoneInv'
  BY LoneStep
<1> QED BY <1>1, LoneInit, PTL DEF Spec

(* On one thread a Ruby object is never given a second proxy, even when    *)
(* rbids answers with a Date that has died.                                *)
THEOREM OneThreadOneCell ==
    ASSUME Lone
    PROVE  Spec => []OneProxyPerObject
<1>1. LoneInv => OneProxyPerObject
  BY DEF LoneInv
<1> QED BY <1>1, LoneInductive, PTL

(* On one thread the object behind a proxy that a script can reach is      *)
(* alive, whatever objects there are and whenever the collectors run.      *)
THEOREM OneThreadKeepsObjects ==
    ASSUME Lone
    PROVE  Spec => []PrivateIsLive
<1>1. LoneInv => PrivateIsLive
  BY DEF LoneInv, BasicInv, TypeOK, CellsArePinned, PinnedAreLive, PrivateIsLive
<1> QED BY <1>1, LoneInductive, PTL
-----------------------------------------------------------------------------
(* ProxyOf names the one cell of an object, or None. *)
ProxyOfFits ==
    /\ \A o \in live : private[o] # None => ProxyOf(private[o]) = o
    /\ \A r \in Objects : (\A o \in live : private[o] # r) => ProxyOf(r) = None

LEMMA ProxyOfCell == LoneInv => ProxyOfFits
<1> SUFFICES ASSUME LoneInv PROVE ProxyOfFits
  OBVIOUS
<1>1. ASSUME NEW o \in live, private[o] # None
      PROVE  ProxyOf(private[o]) = o
  <2>1. {p \in live : private[p] = private[o]} = {o}
    BY <1>1 DEF LoneInv, OneProxyPerObject
  <2> QED BY <2>1 DEF ProxyOf
<1>2. \A r \in Objects : (\A o \in live : private[o] # r) => ProxyOf(r) = None
  BY DEF ProxyOf
<1> QED BY <1>1, <1>2 DEF ProxyOfFits

LEMMA MadeAreCells == LoneInv => Identity!Made = {o \in live : private[o] # None}
<1> SUFFICES ASSUME LoneInv PROVE Identity!Made = {o \in live : private[o] # None}
  OBVIOUS
<1> USE DEF LoneInv, BasicInv, TypeOK
<1>1. \A r \in Objects : ProxyOf(r) # None => ProxyOf(r) \in live /\ private[ProxyOf(r)] = r
  BY ProxyOfCell, NoneAssumption DEF ProxyOfFits
<1>2. \A o \in live : private[o] # None => private[o] \in Objects /\ ProxyOf(private[o]) = o
  BY ProxyOfCell DEF ProxyOfFits
<1>3. None \notin live /\ None \notin Objects
  BY NoneAssumption
<1> QED BY <1>1, <1>2, <1>3 DEF Identity!Made

(* The cell of an object that has missed is a new one. *)
LEMMA NewProxyWraps ==
    ASSUME Lone, LoneInv, LoneInv', NEW c \in Calls, NewProxy(c)
    PROVE  \E v \in Objects, o \in Cells : Identity!Wrap(v, o)
<1> USE DEF LoneInv, BasicInv, TypeOK
<1>0. ProxyOfFits /\ ProxyOfFits'
  BY ProxyOfCell, PTL
<1>1. PICK o \in Cells : NewCell(c, o) /\ base' = [base EXCEPT ![c] = o]
  BY DEF NewProxy
<1>2. o \notin live /\ live' = live \cup {o} /\ private' = [private EXCEPT ![o] = value[c]]
  BY <1>1 DEF NewCell
<1>3. value[c] \in Objects
  BY DEF NewProxy, Active, ActiveFramesConvert
<1>4. \A p \in live : private[p] # value[c]
  BY MissedHasNoCell DEF NewProxy
<1>5. ProxyOf(value[c]) = None
  BY <1>0, <1>3, <1>4 DEF ProxyOfFits
<1>6. o \notin Identity!Made
  BY <1>2, MadeAreCells
<1>7. \A r \in Objects : r = value[c] => ProxyOf(r)' = o
  <2>1. private'[o] = value[c] /\ o \in live' /\ private'[o] # None /\ value' = value
    BY <1>2, <1>3, NoneAssumption DEF NewProxy
  <2> QED BY <1>0, <2>1 DEF ProxyOfFits
<1>8. ASSUME NEW r \in Objects \ {value[c]}
      PROVE  ProxyOf(r)' = ProxyOf(r)
  <2>1. CASE \E p \in live : private[p] = r
    BY <1>0, <1>2, <2>1, NoneAssumption DEF ProxyOfFits
  <2>2. CASE \A p \in live : private[p] # r
    <3>1. \A p \in live' : private'[p] # r
      BY <1>2, <2>2
    <3> QED BY <1>0, <2>2, <3>1 DEF ProxyOfFits
  <2> QED BY <2>1, <2>2
<1>9. JSReachable' \cap live' = (JSReachable \cap live) \cup {o}
  <2>1. jsHeld' = jsHeld /\ wrappedRuby' = wrappedRuby /\ pc' = [pc EXCEPT ![c] = "wrap"]
    BY DEF NewProxy
  <2>2. JSReferenced' = JSReferenced \cup {o}
    BY <1>1, <2>1 DEF JSReferenced, NewProxy
  <2>3. wrappedRuby[o] = None
    BY <1>1, <1>2 DEF OnlyLiveCellsAreDates, NewCell
  <2>4. JSReferenced \subseteq Cells \cup {None}
    BY DEF JSReferenced
  <2> QED BY <1>2, <2>1, <2>2, <2>3, <2>4, NoneAssumption DEF JSReachable
<1>10. {p \in JSReachable' \cap live' : private'[p] # None}
        = {p \in JSReachable \cap live : private[p] # None} \cup {o}
  BY <1>2, <1>3, <1>9, NoneAssumption
<1>11. [r \in Objects |-> ProxyOf(r)]' = [[r \in Objects |-> ProxyOf(r)] EXCEPT ![value[c]] = o]
  <2>1. \A r \in Objects : ProxyOf(r)' = IF r = value[c] THEN o ELSE ProxyOf(r)
    BY <1>7, <1>8
  <2>2. [r \in Objects |-> ProxyOf(r)]' = [r \in Objects |-> IF r = value[c] THEN o ELSE ProxyOf(r)]
    BY <2>1
  <2> QED BY <1>3, <2>2
<1> QED BY <1>3, <1>5, <1>6, <1>10, <1>11 DEF Identity!Wrap

(* A collection forgets the objects of the cells that nobody can reach. *)
LEMMA CollectForgets ==
    ASSUME Lone, LoneInv, LoneInv', NEW t \in Threads, JSCollect(t)
    PROVE  \E lost \in SUBSET Objects : Identity!Forget(lost)
<1> USE DEF LoneInv, BasicInv, TypeOK
<1> DEFINE dead == live \ JSReachable
           lost == {private[o] : o \in dead} \ {None}
<1>0. ProxyOfFits /\ ProxyOfFits'
  BY ProxyOfCell, PTL
<1>1. live' = live \ dead /\ private' = [o \in Cells |-> IF o \in dead THEN None ELSE private[o]]
  BY DEF JSCollect
<1>2. lost \in SUBSET Objects
  OBVIOUS
<1>3. \A r \in lost : ProxyOf(r) \in dead
  BY <1>0 DEF ProxyOfFits
<1>4. \A r \in lost : ProxyOf(r)' = None
  <2> TAKE r \in lost
  <2>1. PICK o \in dead : private[o] = r /\ r # None
    OBVIOUS
  <2>2. \A p \in live' : private'[p] # r
    BY <1>1, <2>1 DEF OneProxyPerObject
  <2> QED BY <1>0, <1>2, <2>2 DEF ProxyOfFits
<1>5. ASSUME NEW r \in Objects \ lost
      PROVE  ProxyOf(r)' = ProxyOf(r)
  <2>1. CASE \E p \in live : private[p] = r
    <3>1. PICK p \in live : private[p] = r
      BY <2>1
    <3>2. r # None /\ p \in live' /\ private'[p] = r
      BY <1>1, <3>1, NoneAssumption
    <3> QED BY <1>0, <3>1, <3>2 DEF ProxyOfFits
  <2>2. CASE \A p \in live : private[p] # r
    <3>1. \A p \in live' : private'[p] # r
      BY <1>1, <2>2
    <3> QED BY <1>0, <2>2, <3>1 DEF ProxyOfFits
  <2> QED BY <2>1, <2>2
<1>6. JSReachable' \cap live' = JSReachable \cap live
  <2>1. JSReferenced' = JSReferenced
    BY DEF JSCollect, JSReferenced, frames
  <2>2. JSReferenced \cap live' = JSReferenced \cap live
    BY <1>1 DEF JSReachable
  <2>3. \A p \in live' : wrappedRuby'[p] = wrappedRuby[p]
    BY <1>1 DEF JSCollect
  <2> QED BY <1>1, <2>1, <2>2, <2>3 DEF JSReachable
<1>7. {p \in JSReachable' \cap live' : private'[p] # None}
        = {p \in JSReachable \cap live : private[p] # None}
  BY <1>1, <1>6
<1>8. [r \in Objects |-> ProxyOf(r)]'
        = [r \in Objects |-> IF r \in lost THEN None ELSE [q \in Objects |-> ProxyOf(q)][r]]
  BY <1>4, <1>5
<1>9. \A r \in lost : [q \in Objects |-> ProxyOf(q)][r]
                        \notin {p \in JSReachable \cap live : private[p] # None}
  BY <1>2, <1>3
<1> HIDE DEF lost
<1> QED BY <1>2, <1>7, <1>8, <1>9 DEF Identity!Forget

(* A step that makes and frees no proxy can only change what is in use:    *)
(* the Date in front of a proxy is none.                                   *)
SameProxies == /\ live \subseteq live' /\ UNCHANGED private
               /\ \A o \in live' \ live : private[o] = None

LEMMA OthersUse ==
    ASSUME LoneInv, LoneInv', SameProxies
    PROVE  Identity!Use
<1>1. [r \in Objects |-> ProxyOf(r)]' = [r \in Objects |-> ProxyOf(r)]
  <2>1. ASSUME NEW r \in Objects PROVE ProxyOf(r)' = ProxyOf(r)
    <3>1. {o \in live' : private'[o] = r} = {o \in live : private[o] = r}
      BY NoneAssumption DEF SameProxies
    <3> DEFINE Pick(S) == IF S = {} THEN None ELSE CHOOSE o \in S : TRUE
    <3>2. /\ ProxyOf(r) = Pick({o \in live : private[o] = r})
          /\ ProxyOf(r)' = Pick({o \in live' : private'[o] = r})
      BY DEF ProxyOf
    <3> HIDE DEF Pick
    <3> QED BY <3>1, <3>2
  <2> QED BY <2>1
<1>2. (Identity!Made = {o \in live : private[o] # None})'
  BY MadeAreCells, PTL
<1>3. Identity!Made' = Identity!Made
  BY <1>1 DEF Identity!Made
<1>4. {o \in JSReachable \cap live : private[o] # None}' \in SUBSET Identity!Made
  BY <1>2, <1>3
<1> QED BY <1>1, <1>4 DEF Identity!Use

LEMMA IdentityStep ==
    ASSUME Lone, LoneInv, [Next]_vars
    PROVE  Identity!Next
<1>1. LoneInv'
  BY LoneStep
<1>2. CASE SameProxies
  BY <1>1, <1>2, OthersUse DEF Identity!Next
<1>3. ASSUME NEW c \in Calls, NewProxy(c) PROVE Identity!Next
  BY <1>1, <1>3, NewProxyWraps DEF Identity!Next
<1>4. ASSUME NEW t \in Threads, JSCollect(t) PROVE Identity!Next
  BY <1>1, <1>4, CollectForgets DEF Identity!Next
<1>5. ASSUME NEW c \in Calls, AddDate(c) PROVE SameProxies
  BY <1>5 DEF AddDate, SameProxies, OnlyLiveCellsArePrivate, LoneInv, BasicInv
<1>6. UNCHANGED <<live, private>> => SameProxies
  BY DEF SameProxies
<1>7. \/ UNCHANGED <<live, private>>
      \/ \E c \in Calls : NewProxy(c) \/ AddDate(c)
      \/ \E t \in Threads : JSCollect(t)
  BY DEF Lone, Next, make_js_land_proxy, Program, Lookup, Hit, Miss,
         NewObjectFails, DefineFails, AddProxy, WrapFails, Return,
         StartThread, EndThread, RubyNew, RubyDrop, Unwrap, ReadWrappedRuby, JSDrop,
         gc_callback, RubyCollect, vars, jsHeap
<1> QED BY <1>2, <1>3, <1>4, <1>5, <1>6, <1>7

(* On one thread the proxies are an identity map: as long as a script can  *)
(* reach the proxy of an object, the object has that proxy and no other    *)
(* (js_land_proxy.c:562-618).                                              *)
THEOREM OneThreadIdentity ==
    ASSUME Lone
    PROVE  Spec => ImplementsIdentity
<1>1. Init => Identity!Init
  <2> SUFFICES ASSUME Init PROVE Identity!Init
    OBVIOUS
  <2>1. \A r \in Objects : ProxyOf(r) = None
    BY NoneAssumption DEF Init, ProxyOf
  <2> QED BY <2>1 DEF Init, Identity!Init
<1>2. LoneInv /\ [Next]_vars => [Identity!Next]_(Identity!vars)
  BY IdentityStep
<1> QED BY <1>1, <1>2, LoneInductive, PTL DEF Spec, Identity!Spec, ImplementsIdentity
=============================================================================
