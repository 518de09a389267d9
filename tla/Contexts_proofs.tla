-------------------------- MODULE Contexts_proofs --------------------------
(***************************************************************************)
(* The invariant of the thread-local context maps, for any number of       *)
(* threads, runtimes, object_ids and Contexts, and any failures.           *)
(* IInv adds to the properties what they rest on: who owns an object_id,   *)
(* what an entry, a call and the program keep alive, and that nobody else  *)
(* has seen a runtime that is being initialized.                           *)
(***************************************************************************)
EXTENDS Contexts, TLAPS

(* The records of the two kinds of objects. *)
RuntimeRecord == [js : {None, "null", "live", "destroyed", "freed", "misused"},
                  id : Ids \cup {None}, global : ContextObjects \cup {None}]
ContextRecord == [of : Runtimes \cup {None}, js : {None, "live", "destroyed"},
                  global : ContextObjects \cup {None}]

(* An entry: a Context in the map of a thread, under an object_id. *)
HasAt(t, i) == map[t] # NoMap /\ map[t][i] # None

(* Two runtimes that exist at the same time have different object_ids. *)
IdInv == \A r, s \in Runtimes : runtime[r].id # None /\ runtime[r].id = runtime[s].id => r = s

(* An entry is a live Context of the live runtime that has the id now. *)
EntryInv ==
    \A t \in Threads, i \in Ids : HasAt(t, i) =>
        /\ t \in alive
        /\ context[map[t][i]].js = "live"
        /\ context[map[t][i]].global # None
        /\ context[map[t][i]].of \in Runtimes
        /\ runtime[context[map[t][i]].of].id = i
        /\ runtime[context[map[t][i]].of].js = "live"

(* What the program holds is live, and so is what a call is about. *)
HeldInv == \A r \in held : runtime[r].js = "live" /\ runtime[r].id # None
CallInv ==
    \A t \in Threads : call[t] # Idle =>
        /\ t \in alive
        /\ call[t].op # None
        /\ call[t].r \in Runtimes
        /\ runtime[call[t].r].js = "live"
        /\ runtime[call[t].r].id # None

(* The Contexts of a runtime the program holds have its global object. *)
GlobalInv ==
    \A r \in held :
        /\ runtime[r].global # None
        /\ \A t \in Threads, i \in Ids :
             HasAt(t, i) /\ context[map[t][i]].of = r
                 => context[map[t][i]].global = runtime[r].global

(* Nobody else has seen a runtime that is being initialized. *)
NewInv ==
    \A t \in Threads : call[t].op = "initialize" =>
        /\ call[t].r \notin held
        /\ \A u \in Threads \ {t} :
             /\ call[u].r # call[t].r
             /\ \A i \in Ids : HasAt(u, i) => context[map[u][i]].of # call[t].r

IInv == /\ TypeOK /\ IdInv /\ EntryInv /\ HeldInv /\ CallInv
        /\ ContextsAreNotShared /\ GlobalInv /\ NewInv
-----------------------------------------------------------------------------

(* A new runtime has an id of its own, and nobody has used it. *)
LEMMA NewRuntimeStep ==
    ASSUME IInv, NEW t \in Threads, NEW r \in Runtimes, NEW i \in Ids, NewRuntime(t, r, i)
    PROVE  IInv'
<1> USE ContextsAssumption DEF IInv, NewRuntime, Allocated
<1>1. TypeOK'
  BY DEF TypeOK
<1>2. IdInv'
  BY DEF TypeOK, IdInv
<1>3. EntryInv'
  BY DEF TypeOK, EntryInv, HasAt
<1>4. HeldInv'
  BY DEF TypeOK, HeldInv
<1>5. CallInv'
  BY DEF TypeOK, CallInv, Idle
<1>6. ContextsAreNotShared'
  BY DEF TypeOK, ContextsAreNotShared, HasAt
<1>7. GlobalInv'
  BY DEF TypeOK, GlobalInv, HasAt, HeldInv
<1>8. NewInv'
  BY DEF TypeOK, NewInv, HasAt, EntryInv, HeldInv, CallInv, Idle
<1> QED BY <1>1, <1>2, <1>3, <1>4, <1>5, <1>6, <1>7, <1>8 DEF IInv

(* A half-made runtime is never given out. *)
LEMMA NewRuntimeFailsStep ==
    ASSUME IInv, NEW t \in Threads, NEW r \in Runtimes, NEW i \in Ids,
           NEW js \in {"null", "destroyed"}, NewRuntimeFails(t, r, i, js)
    PROVE  IInv'
<1> USE ContextsAssumption DEF IInv, NewRuntimeFails, Allocated
<1>1. TypeOK'
  BY DEF TypeOK
<1>2. IdInv'
  BY DEF TypeOK, IdInv
<1>3. EntryInv'
  BY DEF TypeOK, EntryInv, HasAt
<1>4. HeldInv'
  BY DEF TypeOK, HeldInv
<1>5. CallInv'
  BY DEF TypeOK, CallInv, Idle
<1>6. ContextsAreNotShared'
  BY DEF TypeOK, ContextsAreNotShared, HasAt
<1>7. GlobalInv'
  BY DEF TypeOK, GlobalInv, HasAt, HeldInv
<1>8. NewInv'
  BY DEF TypeOK, NewInv, HasAt
<1> QED BY <1>1, <1>2, <1>3, <1>4, <1>5, <1>6, <1>7, <1>8 DEF IInv

(* A call is about a runtime that is held, so it is live. *)
LEMMA UseRuntimeStep ==
    ASSUME IInv, NEW t \in Threads, NEW r \in Runtimes, NEW op \in {"use", "gc"}, UseRuntime(t, r, op)
    PROVE  IInv'
<1> USE ContextsAssumption DEF IInv, UseRuntime
<1>1. TypeOK'
  BY DEF TypeOK
<1>2. IdInv'
  BY DEF TypeOK, IdInv
<1>3. EntryInv'
  BY DEF TypeOK, EntryInv, HasAt
<1>4. HeldInv'
  BY DEF TypeOK, HeldInv
<1>5. CallInv'
  BY DEF TypeOK, CallInv, Idle, HeldInv
<1>6. ContextsAreNotShared'
  BY DEF TypeOK, ContextsAreNotShared, HasAt
<1>7. GlobalInv'
  BY DEF TypeOK, GlobalInv, HasAt
<1>8. NewInv'
  BY DEF TypeOK, NewInv, HasAt
<1> QED BY <1>1, <1>2, <1>3, <1>4, <1>5, <1>6, <1>7, <1>8 DEF IInv

(* A new map has no entries. *)
LEMMA SetKeyStep ==
    ASSUME IInv, NEW t \in Threads, SetKey(t)
    PROVE  IInv'
<1> USE ContextsAssumption DEF IInv, SetKey
<1>1. TypeOK'
  BY DEF TypeOK
<1>2. IdInv'
  BY DEF TypeOK, IdInv
<1>3. EntryInv'
  BY DEF TypeOK, EntryInv, HasAt
<1>4. HeldInv'
  BY DEF TypeOK, HeldInv
<1>5. CallInv'
  BY DEF TypeOK, CallInv, Idle
<1>6. ContextsAreNotShared'
  BY DEF TypeOK, ContextsAreNotShared, HasAt
<1>7. GlobalInv'
  BY DEF TypeOK, GlobalInv, HasAt
<1>8. NewInv'
  BY DEF TypeOK, NewInv, HasAt
<1> QED BY <1>1, <1>2, <1>3, <1>4, <1>5, <1>6, <1>7, <1>8 DEF IInv

(* A new Context is not in any map yet. *)
LEMMA NewContextStep ==
    ASSUME IInv, NEW t \in Threads, NEW c \in ContextObjects, NewContext(t, c)
    PROVE  IInv'
<1> USE ContextsAssumption DEF IInv, NewContext, Fresh, Forgotten, Initialized,
       NoContext, Entry
<1>1. TypeOK'
  <2> USE DEF TypeOK
  <2>1. call[t].r \in Runtimes /\ runtime[call[t].r].id \in Ids
    BY DEF CallInv, Idle
  <2>2. Initialized(call[t].r, c) \in ContextRecord
    BY <2>1 DEF ContextRecord
  <2>3. context' \in [ContextObjects -> ContextRecord]
    BY <2>2 DEF ContextRecord
  <2>4. map[t] \in [Ids -> ContextObjects \cup {None}]
    OBVIOUS
  <2>5. map' \in [Threads -> {NoMap} \cup [Ids -> ContextObjects \cup {None}]]
    BY <2>1, <2>4
  <2> QED BY <2>3, <2>5 DEF ContextRecord
<1>2. IdInv'
  BY DEF TypeOK, IdInv
<1>3. EntryInv'
  BY DEF TypeOK, EntryInv, HasAt, CallInv, Idle
<1>4. HeldInv'
  BY DEF TypeOK, HeldInv
<1>5. CallInv'
  BY DEF TypeOK, CallInv, Idle
<1>6. ContextsAreNotShared'
  BY DEF TypeOK, ContextsAreNotShared, HasAt, EntryInv
<1>7. GlobalInv'
  BY DEF TypeOK, GlobalInv, HasAt
<1>8. NewInv'
  BY DEF TypeOK, NewInv, HasAt, EntryInv, CallInv, Idle
<1> QED BY <1>1, <1>2, <1>3, <1>4, <1>5, <1>6, <1>7, <1>8 DEF IInv

(* The Context that is given up is not in any map. *)
LEMMA ExtensionsFailStep ==
    ASSUME IInv, NEW t \in Threads, NEW c \in ContextObjects, ExtensionsFail(t, c)
    PROVE  IInv'
<1> USE ContextsAssumption DEF IInv, ExtensionsFail, Fresh, Forgotten, Initialized,
       NoContext, Entry
<1>1. TypeOK'
  <2> USE DEF TypeOK
  <2>1. call[t].r \in Runtimes /\ runtime[call[t].r].id \in Ids
    BY DEF CallInv, Idle
  <2>2. Initialized(call[t].r, c) \in ContextRecord
    BY <2>1 DEF ContextRecord
  <2>3. context' \in [ContextObjects -> ContextRecord]
    BY <2>2 DEF ContextRecord
  <2>4. call' \in [Threads -> [op : {None, "initialize", "use", "gc", "raise"}, r : Runtimes \cup {None}]]
    OBVIOUS
  <2> QED BY <2>3, <2>4 DEF ContextRecord
<1>2. IdInv'
  BY DEF TypeOK, IdInv
<1>3. EntryInv'
  BY DEF TypeOK, EntryInv, HasAt
<1>4. HeldInv'
  BY DEF TypeOK, HeldInv
<1>5. CallInv'
  BY DEF TypeOK, CallInv, Idle
<1>6. ContextsAreNotShared'
  BY DEF TypeOK, ContextsAreNotShared, HasAt
<1>7. GlobalInv'
  BY DEF TypeOK, GlobalInv, HasAt
<1>8. NewInv'
  BY DEF TypeOK, NewInv, HasAt
<1> QED BY <1>1, <1>2, <1>3, <1>4, <1>5, <1>6, <1>7, <1>8 DEF IInv

(* A call ends. *)
LEMMA NewContextFailsStep ==
    ASSUME IInv, NEW t \in Threads, NewContextFails(t)
    PROVE  IInv'
<1> USE ContextsAssumption DEF IInv, NewContextFails
<1>1. TypeOK'
  BY DEF TypeOK, Idle
<1>2. IdInv'
  BY DEF TypeOK, IdInv
<1>3. EntryInv'
  BY DEF TypeOK, EntryInv, HasAt
<1>4. HeldInv'
  BY DEF TypeOK, HeldInv
<1>5. CallInv'
  BY DEF TypeOK, CallInv, Idle
<1>6. ContextsAreNotShared'
  BY DEF TypeOK, ContextsAreNotShared, HasAt
<1>7. GlobalInv'
  BY DEF TypeOK, GlobalInv, HasAt
<1>8. NewInv'
  BY DEF TypeOK, NewInv, HasAt, CallInv, Idle
<1> QED BY <1>1, <1>2, <1>3, <1>4, <1>5, <1>6, <1>7, <1>8 DEF IInv

(* Setting the global object of a runtime keeps its type. *)
LEMMA SetGlobal ==
    ASSUME NEW rec \in RuntimeRecord, NEW g \in ContextObjects \cup {None}
    PROVE  [rec EXCEPT !.global = g] \in RuntimeRecord
BY DEF RuntimeRecord

(* A runtime that is given out has the global object of its only Context. *)
LEMMA FinishStep ==
    ASSUME IInv, NEW t \in Threads, Finish(t)
    PROVE  IInv'
<1> USE ContextsAssumption DEF IInv, Finish, HasEntry, Entry
<1>1. TypeOK'
  <2> USE DEF TypeOK
  <2> DEFINE r == call[t].r
  <2>1. r \in Runtimes /\ runtime[r].id \in Ids
    BY DEF CallInv, Idle
  <2>2. map[t][runtime[r].id] \in ContextObjects
    BY <2>1
  <2>3. context[map[t][runtime[r].id]].global \in ContextObjects \cup {None}
    BY <2>2
  <2> DEFINE new == [runtime[r] EXCEPT !.global = context[map[t][runtime[r].id]].global]
  <2>4. new \in RuntimeRecord
    BY <2>1, <2>3, SetGlobal DEF RuntimeRecord
  <2>5. runtime' \in [Runtimes -> RuntimeRecord]
    <3>1. runtime' = runtime \/ runtime' = [runtime EXCEPT ![r] = new]
      BY <2>1
    <3> HIDE DEF new
    <3> QED BY <2>1, <2>4, <3>1 DEF RuntimeRecord
  <2>6. held' \subseteq Runtimes
    BY <2>1
  <2>7. garbage' \subseteq Runtimes
    BY <2>1
  <2>8. call' \in [Threads -> [op : {None, "initialize", "use", "gc", "raise"}, r : Runtimes \cup {None}]]
    BY DEF Idle
  <2> QED BY <2>5, <2>6, <2>7, <2>8 DEF RuntimeRecord
<1>2. IdInv'
  BY DEF TypeOK, IdInv
<1>3. EntryInv'
  BY DEF TypeOK, EntryInv, HasAt
<1>4. HeldInv'
  BY DEF TypeOK, HeldInv, CallInv, Idle
<1>5. CallInv'
  BY DEF TypeOK, CallInv, Idle
<1>6. ContextsAreNotShared'
  BY DEF TypeOK, ContextsAreNotShared, HasAt
<1>7. GlobalInv'
  <2> DEFINE r == call[t].r
             entry == map[t][runtime[r].id]
  <2>1. CASE call[t].op = "initialize"
    <3>1. r \in Runtimes /\ runtime[r].id \in Ids /\ r \notin held
      BY <2>1 DEF TypeOK, CallInv, Idle, NewInv
    <3>2. HasAt(t, runtime[r].id)
      BY DEF HasAt
    <3>3. context[entry].global # None
      BY <3>1, <3>2 DEF EntryInv
    <3>4. runtime'[r].global = context[entry].global
      BY <2>1, <3>1 DEF TypeOK
    <3>5. \A s \in Runtimes \ {r} : runtime'[s] = runtime[s]
      BY <2>1, <3>1 DEF TypeOK
    <3>6. \A u \in Threads, i \in Ids :
            HasAt(u, i) /\ context[map[u][i]].of = r => map[u][i] = entry
      BY <2>1 DEF NewInv, EntryInv
    <3>7. held' = held \cup {r} /\ map' = map /\ context' = context
      BY <2>1
    <3> HIDE DEF r, entry
    <3> QED BY <3>1, <3>3, <3>4, <3>5, <3>6, <3>7 DEF TypeOK, GlobalInv, HasAt
  <2>2. CASE call[t].op # "initialize"
    BY <2>2 DEF GlobalInv, HasAt
  <2> QED BY <2>1, <2>2
<1>8. NewInv'
  BY DEF TypeOK, NewInv, HasAt, CallInv, Idle
<1> QED BY <1>1, <1>2, <1>3, <1>4, <1>5, <1>6, <1>7, <1>8 DEF IInv

(* The program holds less. *)
LEMMA DropStep ==
    ASSUME IInv, NEW r \in Runtimes, Drop(r)
    PROVE  IInv'
<1> USE ContextsAssumption DEF IInv, Drop
<1>1. TypeOK'
  BY DEF TypeOK
<1>2. IdInv'
  BY DEF TypeOK, IdInv
<1>3. EntryInv'
  BY DEF TypeOK, EntryInv, HasAt
<1>4. HeldInv'
  BY DEF TypeOK, HeldInv
<1>5. CallInv'
  BY DEF TypeOK, CallInv, Idle
<1>6. ContextsAreNotShared'
  BY DEF TypeOK, ContextsAreNotShared, HasAt
<1>7. GlobalInv'
  BY DEF TypeOK, GlobalInv, HasAt
<1>8. NewInv'
  BY DEF TypeOK, NewInv, HasAt
<1> QED BY <1>1, <1>2, <1>3, <1>4, <1>5, <1>6, <1>7, <1>8 DEF IInv

(* The entries of a thread end with it. *)
LEMMA ThreadDiesStep ==
    ASSUME IInv, NEW t \in Threads, ThreadDies(t)
    PROVE  IInv'
<1> USE ContextsAssumption DEF IInv, ThreadDies
<1>1. TypeOK'
  BY DEF TypeOK
<1>2. IdInv'
  BY DEF TypeOK, IdInv
<1>3. EntryInv'
  BY DEF TypeOK, EntryInv, HasAt
<1>4. HeldInv'
  BY DEF TypeOK, HeldInv
<1>5. CallInv'
  BY DEF TypeOK, CallInv, Idle
<1>6. ContextsAreNotShared'
  BY DEF TypeOK, ContextsAreNotShared, HasAt
<1>7. GlobalInv'
  BY DEF TypeOK, GlobalInv, HasAt
<1>8. NewInv'
  BY DEF TypeOK, NewInv, HasAt
<1> QED BY <1>1, <1>2, <1>3, <1>4, <1>5, <1>6, <1>7, <1>8 DEF IInv

(* What is destroyed is in no map, in no call and not held. *)
LEMMA DeallocateStep ==
    ASSUME IInv, NEW r \in Runtimes, Deallocate(r)
    PROVE  IInv'
<1> USE ContextsAssumption DEF IInv, Deallocate, Pinned, Allocated
<1>1. TypeOK'
  <2> USE DEF TypeOK
  <2>1. context' \in [ContextObjects -> ContextRecord]
    BY DEF ContextRecord
  <2> DEFINE new == [js |-> IF runtime[r].js = "live" THEN "freed" ELSE "misused",
                     id |-> None, global |-> runtime[r].global]
  <2>2. new \in RuntimeRecord
    BY DEF RuntimeRecord
  <2>3. runtime' = [runtime EXCEPT ![r] = new]
    OBVIOUS
  <2> HIDE DEF new
  <2>4. runtime' \in [Runtimes -> RuntimeRecord]
    BY <2>2, <2>3 DEF RuntimeRecord
  <2> QED BY <2>1, <2>4 DEF ContextRecord, RuntimeRecord
<1>2. IdInv'
  BY DEF TypeOK, IdInv
<1>3. EntryInv'
  BY DEF TypeOK, EntryInv, HasAt
<1>4. HeldInv'
  BY DEF TypeOK, HeldInv
<1>5. CallInv'
  BY DEF TypeOK, CallInv, Idle
<1>6. ContextsAreNotShared'
  BY DEF TypeOK, ContextsAreNotShared, HasAt
<1>7. GlobalInv'
  BY DEF TypeOK, GlobalInv, HasAt
<1>8. NewInv'
  BY DEF TypeOK, NewInv, HasAt
<1> QED BY <1>1, <1>2, <1>3, <1>4, <1>5, <1>6, <1>7, <1>8 DEF IInv

(* Nothing changes. *)
LEMMA StutterStep ==
    ASSUME IInv, UNCHANGED vars
    PROVE  IInv'
BY DEF vars, IInv, TypeOK, IdInv, EntryInv, HeldInv, CallInv, GlobalInv, NewInv,
       ContextsAreNotShared, HasAt

(* At the start no runtime is allocated and no map has an entry. *)
LEMMA InitStep == Init => IInv
<1> SUFFICES ASSUME Init PROVE IInv
  OBVIOUS
<1> USE ContextsAssumption DEF Init, NoRuntime, NoContext
<1>1. TypeOK
  BY DEF TypeOK, Idle
<1>2. \A t \in Threads, i \in Ids : ~HasAt(t, i)
  BY DEF HasAt
<1>3. IdInv /\ HeldInv /\ CallInv /\ NewInv
  BY DEF IdInv, HeldInv, CallInv, NewInv, Idle
<1>4. EntryInv /\ GlobalInv /\ ContextsAreNotShared
  BY <1>2 DEF EntryInv, GlobalInv, ContextsAreNotShared
<1> QED BY <1>1, <1>3, <1>4 DEF IInv

(* Every step keeps the invariant. *)
LEMMA Inductive == Spec => []IInv
<1>1. Init => IInv
  BY InitStep
<1>2. IInv /\ [Next]_vars => IInv'
  <2> SUFFICES ASSUME IInv, [Next]_vars PROVE IInv'
    OBVIOUS
  <2>1. CASE UNCHANGED vars
    BY <2>1, StutterStep
  <2>2. ASSUME NEW t \in Threads, NEW r \in Runtimes, NEW i \in Ids, NewRuntime(t, r, i)
        PROVE  IInv'
    BY <2>2, NewRuntimeStep
  <2>3. ASSUME NEW t \in Threads, NEW r \in Runtimes, NEW i \in Ids,
               NEW js \in {"null", "destroyed"}, NewRuntimeFails(t, r, i, js)
        PROVE  IInv'
    BY <2>3, NewRuntimeFailsStep
  <2>4. ASSUME NEW t \in Threads, NEW r \in Runtimes, NEW op \in {"use", "gc"},
               UseRuntime(t, r, op)
        PROVE  IInv'
    BY <2>4, UseRuntimeStep
  <2>5. ASSUME NEW t \in Threads, Proceed(t)
        PROVE  IInv'
    BY <2>5, SetKeyStep, FinishStep, NewContextStep DEF Proceed
  <2>6. ASSUME NEW t \in Threads, ThreadDies(t)
        PROVE  IInv'
    BY <2>6, ThreadDiesStep
  <2>7. ASSUME NEW t \in Threads, NewContextFails(t)
        PROVE  IInv'
    BY <2>7, NewContextFailsStep
  <2>8. ASSUME NEW t \in Threads, NEW c \in ContextObjects, ExtensionsFail(t, c)
        PROVE  IInv'
    BY <2>8, ExtensionsFailStep
  <2>9. ASSUME NEW r \in Runtimes, Drop(r) \/ Deallocate(r)
        PROVE  IInv'
    BY <2>9, DropStep, DeallocateStep
  <2> QED BY <2>1, <2>2, <2>3, <2>4, <2>5, <2>6, <2>7, <2>8, <2>9 DEF Next
<1> QED BY <1>1, <1>2, PTL DEF Spec
-----------------------------------------------------------------------------
(* The variables keep their types. *)
THEOREM ContextsTypeCorrect == Spec => []TypeOK
<1>1. IInv => TypeOK
  BY DEF IInv
<1> QED BY <1>1, Inductive, PTL

(* A thread is given a context of the runtime it asks for, although the    *)
(* object_ids under which contexts are kept are given out again.           *)
THEOREM ContextsBelong == Spec => []ContextIsOfItsRuntime
<1>1. IInv => ContextIsOfItsRuntime
  <2> SUFFICES ASSUME IInv, NEW t \in Threads, NEW r \in Runtimes, Allocated(r), HasEntry(t, r)
               PROVE  context[Entry(t, r)].of = r
    BY DEF ContextIsOfItsRuntime
  <2>1. runtime[r].id \in Ids /\ HasAt(t, runtime[r].id)
    BY DEF IInv, TypeOK, Allocated, HasEntry, Entry, HasAt
  <2> QED BY <2>1, ContextsAssumption DEF IInv, IdInv, EntryInv, Entry
<1> QED BY <1>1, Inductive, PTL

(* No runtime is destroyed under a thread that may use it again: each      *)
(* entry of a living thread is a live JSContext of a live JSRuntime.       *)
THEOREM EntriesStayUsable == Spec => []EntriesAreUsable
<1>1. IInv => EntriesAreUsable
  BY DEF IInv, TypeOK, EntryInv, HasAt, EntriesAreUsable
<1> QED BY <1>1, Inductive, PTL

(* No JSContext ever serves two threads. *)
THEOREM ContextsStayUnshared == Spec => []ContextsAreNotShared
<1>1. IInv => ContextsAreNotShared
  BY DEF IInv
<1> QED BY <1>1, Inductive, PTL

(* All threads see the same globals of a runtime the program holds. *)
THEOREM OneGlobalForAll == Spec => []OneGlobal
<1>1. IInv => OneGlobal
  <2> SUFFICES ASSUME IInv, NEW t \in Threads, NEW r \in held, HasEntry(t, r)
               PROVE  context[Entry(t, r)].global = runtime[r].global
    BY DEF OneGlobal
  <2>1. r \in Runtimes /\ runtime[r].id \in Ids /\ HasAt(t, runtime[r].id)
    BY DEF IInv, TypeOK, HeldInv, HasEntry, Entry, HasAt
  <2>2. context[Entry(t, r)].of = r
    BY <2>1, ContextsAssumption DEF IInv, IdInv, EntryInv, Entry
  <2> QED BY <2>1, <2>2 DEF IInv, GlobalInv, Entry
<1> QED BY <1>1, Inductive, PTL
=============================================================================
