--------------------------- MODULE PropertyAccess ---------------------------
(***************************************************************************)
(* One named property of a Ruby object that script sees through a          *)
(* JSLandProxy.  Ruby may present the name in several ways; script reads   *)
(* and writes it through js_land_proxy.c's resolve, get and set, between   *)
(* which the engine keeps properties, with slots, of its own.              *)
(***************************************************************************)
EXTENDS SequencesExt

CONSTANTS
    Values,
    SetterFails   \* may the Ruby code that set calls raise?

\* Mutants: attributes, methods before what comes first.
OrderAttributeFirst == <<"const", "global", "attribute", "autovivified", "key", "method">>
OrderMethodFirst == <<"autovivified", "const", "global", "attribute", "method", "key">>

(* In the order in which get asks for them. *)
Order == <<"autovivified", "const", "global", "attribute", "key", "method">>
Sources == ToSet(Order)
Absent == "absent"
undefined == "undefined"

ASSUME PropertyAccessAssumption == SetterFails \in BOOLEAN /\ Absent \notin Values

VARIABLES
    object,  \* what never changes of it: does it respond to "[]=" (indexed), to
             \* "[]" and "key?" (keyed), may Ruby take away what it presents (drops)?
    face,    \* what Ruby presents under the name, by source
    writer,  \* the method "name=": "none", of arity "one", or of "other" arity
    own,     \* the property the proxy itself has: its getter and its slot
    last     \* the last access of script, until Ruby or script does more

vars == <<object, face, writer, own, last>>

NoOwn == [getter |-> "none", slot |-> undefined]
Nothing == [op |-> "none", value |-> undefined]
Access(op, v) == [op |-> op, value |-> v]

Presents(s) == face[s] # Absent

(* respond_to_p *)
Responds == \E s \in Sources : Presents(s)

\* Mutant: the value of the slot is taken for a cache.
getCached(retval) ==
    LET first == SelectInSeq(Order, Presents)
    IN  IF first = 0 \/ retval # undefined THEN retval ELSE face[Order[first]]

(* What get stores in *retval: the first match, or else what was there. *)
get(retval) ==
    LET first == SelectInSeq(Order, Presents)
    IN  IF first = 0 THEN retval ELSE face[Order[first]]

(* The lookup that comes before every access: resolve, if nothing is found. *)
resolve ==
    IF own.getter = "none" /\ Responds
    THEN [getter |-> "get_and_destroy", slot |-> undefined]
    ELSE own

Init ==
    /\ object \in [indexed : BOOLEAN, keyed : BOOLEAN, drops : BOOLEAN]
    /\ face = [s \in Sources |-> Absent]
    /\ writer = "none" /\ own = NoOwn /\ last = Nothing
-----------------------------------------------------------------------------
(* js_NativeGet hands the slot to the getter and keeps what it answers;    *)
(* get_and_destroy_resolved_property deletes the property first.           *)
Get ==
    LET result == get(resolve.slot) IN
    /\ own' = IF resolve.getter = "class" THEN [own EXCEPT !.slot = result] ELSE NoOwn
    /\ last' = Access("get", result)
    /\ UNCHANGED <<object, face, writer>>

In ==           \* name in object
    /\ own' = resolve
    /\ last' = Nothing
    /\ UNCHANGED <<object, face, writer>>

Delete ==       \* delete object.name: the class has no delProperty of its own
    /\ own' = NoOwn
    /\ last' = Nothing
    /\ UNCHANGED <<object, face, writer>>

\* Mutant: it is added with the getter of resolved properties.
FoundResolved ==
    IF resolve.getter = "none" THEN [resolve EXCEPT !.getter = "get_and_destroy"] ELSE resolve

(* A property that is not found is added with the getter of the class.  A *)
(* slot is only written after set has succeeded.                          *)
Found == IF resolve.getter = "none" THEN [resolve EXCEPT !.getter = "class"] ELSE resolve

(* A writer stores where the reader of the same name looks, or elsewhere. *)
CallWriter(v) ==
    \/ \E s \in {"autovivified", "attribute"} :
         /\ face[s] # Absent /\ (s = "attribute" => face["autovivified"] = Absent)
         /\ face' = [face EXCEPT ![s] = v]
    \/ face["autovivified"] = Absent /\ UNCHANGED face

autovivify(v) ==   \* defines name= and, over whatever there was, name
    /\ face' = [face EXCEPT !["autovivified"] = v, !["method"] = v]
    /\ writer' = "one"

set(v) ==
    \/ writer = "one"   /\ CallWriter(v) /\ UNCHANGED writer
    \/ writer = "other" /\ UNCHANGED <<face, writer>>
    \/ /\ writer = "none" /\ object.indexed
       /\ face' = IF object.keyed THEN [face EXCEPT !["key"] = v] ELSE face
       /\ UNCHANGED writer
    \/ writer = "none" /\ ~object.indexed /\ autovivify(v)

Set(v) ==
    /\ set(v)
    /\ own' = [Found EXCEPT !.slot = v]
    /\ last' = Access("set", v)
    /\ UNCHANGED object

SetRaises ==
    /\ SetterFails
    /\ own' = Found
    /\ last' = Nothing
    /\ UNCHANGED <<object, face, writer>>
-----------------------------------------------------------------------------
(* Ruby code gives the name a meaning, changes it, or takes it away. *)
Presentable == Sources \ ({"autovivified"} \cup IF object.keyed THEN {} ELSE {"key"})

RubyPresents(s, v) ==
    /\ s \in Presentable
    /\ face' = [face EXCEPT ![s] = v]
    /\ UNCHANGED <<object, writer, own>> /\ last' = Nothing

RubyDefinesWriter(arity) ==
    /\ writer = "none"
    /\ writer' = arity
    /\ UNCHANGED <<object, face, own>> /\ last' = Nothing

RubyRemoves(s) ==
    /\ object.drops /\ s \in Presentable /\ face[s] # Absent
    /\ face' = [face EXCEPT ![s] = Absent]
    /\ UNCHANGED <<object, writer, own>> /\ last' = Nothing

Next ==
    \/ Get \/ In \/ Delete \/ SetRaises
    \/ \E v \in Values : Set(v) \/ \E s \in Sources : RubyPresents(s, v)
    \/ \E arity \in {"one", "other"} : RubyDefinesWriter(arity)
    \/ \E s \in Sources : RubyRemoves(s)

Spec == Init /\ [][Next]_vars
-----------------------------------------------------------------------------
(* What Ruby presents wins over any value the engine keeps in a slot, also *)
(* after sets that failed, deletes, and properties that resolve left       *)
(* behind; what get answers otherwise was written by script                *)
(* (get of js_land_proxy.c and the slot of js_NativeGet).                  *)
RubyWins == last.op = "get" /\ Responds => last.value = get(undefined)

(* A property resolve has defined, and nothing has read since, is one Ruby *)
(* answers for, as long as Ruby takes nothing away.                        *)
ResolvedHasAReason == ~object.drops /\ own.getter = "get_and_destroy" => Responds

(* After an assignment that autovivifies, whatever the object presented    *)
(* before, or that stores by key where get asks nothing before the key,    *)
(* script reads what it assigned: get asks in an order that fits set's.    *)
StoredByKey ==
    /\ object.indexed /\ object.keyed /\ writer = "none"
    /\ \A s \in {"const", "global", "attribute"} : face[s] = Absent
AssignedIsRead ==
    last.op = "set" /\ (face["autovivified"] # Absent \/ StoredByKey)
        => get(undefined) = last.value

-----------------------------------------------------------------------------
(* What a comment promises and the code does not keep.                     *)

(* A name for which the Ruby object has nothing is undefined: "else it's   *)
(* undefined (JS_VOID) by default", js_land_proxy.c:285.                   *)
UnknownIsUndefined == last.op = "get" /\ ~Responds => last.value = undefined
=============================================================================
