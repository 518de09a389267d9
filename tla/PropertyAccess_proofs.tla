------------------------ MODULE PropertyAccess_proofs ------------------------
(***************************************************************************)
(* What script reads through a JSLandProxy, for any set of values: Ruby    *)
(* wins, resolve answers for what it defines, and get fits set.            *)
(***************************************************************************)
EXTENDS PropertyAccess, TLAPS

AccessTypeOK ==
    /\ object \in [indexed : BOOLEAN, keyed : BOOLEAN, drops : BOOLEAN]
    /\ face \in [Sources -> Values \cup {Absent}]
    /\ writer \in {"none", "one", "other"}
    /\ own \in [getter : {"none", "class", "get_and_destroy"}, slot : Values \cup {undefined}]
    /\ last \in [op : {"none", "get", "set"}, value : Values \cup {undefined}]

(* autovivify always defines the writer with the reader. *)
AutovivifiedHasWriter == face["autovivified"] # Absent => writer = "one"

Inv == /\ AccessTypeOK /\ AutovivifiedHasWriter
       /\ RubyWins /\ ResolvedHasAReason /\ AssignedIsRead
-----------------------------------------------------------------------------
LEMMA SourcesAre ==
  Sources = {"autovivified", "const", "global", "attribute", "key", "method"}
<1>1. DOMAIN Order = 1..6
  BY DEF Order
<1>2. 1..6 = {1, 2, 3, 4, 5, 6}
  OBVIOUS
<1> QED BY <1>1, <1>2 DEF Sources, Order, ToSet

(* get answers with what the first source presents that presents anything. *)
LEMMA GetFirst ==
  ASSUME NEW retval, NEW i \in 1..6, Presents(Order[i]),
         \A j \in 1..6 : j < i => ~Presents(Order[j])
  PROVE  get(retval) = face[Order[i]]
<1> DEFINE I == {j \in 1..Len(Order) : Presents(Order[j])}
<1>1. Len(Order) = 6
  BY DEF Order
<1>2. i \in I /\ \A j \in I : i <= j
  BY <1>1
<1>3. Min(I) = i
  BY <1>1, <1>2 DEF Min
<1>4. SelectInSeq(Order, Presents) = i
  BY <1>2, <1>3 DEF SelectInSeq
<1> QED BY <1>4 DEF get

LEMMA GetNothing == ASSUME NEW retval, ~Responds PROVE get(retval) = retval
<1> DEFINE I == {j \in 1..Len(Order) : Presents(Order[j])}
<1>1. I = {}
  BY DEF Responds, Sources, ToSet, Order
<1>2. SelectInSeq(Order, Presents) = 0
  BY <1>1 DEF SelectInSeq
<1> QED BY <1>2 DEF get

(* What Ruby presents first is what get answers, whatever is in the slot. *)
FirstSourceAnswers ==
    /\ \A i \in 1..6, v \in Values \cup {undefined} :
         /\ Presents(Order[i])
         /\ \A j \in 1..6 : j < i => ~Presents(Order[j])
         => get(v) = face[Order[i]]
    /\ \A v \in Values \cup {undefined} : ~Responds => get(v) = v

LEMMA GetAnswers == FirstSourceAnswers
BY GetFirst, GetNothing DEF FirstSourceAnswers

LEMMA GetAnswersNext == FirstSourceAnswers'
BY GetAnswers, PTL

LEMMA SlotDoesNotMatter ==
  ASSUME Responds, NEW v \in Values \cup {undefined}
  PROVE  get(v) = get(undefined)
<1>1. PICK i \in 1..6 : Presents(Order[i]) /\ \A j \in 1..6 : j < i => ~Presents(Order[j])
  BY SourcesAre DEF Responds, Order
<1> QED BY <1>1, GetFirst

LEMMA GetType ==
  ASSUME AccessTypeOK, NEW v \in Values \cup {undefined}
  PROVE  get(v) \in Values \cup {undefined}
<1>1. CASE Responds
  <2>1. PICK i \in 1..6 : Presents(Order[i]) /\ \A j \in 1..6 : j < i => ~Presents(Order[j])
    BY <1>1, SourcesAre DEF Responds, Order
  <2>2. Order[i] \in Sources
    BY SourcesAre DEF Order
  <2> QED BY <2>1, <2>2, GetFirst DEF AccessTypeOK, Presents
<1>2. CASE ~Responds
  BY <1>2, GetNothing
<1> QED BY <1>1, <1>2

LEMMA ResolveType ==
  ASSUME AccessTypeOK
  PROVE  /\ resolve \in [getter : {"none", "class", "get_and_destroy"},
                         slot : Values \cup {undefined}]
         /\ Found \in [getter : {"class", "get_and_destroy"}, slot : Values \cup {undefined}]
         /\ Found.getter = "get_and_destroy" =>
              Responds \/ own.getter = "get_and_destroy"
         /\ resolve.getter = "get_and_destroy" =>
              Responds \/ own.getter = "get_and_destroy"
BY DEF AccessTypeOK, resolve, Found
-----------------------------------------------------------------------------
LEMMA InitInv == Init => Inv
<1> SUFFICES ASSUME Init PROVE Inv
  OBVIOUS
<1>1. AccessTypeOK /\ AutovivifiedHasWriter
  BY SourcesAre DEF Init, AccessTypeOK, AutovivifiedHasWriter, NoOwn, Nothing
<1>2. RubyWins /\ ResolvedHasAReason /\ AssignedIsRead
  BY DEF Init, NoOwn, Nothing, RubyWins, ResolvedHasAReason, AssignedIsRead
<1> QED BY <1>1, <1>2 DEF Inv

LEMMA GetStep == ASSUME Inv, Get PROVE Inv'
<1> USE DEF Inv
<1> DEFINE result == get(resolve.slot)
<1>1. result \in Values \cup {undefined}
  BY ResolveType, GetType
<1>2. AccessTypeOK' /\ AutovivifiedHasWriter'
  BY <1>1, ResolveType DEF Get, AccessTypeOK, AutovivifiedHasWriter, NoOwn, Access
<1>3. get(undefined)' = get(undefined) /\ Responds' = Responds
  BY DEF Get, get, Presents, SelectInSeq, Responds
<1>4. RubyWins'
  BY <1>3, ResolveType, SlotDoesNotMatter DEF Get, RubyWins, Access
<1>5. ResolvedHasAReason'
  BY <1>3, ResolveType DEF Get, ResolvedHasAReason, NoOwn
<1>6. AssignedIsRead'
  BY DEF Get, AssignedIsRead, Access
<1> QED BY <1>2, <1>4, <1>5, <1>6

(* Steps that change neither what Ruby presents nor what was read. *)
LEMMA QuietStep == ASSUME Inv, In \/ Delete \/ SetRaises PROVE Inv'
<1> USE DEF Inv, In, Delete, SetRaises
<1>1. AccessTypeOK' /\ AutovivifiedHasWriter'
  BY ResolveType DEF AccessTypeOK, AutovivifiedHasWriter, NoOwn, Nothing
<1>2. ResolvedHasAReason'
  BY ResolveType DEF ResolvedHasAReason, NoOwn, Responds, Presents
<1>3. RubyWins' /\ AssignedIsRead'
  BY DEF RubyWins, AssignedIsRead, Nothing
<1> QED BY <1>1, <1>2, <1>3

LEMMA RubyStep ==
  ASSUME Inv,
         \/ \E v \in Values, s \in Sources : RubyPresents(s, v)
         \/ \E arity \in {"one", "other"} : RubyDefinesWriter(arity)
         \/ \E s \in Sources : RubyRemoves(s)
  PROVE  Inv'
<1> USE DEF Inv
<1>1. last' = Nothing /\ own' = own /\ object' = object
  BY DEF RubyPresents, RubyDefinesWriter, RubyRemoves
<1>2. RubyWins' /\ AssignedIsRead'
  BY <1>1 DEF RubyWins, AssignedIsRead, Nothing
<1>3. ASSUME NEW v \in Values, NEW s \in Sources, RubyPresents(s, v)
      PROVE  AccessTypeOK' /\ AutovivifiedHasWriter' /\ ResolvedHasAReason'
  BY <1>3, SourcesAre, PropertyAccessAssumption
     DEF RubyPresents, Presentable, AccessTypeOK, AutovivifiedHasWriter,
         ResolvedHasAReason, Responds, Presents, Nothing
<1>4. ASSUME NEW arity \in {"one", "other"}, RubyDefinesWriter(arity)
      PROVE  AccessTypeOK' /\ AutovivifiedHasWriter' /\ ResolvedHasAReason'
  BY <1>4 DEF RubyDefinesWriter, AccessTypeOK, AutovivifiedHasWriter,
              ResolvedHasAReason, Responds, Presents, Nothing
<1>5. ASSUME NEW s \in Sources, RubyRemoves(s)
      PROVE  AccessTypeOK' /\ AutovivifiedHasWriter' /\ ResolvedHasAReason'
  BY <1>5, SourcesAre
     DEF RubyRemoves, Presentable, AccessTypeOK, AutovivifiedHasWriter,
         ResolvedHasAReason, Nothing
<1> QED BY <1>2, <1>3, <1>4, <1>5
-----------------------------------------------------------------------------
(* set writes only what it assigns, and takes nothing away. *)
LEMMA SetFaces ==
  ASSUME Inv, NEW v \in Values, set(v)
  PROVE  /\ face' \in [Sources -> Values \cup {Absent}]
         /\ writer' \in {"none", "one", "other"}
         /\ \A s \in Sources : face'[s] \in {face[s], v}
         /\ AutovivifiedHasWriter'
<1> USE SourcesAre, PropertyAccessAssumption DEF Inv, AccessTypeOK, AutovivifiedHasWriter
<1>1. CASE writer = "one" /\ CallWriter(v) /\ UNCHANGED writer
  BY <1>1 DEF CallWriter
<1>2. CASE writer = "other" /\ UNCHANGED <<face, writer>>
  BY <1>2
<1>3. CASE /\ writer = "none" /\ object.indexed
           /\ face' = IF object.keyed THEN [face EXCEPT !["key"] = v] ELSE face
           /\ UNCHANGED writer
  BY <1>3
<1>4. CASE writer = "none" /\ ~object.indexed /\ autovivify(v)
  BY <1>4 DEF autovivify
<1> QED BY <1>1, <1>2, <1>3, <1>4 DEF set

(* get finds what set has stored, where it is the first to look. *)
LEMMA SetIsRead ==
  ASSUME Inv, NEW v \in Values, set(v), UNCHANGED object,
         (face["autovivified"] # Absent \/ StoredByKey)'
  PROVE  get(undefined)' = v
<1> USE SourcesAre, PropertyAccessAssumption
    DEF Inv, AccessTypeOK, AutovivifiedHasWriter
<1>0. /\ Order[1] = "autovivified" /\ Order[2] = "const" /\ Order[3] = "global"
      /\ Order[4] = "attribute" /\ Order[5] = "key"
  BY DEF Order
<1>1. ASSUME face'["autovivified"] = v PROVE get(undefined)' = v
  BY <1>0, <1>1, GetAnswersNext DEF FirstSourceAnswers, Presents
<1>2. CASE writer = "one" /\ CallWriter(v) /\ UNCHANGED writer
  BY <1>1, <1>2, SetFaces DEF CallWriter, StoredByKey
<1>3. CASE writer = "other" /\ UNCHANGED <<face, writer>>
  BY <1>3 DEF StoredByKey
<1>4. CASE /\ writer = "none" /\ object.indexed
           /\ face' = IF object.keyed THEN [face EXCEPT !["key"] = v] ELSE face
           /\ UNCHANGED writer
  <2>1. StoredByKey' /\ face'["autovivified"] = Absent
    BY <1>4
  <2>2. face'["key"] = v
    BY <1>4, <2>1 DEF StoredByKey
  <2> QED BY <1>0, <2>1, <2>2, GetAnswersNext DEF FirstSourceAnswers, Presents, StoredByKey
<1>5. CASE writer = "none" /\ ~object.indexed /\ autovivify(v)
  BY <1>1, <1>5 DEF autovivify
<1> QED BY <1>2, <1>3, <1>4, <1>5 DEF set

LEMMA SetStep == ASSUME Inv, NEW v \in Values, Set(v) PROVE Inv'
<1> USE DEF Inv, Set
<1>1. AccessTypeOK' /\ AutovivifiedHasWriter'
  BY ResolveType, SetFaces DEF AccessTypeOK, Access
<1>2. RubyWins'
  BY DEF RubyWins, Access
<1>3. Responds => Responds'
  BY SetFaces, PropertyAccessAssumption DEF Responds, Presents
<1>4. ResolvedHasAReason'
  BY <1>3, ResolveType DEF ResolvedHasAReason
<1>5. AssignedIsRead'
  BY SetIsRead DEF AssignedIsRead, Access
<1> QED BY <1>1, <1>2, <1>4, <1>5

LEMMA Stutter == Inv /\ UNCHANGED vars => Inv'
BY DEF vars, Inv, AccessTypeOK, AutovivifiedHasWriter, RubyWins, ResolvedHasAReason,
       AssignedIsRead, StoredByKey, Responds, Presents, get, SelectInSeq

LEMMA Invariant == Spec => []Inv
<1>1. Inv /\ [Next]_vars => Inv'
  BY GetStep, QuietStep, SetStep, RubyStep, Stutter DEF Next
<1> QED BY InitInv, <1>1, PTL DEF Spec
-----------------------------------------------------------------------------
(* What Ruby presents under a name wins over any value the engine keeps in *)
(* a slot of the proxy.                                                    *)
THEOREM RubyAlwaysWins == Spec => []RubyWins
<1>1. Inv => RubyWins
  BY DEF Inv
<1> QED BY Invariant, <1>1, PTL

(* As long as Ruby takes nothing away, a property that resolve has defined *)
(* is one Ruby answers for.                                                *)
THEOREM ResolvedStaysAnswered == Spec => []ResolvedHasAReason
<1>1. Inv => ResolvedHasAReason
  BY DEF Inv
<1> QED BY Invariant, <1>1, PTL

(* Script reads what it has assigned, where set autovivifies or stores by  *)
(* key: get asks in an order that fits.                                    *)
THEOREM AssignmentIsRead == Spec => []AssignedIsRead
<1>1. Inv => AssignedIsRead
  BY DEF Inv
<1> QED BY Invariant, <1>1, PTL
=============================================================================
