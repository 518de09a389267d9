--------------------------- MODULE Crossing_proofs ---------------------------
(***************************************************************************)
(* Proofs about module Crossing, for every depth of the stack, every set   *)
(* of entries and every number of exceptions from unprotected calls.       *)
(*                                                                         *)
(* A C function is Verified when everything that can follow from its first *)
(* step, inside it, keeps to the rules (Kept): it registers no more than   *)
(* PREPARE_JROOTS reserves, removes what it registered before it leaves by *)
(* a plain return or a failure, and fails in the way its caller expects.   *)
(* The first part proves that of each function of BridgeFunctions, with    *)
(* one rule per kind of step and an outline of what is held before each;   *)
(* loops need the greatest fixed point in the definition of Safe.  The     *)
(* second part puts the functions on the stack.                            *)
(***************************************************************************)
EXTENDS Crossing, TLAPS, SequenceTheorems, WellFoundedInduction

(* Sequences of whatever elements. *)
IsSeq(s) == s \in Seq(ToSet(s))

(* A sequence over any set is a sequence. *)
LEMMA SeqIsSeq == ASSUME NEW S, NEW s \in Seq(S) PROVE IsSeq(s)
BY DEF IsSeq, ToSet

(* Short tuples are sequences. *)
LEMMA TupleIsSeq ==
  /\ IsSeq(<<>>)
  /\ \A a : IsSeq(<<a>>)
  /\ \A a, b : IsSeq(<<a, b>>)
<1>1. <<>> \in Seq({})
  OBVIOUS
<1>2. \A a : <<a>> \in Seq({a})
  OBVIOUS
<1>3. \A a, b : <<a, b>> \in Seq({a, b})
  OBVIOUS
<1> QED BY <1>1, <1>2, <1>3, SeqIsSeq

(* Concatenation, of sequences whose elements are of any kind. *)
LEMMA Conc ==
  ASSUME NEW s, NEW t, IsSeq(s), IsSeq(t)
  PROVE  /\ IsSeq(s \o t)
         /\ s # <<>> => /\ Head(s \o t) = Head(s)
                        /\ Tail(s \o t) = Tail(s) \o t
                        /\ IsSeq(Tail(s))
                        /\ s \o t # <<>>
         /\ t # <<>> => s \o t # <<>>
         /\ <<>> \o s = s
         /\ s \o <<>> = s
<1> DEFINE S == ToSet(s) \cup ToSet(t)
<1>1. s \in Seq(S) /\ t \in Seq(S)
  BY SeqMonotonic DEF IsSeq
<1>2. s \o t \in Seq(S) /\ <<>> \o s = s /\ s \o <<>> = s /\ (t # <<>> => s \o t # <<>>)
  BY <1>1
<1>3. ASSUME s # <<>>
      PROVE  /\ Head(s \o t) = Head(s) /\ Tail(s \o t) = Tail(s) \o t
             /\ Tail(s) \in Seq(S) /\ s \o t # <<>>
  BY <1>1, <1>3
<1> QED BY <1>2, <1>3, SeqIsSeq

LEMMA ConcAssoc ==
  ASSUME NEW s, NEW t, NEW u, IsSeq(s), IsSeq(t), IsSeq(u)
  PROVE  (s \o t) \o u = s \o (t \o u)
<1> DEFINE S == ToSet(s) \cup ToSet(t) \cup ToSet(u)
<1>1. s \in Seq(S) /\ t \in Seq(S) /\ u \in Seq(S)
  BY SeqMonotonic DEF IsSeq
<1> HIDE DEF S
<1> QED BY <1>1, ConcatAssociative
-----------------------------------------------------------------------------
(* What a C function may do, and what follows. *)
Cleanups == Seq(Names \cup {Hole})
NamesIn(h) == ToSet(h) \ {Hole}

FalseTodo(f, t) ==
    IF "else" \in DOMAIN Head(t) /\ Head(t).else # <<>>
    THEN Head(t).else \o Tail(t)
    ELSE JCheck(Body[f].kind)

RaisedTodo(f) ==
    <<Release>> \o (IF Body[f].kind = "ruby" THEN <<Raise>> ELSE report_ruby_error_in_js)

(* What can follow, inside the function f, when t is still to do and h is held. *)
After(f, p) ==
    LET t == p[1]
        h == p[2]
        op == Head(t)
    IN  CASE op.do = "root" -> {<<Tail(t), Append(h, op.of)>>, <<FalseTodo(f, t), h>>}
          [] op.do = "cleanup" -> {<<Tail(t), Append(h, op.of)>>}
          [] op.do = "unroot" -> {<<Tail(t), Without(h, op.of)>>}
          [] op.do = "remove" -> {<<Tail(t), <<>>>>}
          [] op.do \in {"engine", "call", "script"} -> {<<Tail(t), h>>, <<FalseTodo(f, t), h>>}
          [] op.do \in {"ruby", "protected"} -> {<<Tail(t), h>>, <<RaisedTodo(f), h>>}
          [] op.do \in {"bare", "coerce", "direct"} -> {<<Tail(t), h>>}
          [] op.do = "either" -> {<<branch \o Tail(t), h>> : branch \in op.of}
          [] op.do = "loop" -> {<<Tail(t), h>>, <<op.of \o t, h>>}
          [] OTHER -> {}

CallsKind(op, kind) == op.fn \in Functions /\ Body[op.fn].kind = kind

Kept(f, p) ==
    LET t == p[1]
        h == p[2]
        op == Head(t)
    IN  /\ t # <<>> /\ h \in Cleanups /\ Len(h) <= Body[f].room
        /\ \/ op.do \in {"remove", "engine", "script", "ruby", "bare", "coerce",
                         "either", "loop", "leave", "null"}
           \/ op.do \in {"root", "cleanup"} /\ op.of \in Names
           \/ /\ op.do = "unroot" /\ op.of \in Names
              /\ NamesIn(Without(h, op.of)) = NamesIn(h) \ {op.of}
           \/ op.do = "call" /\ CallsKind(op, "js")
           \/ op.do = "protected" /\ CallsKind(op, "ruby")
           \/ /\ NamesIn(h) = {}
              /\ \/ op.do = "return"
                 \/ op.do = "fail" /\ Body[f].kind = "js"
                 \/ op.do = "raise" /\ Body[f].kind = "ruby"
                 \/ op.do = "direct" /\ Body[f].kind = "ruby" /\ CallsKind(op, "ruby")

Closed(f, P, X) == \A p \in P : p \in X \/ (Kept(f, p) /\ After(f, p) \subseteq P)
Safe(f, p, X) == \E P : p \in P /\ Closed(f, P, X)
Sound(f, p) == Safe(f, p, {})

(* What is safe up to a set of points that are all kept is safe. *)
LEMMA UpTo ==
  ASSUME NEW f, NEW X, NEW Q,
         \A p \in Q : Kept(f, p) /\ \A q \in After(f, p) : Safe(f, q, X \cup Q)
  PROVE  \A p \in Q : Safe(f, p, X)
<1> DEFINE N == UNION {After(f, p) : p \in Q}
           W(q) == CHOOSE P : q \in P /\ Closed(f, P, X \cup Q)
           R == Q \cup UNION {W(q) : q \in N}
<1>1. \A q \in N : q \in W(q) /\ Closed(f, W(q), X \cup Q)
  BY DEF Safe
<1>2. ASSUME NEW p \in R, p \notin X PROVE Kept(f, p) /\ After(f, p) \subseteq R
  <2>1. CASE p \in Q
    <3>1. After(f, p) \subseteq N
      BY <2>1
    <3> HIDE DEF N
    <3>2. After(f, p) \subseteq R
      <4> HIDE DEF W
      <4> QED BY <1>1, <3>1
    <3> QED BY <2>1, <3>2
  <2>2. CASE p \notin Q
    <3> HIDE DEF N
    <3>1. PICK q \in N : p \in W(q)
      BY <2>2
    <3> HIDE DEF W
    <3>2. Kept(f, p) /\ After(f, p) \subseteq W(q)
      BY <1>1, <1>2, <2>2, <3>1 DEF Closed
    <3> QED BY <3>2
  <2> QED BY <2>1, <2>2
<1>3. Closed(f, R, X)
  <2> HIDE DEF R
  <2> QED BY <1>2 DEF Closed
<1> QED BY <1>3 DEF Safe

(* A point of X is safe up to X. *)
LEMMA Within == ASSUME NEW f, NEW X, NEW p \in X PROVE Safe(f, p, X)
<1>1. p \in {p} /\ Closed(f, {p}, X)
  BY DEF Closed
<1> QED BY <1>1 DEF Safe

(* Safe up to fewer points is safe up to more. *)
LEMMA Weaker == ASSUME NEW f, NEW X, NEW Y, NEW p, Safe(f, p, X), X \subseteq Y PROVE Safe(f, p, Y)
BY DEF Safe, Closed

(* A point is safe when it is kept and what follows is safe. *)
LEMMA Fold ==
  ASSUME NEW f, NEW X, NEW p, Kept(f, p), \A q \in After(f, p) : Safe(f, q, X)
  PROVE  Safe(f, p, X)
<1>1. \A q \in After(f, p) : Safe(f, q, X \cup {p})
  BY Weaker
<1>2. \A r \in {p} : Safe(f, r, X)
  BY <1>1, UpTo
<1> QED BY <1>2

(* A sound point is kept, and what follows is sound. *)
LEMMA Unfold ==
  ASSUME NEW f, NEW p, Sound(f, p)
  PROVE  Kept(f, p) /\ \A q \in After(f, p) : Sound(f, q)
BY DEF Sound, Safe, Closed
-----------------------------------------------------------------------------
(* The vocabulary of the functions. *)
JError(k) == IF k = "ruby" THEN ErrorRuby ELSE ErrorJS

Suits(op, V, k, mode) ==
    \/ op.do \in {"ruby", "bare", "coerce", "leave", "null"}
    \/ /\ op.do \in {"engine", "script"} \/ (op.do = "call" /\ CallsKind(op, "js"))
       /\ "else" \in DOMAIN op => op.else \in Seq(V)
    \/ op.do = "protected" /\ CallsKind(op, "ruby")
    \/ op.do = "either" /\ \A branch \in op.of : branch \in Seq(V) \/ branch = JError(k)
    \/ op.do = "loop" /\ op.of \in Seq(V)
    \/ /\ mode = "clean"
       /\ \/ op.do \in {"remove", "return"}
          \/ op.do = "fail" /\ k = "js"
          \/ op.do = "raise" /\ k = "ruby"
          \/ op.do = "direct" /\ k = "ruby" /\ CallsKind(op, "ruby")

Vocabulary(V, k, mode) == \A op \in V : Suits(op, V, k, mode)
AllFit(s, k, mode) == \E V : Vocabulary(V, k, mode) /\ s \in Seq(V)
Fits(op, k, mode) == \E V : Vocabulary(V, k, mode) /\ op \in V

LEMMA SuitsMore ==
  ASSUME NEW op, NEW V, NEW W, NEW k, NEW c, Suits(op, V, k, c), V \subseteq W
  PROVE  Suits(op, W, k, c)
<1>1. \A s \in Seq(V) : s \in Seq(W)
  BY SeqMonotonic
<1> QED BY <1>1 DEF Suits

(* Vocabularies can be joined. *)
LEMMA UnionVocabulary ==
  ASSUME NEW S, NEW k, NEW c, \A V \in S : Vocabulary(V, k, c)
  PROVE  Vocabulary(UNION S, k, c)
BY SuitsMore DEF Vocabulary

(* A sequence of fitting steps fits. *)
LEMMA FitsEach ==
  ASSUME NEW s, NEW k, NEW c, IsSeq(s), \A i \in 1..Len(s) : Fits(s[i], k, c)
  PROVE  AllFit(s, k, c)
<1> DEFINE C(i) == CHOOSE V : Vocabulary(V, k, c) /\ s[i] \in V
           S == {C(i) : i \in 1..Len(s)}
<1>1. \A i \in 1..Len(s) : Vocabulary(C(i), k, c) /\ s[i] \in C(i)
  BY DEF Fits
<1> HIDE DEF C
<1>2. Vocabulary(UNION S, k, c)
  BY <1>1, UnionVocabulary
<1>3. \A i \in 1..Len(s) : s[i] \in UNION S
  BY <1>1
<1> HIDE DEF S
<1>4. s \in Seq(UNION S)
  BY <1>3 DEF IsSeq
<1> QED BY <1>2, <1>4 DEF AllFit

(* Rules of the vocabulary. *)
LEMMA NewWord ==
  ASSUME NEW op, NEW V, NEW k, NEW c, Vocabulary(V, k, c), Suits(op, V, k, c)
  PROVE  Fits(op, k, c)
<1>1. Vocabulary(V \cup {op}, k, c)
  BY SuitsMore DEF Vocabulary
<1> QED BY <1>1 DEF Fits

(* Steps that need nothing else. *)
LEMMA FitsPlain ==
  ASSUME NEW k, NEW c
  PROVE  /\ Fits(Ruby, k, c) /\ Fits(Bare, k, c) /\ Fits(Coerce, k, c) /\ Fits(Leave, k, c)
         /\ Fits(UsesNull, k, c)
         /\ \A g \in Functions : Body[g].kind = "ruby" => Fits(Protected(g), k, c)
<1>1. Vocabulary({}, k, c)
  BY DEF Vocabulary
<1> QED BY <1>1, NewWord DEF Suits, Ruby, Bare, Coerce, Leave, UsesNull, Protected, CallsKind

(* A call whose failure the function handles itself. *)
LEMMA FitsHandled ==
  ASSUME NEW k, NEW c, NEW s, AllFit(s, k, c)
  PROVE  /\ Fits(EngineOr(s), k, c) /\ Fits(ScriptOr(s), k, c)
         /\ \A g \in Functions : Body[g].kind = "js" => Fits(CallOr(g, s), k, c)
<1>1. PICK V : Vocabulary(V, k, c) /\ s \in Seq(V)
  BY DEF AllFit
<1>2. Suits(EngineOr(s), V, k, c) /\ Suits(ScriptOr(s), V, k, c)
  BY <1>1 DEF Suits, EngineOr, ScriptOr
<1>3. \A g \in Functions : Body[g].kind = "js" => Suits(CallOr(g, s), V, k, c)
  BY <1>1 DEF Suits, CallOr, CallsKind
<1> QED BY <1>1, <1>2, <1>3, NewWord

LEMMA FitsNone == ASSUME NEW k, NEW c PROVE AllFit(<<>>, k, c)
<1>1. Vocabulary({}, k, c) /\ <<>> \in Seq({})
  BY DEF Vocabulary
<1> QED BY <1>1 DEF AllFit

(* A call that JCHECK guards. *)
LEMMA FitsCalls ==
  ASSUME NEW k, NEW c
  PROVE  /\ Fits(Engine, k, c) /\ Fits(Script, k, c)
         /\ \A g \in Functions : Body[g].kind = "js" => Fits(Call(g), k, c)
BY FitsNone, FitsHandled DEF Engine, Script, Call

(* A choice between fitting branches, or JERROR. *)
LEMMA FitsEither ==
  ASSUME NEW k, NEW c, NEW B, \A b \in B : AllFit(b, k, c) \/ b = JError(k)
  PROVE  Fits(Either(B), k, c)
<1> DEFINE A == {b \in B : AllFit(b, k, c)}
           C(b) == CHOOSE V : Vocabulary(V, k, c) /\ b \in Seq(V)
           S == {C(b) : b \in A}
<1>1. \A b \in A : Vocabulary(C(b), k, c) /\ b \in Seq(C(b))
  BY DEF AllFit
<1> HIDE DEF C
<1>2. Vocabulary(UNION S, k, c)
  BY <1>1, UnionVocabulary
<1>3. \A b \in A : b \in Seq(UNION S)
  BY <1>1, SeqMonotonic
<1> HIDE DEF S
<1>4. Suits(Either(B), UNION S, k, c)
  BY <1>3 DEF Suits, Either
<1> QED BY <1>2, <1>4, NewWord

(* A loop whose body fits. *)
LEMMA FitsLoop ==
  ASSUME NEW k, NEW c, NEW s, AllFit(s, k, c)
  PROVE  Fits(Loop(s), k, c)
<1>1. PICK V : Vocabulary(V, k, c) /\ s \in Seq(V)
  BY DEF AllFit
<1>2. Suits(Loop(s), V, k, c)
  BY <1>1 DEF Suits, Loop
<1> QED BY <1>1, <1>2, NewWord

(* Steps that need an empty list of cleanups. *)
LEMMA FitsClean ==
  /\ \A k : Fits(Return, k, "clean") /\ Fits(Release, k, "clean")
  /\ Fits(Fail, "js", "clean") /\ Fits(Raise, "ruby", "clean")
  /\ \A g \in Functions : Body[g].kind = "ruby" => Fits(Direct(g), "ruby", "clean")
<1>1. \A k : Vocabulary({}, k, "clean")
  BY DEF Vocabulary
<1> QED BY <1>1, NewWord DEF Suits, Return, Release, Fail, Raise, Direct, CallsKind

LEMMA TuplesFit ==
  ASSUME NEW k, NEW c
  PROVE  /\ AllFit(<<>>, k, c)
         /\ \A a1 : Fits(a1, k, c) => AllFit(<<a1>>, k, c)
         /\ \A a1, a2 : Fits(a1, k, c) /\ Fits(a2, k, c) => AllFit(<<a1, a2>>, k, c)
         /\ \A a1, a2, a3 : Fits(a1, k, c) /\ Fits(a2, k, c) /\ Fits(a3, k, c) =>
              AllFit(<<a1, a2, a3>>, k, c)
<1>1. ASSUME NEW a1, Fits(a1, k, c) PROVE AllFit(<<a1>>, k, c)
  BY <1>1, TupleIsSeq, FitsEach
<1>2. ASSUME NEW a1, NEW a2, Fits(a1, k, c), Fits(a2, k, c) PROVE AllFit(<<a1, a2>>, k, c)
  BY <1>2, TupleIsSeq, FitsEach
<1>3. ASSUME NEW a1, NEW a2, NEW a3, Fits(a1, k, c), Fits(a2, k, c), Fits(a3, k, c)
      PROVE  AllFit(<<a1, a2, a3>>, k, c)
  <2>1. IsSeq(<<a1, a2, a3>>)
    BY SeqIsSeq, <<a1, a2, a3>> \in Seq({a1, a2, a3})
  <2> QED BY <1>3, <2>1, FitsEach
<1> QED BY <1>1, <1>2, <1>3, FitsNone

(* Lists of cleanups. *)
LEMMA CleanupsAre ==
  /\ <<>> \in Cleanups /\ Len(<<>>) = 0 /\ NamesIn(<<>>) = {}
  /\ \A h \in Cleanups : Len(h) \in Nat /\ (Len(h) = 0 => h = <<>>)
  /\ \A h \in Cleanups, x \in Names :
       /\ Append(h, x) \in Cleanups /\ Len(Append(h, x)) = Len(h) + 1
BY DEF Cleanups, NamesIn, ToSet

(* A state whose step neither fails nor branches. *)
LEMMA KeptAt ==
  ASSUME NEW f, NEW t, NEW h \in Cleanups, t # <<>>, Len(h) <= Body[f].room,
         NEW V, NEW c, Suits(Head(t), V, Body[f].kind, c), c = "clean" => h = <<>>
  PROVE  Kept(f, <<t, h>>)
BY CleanupsAre DEF Kept, Suits

(* A step that ends the function. *)
LEMMA Ending ==
  ASSUME NEW f, NEW X, NEW t, NEW h, Kept(f, <<t, h>>),
         Head(t).do \in {"leave", "return", "fail", "raise", "null"}
  PROVE  Safe(f, <<t, h>>, X)
<1>1. After(f, <<t, h>>) = {}
  BY DEF After
<1> QED BY <1>1, Fold

(* A step that can only go on. *)
LEMMA Passing ==
  ASSUME NEW f, NEW X, NEW t, NEW h, Kept(f, <<t, h>>),
         Head(t).do \in {"bare", "coerce", "direct"}, Safe(f, <<Tail(t), h>>, X)
  PROVE  Safe(f, <<t, h>>, X)
<1>1. After(f, <<t, h>>) = {<<Tail(t), h>>}
  BY DEF After
<1> QED BY <1>1, Fold

(* REMOVE_JROOTS. *)
LEMMA Removing ==
  ASSUME NEW f, NEW X, NEW t, NEW h, Kept(f, <<t, h>>),
         Head(t).do = "remove", Safe(f, <<Tail(t), <<>>>>, X)
  PROVE  Safe(f, <<t, h>>, X)
<1>1. After(f, <<t, h>>) = {<<Tail(t), <<>>>>}
  BY DEF After
<1> QED BY <1>1, Fold

(* A choice. *)
LEMMA Branching ==
  ASSUME NEW f, NEW X, NEW t, NEW h, Kept(f, <<t, h>>),
         Head(t).do = "either",
         \A branch \in Head(t).of : Safe(f, <<branch \o Tail(t), h>>, X)
  PROVE  Safe(f, <<t, h>>, X)
<1>1. After(f, <<t, h>>) = {<<branch \o Tail(t), h>> : branch \in Head(t).of}
  BY DEF After
<1> QED BY <1>1, Fold
-----------------------------------------------------------------------------
(* Errors. *)

LEMMA ErrorSteps ==
  /\ Release.do = "remove" /\ Fail.do = "fail" /\ Raise.do = "raise" /\ Bare.do = "bare"
  /\ \A B : Either(B).do = "either" /\ Either(B).of = B
  /\ \A g : Direct(g).do = "direct" /\ Direct(g).fn = g
BY DEF Release, Fail, Raise, Bare, Either, Direct

(* JERROR, whatever is held. *)
LEMMA ErrorSafe ==
  ASSUME NEW f, NEW X, NEW w, IsSeq(w), NEW h \in Cleanups, Len(h) <= Body[f].room,
         Body[f].kind \in {"ruby", "js"}, Body[f].room \in Nat
  PROVE  Safe(f, <<JError(Body[f].kind) \o w, h>>, X)
<1> DEFINE last == IF Body[f].kind = "ruby" THEN Raise ELSE Fail
           t == JError(Body[f].kind) \o w
<1>1. JError(Body[f].kind) = <<Release, last>>
  BY DEF JError, ErrorRuby, ErrorJS
<1>2. /\ t # <<>> /\ Head(t) = Release
      /\ Tail(t) = <<last>> \o w /\ Tail(t) # <<>> /\ Head(Tail(t)) = last
  BY <1>1, TupleIsSeq, Conc
<1>3. Kept(f, <<Tail(t), <<>>>>)
  BY <1>2, CleanupsAre, ErrorSteps, SMTT(40) DEF Kept
<1>4. Safe(f, <<Tail(t), <<>>>>, X)
  BY <1>2, <1>3, Ending, ErrorSteps
<1>5. Kept(f, <<t, h>>)
  BY <1>2, ErrorSteps DEF Kept
<1> QED BY <1>2, <1>4, <1>5, Removing, ErrorSteps
-----------------------------------------------------------------------------
(* The functions. *)
RubyFunctions ==
    {"convert_js_string_to_ruby", "convert_regexp_to_ruby", "convert_to_ruby",
     "call_js_function_value", "get", "set", "function_p", "respond_to_p",
     "native_call", "each", "length", "function_property_p",
     "call_function_property", "to_s", "make_ruby_land_proxy", "global",
     "set_trap", "clear_trap", "native_compile", "evaluate_compiled_script",
     "init_spidermonkey_extensions"}

JSFunctions ==
    {"convert_float_or_bignum_to_js", "convert_symbol_to_js",
     "convert_regexp_to_js", "convert_to_js", "js_value_is_regexp",
     "call_ruby_from_js_va", "call_ruby_from_js", "js_value_is_symbol", "unwrap_ruby_land_proxy", "js_get",
     "get_and_destroy_resolved_property", "js_set", "construct", "resolve",
     "to_string", "to_array", "method_missing", "call", "finalize",
     "make_js_land_proxy", "trap_handler", "gc_callback", "define_property",
     "global_resolve", "debugger_hook"}

(* The functions are of two kinds. *)
LEMMA FunctionsAre == Functions = RubyFunctions \cup JSFunctions
BY DEF Functions, Body, RubyFunctions, JSFunctions

LEMMA BodyOf ==
  /\ Body["convert_float_or_bignum_to_js"] = convert_float_or_bignum_to_js
  /\ Body["convert_symbol_to_js"] = convert_symbol_to_js
  /\ Body["convert_regexp_to_js"] = convert_regexp_to_js
  /\ Body["convert_to_js"] = convert_to_js
  /\ Body["convert_js_string_to_ruby"] = convert_js_string_to_ruby
  /\ Body["convert_regexp_to_ruby"] = convert_regexp_to_ruby
  /\ Body["js_value_is_regexp"] = js_value_is_regexp
  /\ Body["js_value_is_symbol"] = js_value_is_symbol
  /\ Body["convert_to_ruby"] = convert_to_ruby
  /\ Body["call_ruby_from_js_va"] = call_ruby_from_js_va
  /\ Body["call_ruby_from_js"] = call_ruby_from_js
  /\ Body["call_js_function_value"] = call_js_function_value
  /\ Body["get"] = get
  /\ Body["set"] = set
  /\ Body["function_p"] = function_p
  /\ Body["respond_to_p"] = respond_to_p
  /\ Body["native_call"] = native_call
  /\ Body["each"] = each
  /\ Body["length"] = length
  /\ Body["function_property_p"] = function_property_p
  /\ Body["call_function_property"] = call_function_property
  /\ Body["to_s"] = to_s
  /\ Body["unwrap_ruby_land_proxy"] = unwrap_ruby_land_proxy
  /\ Body["make_ruby_land_proxy"] = make_ruby_land_proxy
  /\ Body["js_get"] = js_get
  /\ Body["get_and_destroy_resolved_property"] = get_and_destroy_resolved_property
  /\ Body["js_set"] = js_set
  /\ Body["construct"] = construct
  /\ Body["resolve"] = resolve
  /\ Body["to_string"] = to_string
  /\ Body["to_array"] = to_array
  /\ Body["method_missing"] = method_missing
  /\ Body["call"] = call
  /\ Body["finalize"] = finalize
  /\ Body["make_js_land_proxy"] = make_js_land_proxy
  /\ Body["global"] = global
  /\ Body["trap_handler"] = trap_handler
  /\ Body["set_trap"] = set_trap
  /\ Body["clear_trap"] = clear_trap
  /\ Body["native_compile"] = native_compile
  /\ Body["evaluate_compiled_script"] = evaluate_compiled_script
  /\ Body["gc_callback"] = gc_callback
  /\ Body["init_spidermonkey_extensions"] = init_spidermonkey_extensions
  /\ Body["define_property"] = define_property
  /\ Body["global_resolve"] = global_resolve
  /\ Body["debugger_hook"] = debugger_hook
BY DEF Body

(* The functions that raise. *)
LEMMA RubyKinds ==
  \A g \in RubyFunctions : /\ g \in Functions
      /\ Body[g].kind = "ruby" /\ Body[g].room \in Nat
<1>1. /\ convert_js_string_to_ruby.kind = "ruby" /\ convert_js_string_to_ruby.room = 1
      /\ convert_regexp_to_ruby.kind = "ruby" /\ convert_regexp_to_ruby.room = 1
      /\ convert_to_ruby.kind = "ruby" /\ convert_to_ruby.room = 1
      /\ call_js_function_value.kind = "ruby" /\ call_js_function_value.room = 3
      /\ get.kind = "ruby" /\ get.room = 1
      /\ set.kind = "ruby" /\ set.room = 2
      /\ function_p.kind = "ruby" /\ function_p.room = 1
      /\ respond_to_p.kind = "ruby" /\ respond_to_p.room = 2
      /\ native_call.kind = "ruby" /\ native_call.room = 0
      /\ each.kind = "ruby" /\ each.room = 5
      /\ length.kind = "ruby" /\ length.room = 2
      /\ function_property_p.kind = "ruby" /\ function_property_p.room = 2
      /\ call_function_property.kind = "ruby" /\ call_function_property.room = 2
      /\ to_s.kind = "ruby" /\ to_s.room = 1
      /\ make_ruby_land_proxy.kind = "ruby" /\ make_ruby_land_proxy.room = 1
      /\ global.kind = "ruby" /\ global.room = 0
      /\ set_trap.kind = "ruby" /\ set_trap.room = 0
      /\ clear_trap.kind = "ruby" /\ clear_trap.room = 0
      /\ native_compile.kind = "ruby" /\ native_compile.room = 0
      /\ evaluate_compiled_script.kind = "ruby" /\ evaluate_compiled_script.room = 0
      /\ init_spidermonkey_extensions.kind = "ruby" /\ init_spidermonkey_extensions.room = 1
  BY DEF convert_js_string_to_ruby, convert_regexp_to_ruby, convert_to_ruby,
         call_js_function_value, get, set, function_p, respond_to_p,
         native_call, each, length, function_property_p,
         call_function_property, to_s, make_ruby_land_proxy, global, set_trap,
         clear_trap, native_compile, evaluate_compiled_script,
         init_spidermonkey_extensions
<1> QED BY <1>1, FunctionsAre, BodyOf DEF RubyFunctions

(* The functions that return JS_FALSE. *)
LEMMA JSKinds ==
  \A g \in JSFunctions : /\ g \in Functions
      /\ Body[g].kind = "js" /\ Body[g].room \in Nat
<1>1. /\ convert_float_or_bignum_to_js.kind = "js" /\ convert_float_or_bignum_to_js.room = 0
      /\ convert_symbol_to_js.kind = "js" /\ convert_symbol_to_js.room = 2
      /\ convert_regexp_to_js.kind = "js" /\ convert_regexp_to_js.room = 0
      /\ convert_to_js.kind = "js" /\ convert_to_js.room = 0
      /\ js_value_is_regexp.kind = "js" /\ js_value_is_regexp.room = 1
      /\ call_ruby_from_js_va.kind = "js" /\ call_ruby_from_js_va.room = 0
      /\ call_ruby_from_js.kind = "js" /\ call_ruby_from_js.room = 0
      /\ js_value_is_symbol.kind = "js" /\ js_value_is_symbol.room = 3
      /\ unwrap_ruby_land_proxy.kind = "js" /\ unwrap_ruby_land_proxy.room = 0
      /\ js_get.kind = "js" /\ js_get.room = 1
      /\ get_and_destroy_resolved_property.kind = "js" /\ get_and_destroy_resolved_property.room = 1
      /\ js_set.kind = "js" /\ js_set.room = 2
      /\ construct.kind = "js" /\ construct.room = 0
      /\ resolve.kind = "js" /\ resolve.room = 1
      /\ to_string.kind = "js" /\ to_string.room = 0
      /\ to_array.kind = "js" /\ to_array.room = 0
      /\ method_missing.kind = "js" /\ method_missing.room = 0
      /\ call.kind = "js" /\ call.room = 0
      /\ finalize.kind = "js" /\ finalize.room = 0
      /\ make_js_land_proxy.kind = "js" /\ make_js_land_proxy.room = 2
      /\ trap_handler.kind = "js" /\ trap_handler.room = 0
      /\ gc_callback.kind = "js" /\ gc_callback.room = 0
      /\ define_property.kind = "js" /\ define_property.room = 0
      /\ global_resolve.kind = "js" /\ global_resolve.room = 0
      /\ debugger_hook.kind = "js" /\ debugger_hook.room = 0
  BY DEF convert_float_or_bignum_to_js, convert_symbol_to_js,
         convert_regexp_to_js, convert_to_js, js_value_is_regexp,
         call_ruby_from_js_va, call_ruby_from_js, js_value_is_symbol, unwrap_ruby_land_proxy, js_get,
         get_and_destroy_resolved_property, js_set, construct, resolve,
         to_string, to_array, method_missing, call, finalize,
         make_js_land_proxy, trap_handler, gc_callback, define_property,
         global_resolve, debugger_hook
<1> QED BY <1>1, FunctionsAre, BodyOf DEF JSFunctions

LEMMA FunctionIs ==
  ASSUME NEW f \in Functions
  PROVE  Body[f].kind \in {"ruby", "js"} /\ Body[f].room \in Nat
BY FunctionsAre, RubyKinds, JSKinds

LEMMA KeptClean ==
  ASSUME NEW f \in Functions, NEW t, t # <<>>, NEW V, Suits(Head(t), V, Body[f].kind, "clean")
  PROVE  Kept(f, <<t, <<>>>>)
<1>1. <<>> \in Cleanups /\ Len(<<>>) <= Body[f].room
  BY FunctionIs, CleanupsAre
<1> QED BY <1>1, KeptAt

(* How a function that raises ends after a failure. *)
LEMMA RaiseSafe ==
  ASSUME NEW f \in Functions, Body[f].kind = "ruby", NEW X
  PROVE  /\ Safe(f, <<<<Raise>>, <<>>>>, X)
         /\ Safe(f, <<raise_js_error_in_ruby, <<>>>>, X)
<1>1. Safe(f, <<<<Raise>>, <<>>>>, X)
  <2>1. Suits(Raise, {}, Body[f].kind, "clean")
    BY ErrorSteps DEF Suits
  <2> QED BY <2>1, KeptClean, Ending, ErrorSteps
<1>2. Safe(f, <<<<Bare, Raise>>, <<>>>>, X)
  <2>1. Suits(Bare, {}, Body[f].kind, "clean")
    BY ErrorSteps DEF Suits
  <2>2. Kept(f, <<<<Bare, Raise>>, <<>>>>)
    BY <2>1, KeptClean
  <2>3. Head(<<Bare, Raise>>) = Bare /\ Tail(<<Bare, Raise>>) = <<Raise>>
    OBVIOUS
  <2> QED BY <1>1, <2>2, <2>3, Passing, ErrorSteps
<1>3. Safe(f, <<RaiseJSError, <<>>>>, X)
  <2> DEFINE direct == Direct("convert_to_ruby")
  <2>1. CallsKind(direct, "ruby")
    BY ErrorSteps, RubyKinds DEF CallsKind, RubyFunctions
  <2>2. Suits(direct, {}, Body[f].kind, "clean")
    BY <2>1, ErrorSteps DEF Suits
  <2>3. /\ RaiseJSError # <<>> /\ Head(RaiseJSError) = direct
        /\ Tail(RaiseJSError) = <<Bare, Raise>>
    BY DEF RaiseJSError
  <2>4. Kept(f, <<RaiseJSError, <<>>>>)
    BY <2>2, <2>3, KeptClean
  <2> QED BY <1>2, <2>3, <2>4, Passing, ErrorSteps
<1>4. Safe(f, <<raise_js_error_in_ruby, <<>>>>, X)
  <2> DEFINE B == {RaiseJSError, <<Raise>>}
  <2>1. Kept(f, <<<<Either(B)>>, <<>>>>)
    BY ErrorSteps, CleanupsAre, FunctionIs DEF Kept
  <2>2. Tail(<<Either(B)>>) = <<>> /\ Head(<<Either(B)>>) = Either(B)
    OBVIOUS
  <2>3. \A b \in B : b \o <<>> = b
    <3>1. RaiseJSError \in Seq({Direct("convert_to_ruby"), Bare, Raise})
      BY DEF RaiseJSError
    <3> QED BY <3>1, TupleIsSeq, Conc, SeqIsSeq
  <2>4. \A b \in B : Safe(f, <<b \o <<>>, <<>>>>, X)
    BY <1>1, <1>3, <2>3
  <2> HIDE DEF B
  <2>5. Safe(f, <<<<Either(B)>>, <<>>>>, X)
    <3> DEFINE t == <<Either(B)>>
    <3>1. Head(t).do = "either" /\ Head(t).of = B /\ Tail(t) = <<>>
      BY <2>2, ErrorSteps
    <3> HIDE DEF t
    <3> QED BY <2>1, <2>4, <3>1, Branching DEF t
  <2> QED BY <2>5 DEF B, raise_js_error_in_ruby
<1> QED BY <1>1, <1>4

(* How a function that returns JS_FALSE ends after a failure. *)
LEMMA FailSafe ==
  ASSUME NEW f \in Functions, Body[f].kind = "js", NEW X
  PROVE  /\ Safe(f, <<<<Fail>>, <<>>>>, X)
         /\ Safe(f, <<report_ruby_error_in_js, <<>>>>, X)
<1>1. Safe(f, <<<<Fail>>, <<>>>>, X)
  <2>1. Suits(Fail, {}, Body[f].kind, "clean")
    BY ErrorSteps DEF Suits
  <2> QED BY <2>1, KeptClean, Ending, ErrorSteps
<1>2. Safe(f, <<<<Bare, Fail>>, <<>>>>, X)
  <2>1. Suits(Bare, {}, Body[f].kind, "clean")
    BY ErrorSteps DEF Suits
  <2>2. Kept(f, <<<<Bare, Fail>>, <<>>>>)
    BY <2>1, KeptClean
  <2>3. Head(<<Bare, Fail>>) = Bare /\ Tail(<<Bare, Fail>>) = <<Fail>>
    OBVIOUS
  <2> QED BY <1>1, <2>2, <2>3, Passing, ErrorSteps
<1>4. Safe(f, <<report_ruby_error_in_js, <<>>>>, X)
  <2> DEFINE B == {<<Bare, Fail>>, <<Fail>>}
  <2>1. Kept(f, <<<<Either(B)>>, <<>>>>)
    BY ErrorSteps, CleanupsAre, FunctionIs DEF Kept
  <2>2. Tail(<<Either(B)>>) = <<>> /\ Head(<<Either(B)>>) = Either(B)
    OBVIOUS
  <2>3. \A b \in B : b \o <<>> = b
    BY TupleIsSeq, Conc
  <2>4. \A b \in B : Safe(f, <<b \o <<>>, <<>>>>, X)
    BY <1>1, <1>2, <2>3
  <2> HIDE DEF B
  <2>5. Safe(f, <<<<Either(B)>>, <<>>>>, X)
    <3> DEFINE t == <<Either(B)>>
    <3>1. Head(t).do = "either" /\ Head(t).of = B /\ Tail(t) = <<>>
      BY <2>2, ErrorSteps
    <3> HIDE DEF t
    <3> QED BY <2>1, <2>4, <3>1, Branching DEF t
  <2> QED BY <2>5 DEF B, report_ruby_error_in_js
<1> QED BY <1>1, <1>4

(* JCHECK and JPROTECT are sound whatever is held. *)
LEMMA ChecksSafe ==
  ASSUME NEW f \in Functions, NEW X, NEW h \in Cleanups, Len(h) <= Body[f].room
  PROVE  /\ Safe(f, <<JCheck(Body[f].kind), h>>, X)
         /\ Safe(f, <<RaisedTodo(f), h>>, X)
<1>1. ASSUME NEW t, IsSeq(t), Safe(f, <<t, <<>>>>, X) PROVE Safe(f, <<<<Release>> \o t, h>>, X)
  <2>1. /\ Head(<<Release>> \o t) = Release /\ Tail(<<Release>> \o t) = t
        /\ <<Release>> \o t # <<>>
    <3>1. IsSeq(<<Release>>) /\ Head(<<Release>>) = Release /\ Tail(<<Release>>) = <<>>
      BY TupleIsSeq
    <3>2. <<>> \o t = t
      BY <1>1, Conc
    <3>3. Tail(<<Release>> \o t) = Tail(<<Release>>) \o t
      BY <1>1, <3>1, Conc
    <3> QED BY <1>1, <3>1, <3>2, <3>3, Conc, ZenonT(40)
  <2>2. Kept(f, <<<<Release>> \o t, h>>)
    BY <2>1, ErrorSteps DEF Kept
  <2> QED BY <1>1, <2>1, <2>2, Removing, ErrorSteps
<1>2. /\ IsSeq(<<Raise>>) /\ IsSeq(<<Fail>>)
      /\ IsSeq(raise_js_error_in_ruby) /\ IsSeq(report_ruby_error_in_js)
  BY TupleIsSeq DEF raise_js_error_in_ruby, report_ruby_error_in_js
<1> QED BY <1>1, <1>2, RaiseSafe, FailSafe, FunctionIs DEF JCheck, RaisedTodo
-----------------------------------------------------------------------------
(* Steps that leave the cleanups alone. *)
LEMMA Regroup ==
  ASSUME NEW V, NEW v \in Seq(V), NEW rest, IsSeq(rest)
  PROVE  \A s \in Seq(V) : s \o (v \o rest) = (s \o v) \o rest /\ s \o v \in Seq(V)
<1> TAKE s \in Seq(V)
<1>1. IsSeq(s) /\ IsSeq(v)
  BY SeqIsSeq
<1>2. (s \o v) \o rest = s \o (v \o rest)
  BY ONLY <1>1, ConcAssoc, Z3T(60)
<1>3. s \o v \in Seq(V)
  BY ConcatProperties
<1> QED BY <1>2, <1>3

(* One step of a sequence that fits. *)
LEMMA StraightStep ==
  ASSUME NEW f \in Functions, NEW Y, NEW V, NEW mode, Vocabulary(V, Body[f].kind, mode),
         NEW h \in Cleanups, Len(h) <= Body[f].room, mode = "clean" => h = <<>>,
         NEW rest, IsSeq(rest), \A s \in Seq(V) : Safe(f, <<s \o rest, h>>, Y),
         NEW u \in Seq(V), u # <<>>
  PROVE  /\ Kept(f, <<u \o rest, h>>)
         /\ \A q \in After(f, <<u \o rest, h>>) : Safe(f, q, Y)
<1> DEFINE t == u \o rest
           op == Head(u)
<1>1. IsSeq(u) /\ Tail(u) \in Seq(V) /\ op \in V
  BY SeqIsSeq
<1>2. /\ Head(t) = op /\ Tail(t) = Tail(u) \o rest /\ t # <<>>
      /\ IsSeq(Tail(u))
  BY <1>1, Conc
<1>3. Suits(op, V, Body[f].kind, mode)
  BY <1>1 DEF Vocabulary
<1>4. \A s \in Seq(V) : s \o Tail(t) = (s \o Tail(u)) \o rest /\ s \o Tail(u) \in Seq(V)
  <2>1. \A s \in Seq(V) : /\ s \o (Tail(u) \o rest) = (s \o Tail(u)) \o rest
                             /\ s \o Tail(u) \in Seq(V)
    BY <1>1, Regroup
  <2> HIDE DEF t
  <2> QED BY <1>2, <2>1
<1>5. \A s \in Seq(V) : s \o t = (s \o u) \o rest /\ s \o u \in Seq(V)
  BY Regroup
<1>6. IsSeq(Tail(t))
  BY <1>2, Conc
<1> HIDE DEF t
<1>7. Kept(f, <<t, h>>)
  BY <1>2, <1>3, KeptAt
<1>8. Safe(f, <<Tail(t), h>>, Y)
  BY <1>1, <1>2
<1>9. \A s \in Seq(V) : Safe(f, <<s \o Tail(t), h>>, Y)
  BY <1>4
<1>10. CASE op.do \in {"engine", "script", "call"}
  <2>1. "else" \in DOMAIN op => op.else \in Seq(V)
    BY <1>3, <1>10 DEF Suits
  <2>2. Safe(f, <<FalseTodo(f, t), h>>, Y)
    BY <1>2, <1>9, <2>1, ChecksSafe DEF FalseTodo
  <2>3. After(f, <<t, h>>) = {<<Tail(t), h>>, <<FalseTodo(f, t), h>>}
    BY <1>2, <1>10 DEF After
  <2> QED BY <1>7, <1>8, <2>2, <2>3 DEF t
<1>11. CASE op.do \in {"ruby", "protected"}
  <2>1. After(f, <<t, h>>) = {<<Tail(t), h>>, <<RaisedTodo(f), h>>}
    BY <1>2, <1>11 DEF After
  <2> QED BY <1>7, <1>8, <2>1, ChecksSafe DEF t
<1>12. CASE op.do \in {"bare", "coerce", "direct"}
  <2>1. After(f, <<t, h>>) = {<<Tail(t), h>>}
    BY <1>2, <1>12 DEF After
  <2> QED BY <1>7, <1>8, <2>1 DEF t
<1>13. CASE op.do = "either"
  <2>1. After(f, <<t, h>>) = {<<branch \o Tail(t), h>> : branch \in op.of}
    BY <1>2, <1>13 DEF After
  <2>2. \A b \in op.of : b \in Seq(V) \/ b = JError(Body[f].kind)
    BY <1>3, <1>13 DEF Suits
  <2>3. \A b \in op.of : Safe(f, <<b \o Tail(t), h>>, Y)
    BY <1>6, <1>9, <2>2, ErrorSafe, FunctionIs
  <2> QED BY <1>7, <2>1, <2>3 DEF t
<1>14. CASE op.do = "loop"
  <2>1. After(f, <<t, h>>) = {<<Tail(t), h>>, <<op.of \o t, h>>}
    BY <1>2, <1>14 DEF After
  <2>2. op.of \in Seq(V)
    BY <1>3, <1>14 DEF Suits
  <2>3. Safe(f, <<op.of \o t, h>>, Y)
    BY <1>5, <2>2 DEF t
  <2> QED BY <1>7, <1>8, <2>1, <2>3 DEF t
<1>15. CASE op.do = "remove"
  <2>1. After(f, <<t, h>>) = {<<Tail(t), <<>>>>}
    BY <1>2, <1>15 DEF After
  <2>2. h = <<>>
    BY <1>3, <1>15 DEF Suits
  <2> QED BY <1>7, <1>8, <2>1, <2>2 DEF t
<1>16. CASE op.do \in {"leave", "return", "fail", "raise", "null"}
  <2>1. After(f, <<t, h>>) = {}
    BY <1>2, <1>16 DEF After
  <2> QED BY <1>7, <2>1 DEF t
<1> QED BY <1>3, <1>10, <1>11, <1>12, <1>13, <1>14, <1>15, <1>16 DEF Suits

(* A sequence that fits, its loops and branches included, is safe before what is safe. *)
LEMMA Straight ==
  ASSUME NEW f \in Functions, NEW X, NEW mode, NEW s, AllFit(s, Body[f].kind, mode),
         NEW h \in Cleanups, Len(h) <= Body[f].room, mode = "clean" => h = <<>>,
         NEW rest, IsSeq(rest), Safe(f, <<rest, h>>, X)
  PROVE  Safe(f, <<s \o rest, h>>, X)
<1>1. PICK V : Vocabulary(V, Body[f].kind, mode) /\ s \in Seq(V)
  BY DEF AllFit
<1> DEFINE Q == {<<u \o rest, h>> : u \in Seq(V) \ {<<>>}}
           Y == X \cup Q
<1>2. \A u \in Seq(V) : Safe(f, <<u \o rest, h>>, Y)
  <2>1. <<>> \o rest = rest
    BY Conc
  <2>2. Safe(f, <<rest, h>>, Y)
    BY Weaker
  <2>3. \A u \in Seq(V) : u # <<>> => <<u \o rest, h>> \in Y
    OBVIOUS
  <2> HIDE DEF Y
  <2> QED BY <2>1, <2>2, <2>3, Within
<1>3. \A u \in Seq(V) : u # <<>> =>
        Kept(f, <<u \o rest, h>>) /\ \A q \in After(f, <<u \o rest, h>>) : Safe(f, q, Y)
  <2> HIDE DEF Y
  <2> QED BY <1>1, <1>2, StraightStep
<1>4. \A p \in Q : Kept(f, p) /\ \A q \in After(f, p) : Safe(f, q, X \cup Q)
  BY <1>3
<1> HIDE DEF Q
<1>5. \A p \in Q : Safe(f, p, X)
  BY <1>4, UpTo
<1>6. CASE s = <<>>
  BY <1>6, Conc
<1>7. CASE s # <<>>
  BY <1>1, <1>5, <1>7 DEF Q
<1> QED BY <1>6, <1>7
-----------------------------------------------------------------------------
(* What is left of a sequence of steps. *)
(* What is left of s from its step i on, and then w. *)
From(s, i, w) == SubSeq(s, i, Len(s)) \o w

LEMMA FromIs ==
  ASSUME NEW s, IsSeq(s), NEW w, IsSeq(w), NEW i \in 1..Len(s)
  PROVE  /\ IsSeq(From(s, i, w)) /\ From(s, i, w) # <<>>
         /\ Head(From(s, i, w)) = s[i] /\ Tail(From(s, i, w)) = From(s, i + 1, w)
         /\ IsSeq(From(s, i + 1, w))
<1> DEFINE r == SubSeq(s, i, Len(s))
<1>1. PICK S : s \in Seq(S)
  BY DEF IsSeq
<1>2. /\ r \in Seq(S) /\ r # <<>> /\ Head(r) = s[i]
      /\ Tail(r) = SubSeq(s, i + 1, Len(s))
  <2>1. Len(s) \in i..Len(s) /\ i \in Int /\ Len(s) \in Int
    BY <1>1
  <2>2. r \in Seq(S) /\ r # <<>>
    <3>1. \A k \in i..Len(s) : s[k] \in S
      BY <1>1
    <3>2. r \in Seq(S) /\ Len(r) = Len(s) - i + 1
      BY <2>1, <3>1, SubSeqProperties
    <3> HIDE DEF r
    <3> QED BY <2>1, <3>2
  <2> QED BY <1>1, <2>1, <2>2, HeadTailOfSubSeq
<1>3. IsSeq(r)
  BY <1>2, SeqIsSeq
<1> HIDE DEF r
<1>4. /\ IsSeq(r \o w) /\ r \o w # <<>> /\ Head(r \o w) = Head(r)
      /\ Tail(r \o w) = Tail(r) \o w
  BY <1>2, <1>3, Conc
<1>5. IsSeq(Tail(r) \o w)
  <2>1. IsSeq(Tail(r))
    BY <1>2, <1>3, Conc
  <2> QED BY <2>1, Conc
<1> QED BY <1>2, <1>4, <1>5 DEF From, r

LEMMA FromEnds ==
  ASSUME NEW s, IsSeq(s), NEW w, IsSeq(w)
  PROVE  From(s, 1, w) = s \o w /\ From(s, Len(s) + 1, w) = w
<1>1. PICK S : s \in Seq(S)
  BY DEF IsSeq
<1>2. SubSeq(s, 1, Len(s)) = s /\ SubSeq(s, Len(s) + 1, Len(s)) = <<>>
  BY <1>1
<1>3. <<>> \o w = w
  BY Conc
<1> QED BY <1>2, <1>3 DEF From

LEMMA FromAll == ASSUME NEW s, IsSeq(s) PROVE From(s, 1, <<>>) = s
<1>1. IsSeq(<<>>)
  BY TupleIsSeq
<1>2. From(s, 1, <<>>) = s \o <<>>
  BY <1>1, FromEnds
<1>3. s \o <<>> = s
  BY <1>1, Conc
<1> QED BY <1>2, <1>3

LEMMA FromSplit ==
  ASSUME NEW s, IsSeq(s), NEW w, IsSeq(w), NEW i \in 1..Len(s)
  PROVE  From(s, i, w) = <<s[i]>> \o From(s, i + 1, w)
<1> DEFINE a == <<s[i]>>
           b == SubSeq(s, i + 1, Len(s))
<1>1. PICK S : s \in Seq(S)
  BY DEF IsSeq
<1>2. Len(s) \in i..Len(s) /\ Len(s) \in Nat
  BY <1>1
<1>3. a \o b = SubSeq(s, i, Len(s))
  BY <1>1, <1>2, SubSeqRecursiveFirst
<1>4. b \in Seq(S)
  <2>1. \A k \in (i + 1)..Len(s) : s[k] \in S
    BY <1>1
  <2> QED BY <1>2, <2>1, SubSeqProperties
<1>5. IsSeq(a) /\ IsSeq(b) /\ IsSeq(w)
  BY <1>4, SeqIsSeq, TupleIsSeq
<1> HIDE DEF a, b
<1>6. (a \o b) \o w = a \o (b \o w)
  BY ONLY <1>5, ConcAssoc, Z3T(60)
<1> QED BY <1>3, <1>6 DEF From, a, b
-----------------------------------------------------------------------------
(* Rules for the steps of a function. *)
(* The function f can go on with t, whatever it holds, up to n cleanups.   *)
Ready(f, t, n, X) == \A h \in Cleanups : Len(h) <= n => Safe(f, <<t, h>>, X)

InRoom(f, n) == f \in Functions /\ n \in Nat /\ n <= Body[f].room
Mode(mode, n) == mode = "clean" => n = 0

LEMMA NothingHeld == \A h \in Cleanups : Len(h) <= 0 => h = <<>>
BY CleanupsAre

(* The same, whatever is held. *)
LEMMA StraightReady ==
  ASSUME NEW f, NEW n, InRoom(f, n), NEW mode, Mode(mode, n), NEW X,
         NEW s, AllFit(s, Body[f].kind, mode), NEW rest, IsSeq(rest), Ready(f, rest, n, X)
  PROVE  Ready(f, s \o rest, n, X)
<1> SUFFICES ASSUME NEW h \in Cleanups, Len(h) <= n PROVE Safe(f, <<s \o rest, h>>, X)
  BY DEF Ready
<1>1. Len(h) <= Body[f].room
  BY FunctionIs, CleanupsAre DEF InRoom
<1>2. mode = "clean" => h = <<>>
  BY NothingHeld DEF Mode
<1>3. Safe(f, <<rest, h>>, X)
  BY DEF Ready
<1> QED BY <1>1, <1>2, <1>3, Straight DEF InRoom

(* A step that leaves the cleanups alone, and fails properly. *)
LEMMA QuietSafe ==
  ASSUME NEW f \in Functions, NEW h \in Cleanups, Len(h) <= Body[f].room,
         NEW mode, mode = "clean" => h = <<>>, NEW X,
         NEW s, IsSeq(s), NEW w, IsSeq(w), NEW i \in 1..Len(s),
         Fits(s[i], Body[f].kind, mode), Safe(f, <<From(s, i + 1, w), h>>, X)
  PROVE  Safe(f, <<From(s, i, w), h>>, X)
<1>1. AllFit(<<s[i]>>, Body[f].kind, mode)
  BY TuplesFit
<1>2. From(s, i, w) = <<s[i]>> \o From(s, i + 1, w)
  BY FromSplit
<1>3. IsSeq(From(s, i + 1, w))
  BY FromIs
<1> QED BY <1>1, <1>2, <1>3, Straight

LEMMA QuietAt ==
  ASSUME NEW f, NEW n, InRoom(f, n), NEW mode, Mode(mode, n), NEW X,
         NEW s, IsSeq(s), NEW w, IsSeq(w), NEW i \in 1..Len(s),
         Fits(s[i], Body[f].kind, mode), Ready(f, From(s, i + 1, w), n, X)
  PROVE  Ready(f, From(s, i, w), n, X)
<1> SUFFICES ASSUME NEW h \in Cleanups, Len(h) <= n PROVE Safe(f, <<From(s, i, w), h>>, X)
  BY DEF Ready
<1>1. Len(h) <= Body[f].room /\ (mode = "clean" => h = <<>>)
  BY FunctionIs, CleanupsAre, NothingHeld DEF InRoom, Mode
<1>2. Safe(f, <<From(s, i + 1, w), h>>, X)
  BY DEF Ready
<1> QED BY <1>1, <1>2, QuietSafe DEF InRoom

Endings == {"leave", "return", "fail", "raise", "null"}

(* The end of the function. *)
LEMMA EndAt ==
  ASSUME NEW f, NEW n, InRoom(f, n), NEW mode, Mode(mode, n), NEW X,
         NEW s, IsSeq(s), NEW w, IsSeq(w), NEW i \in 1..Len(s),
         Fits(s[i], Body[f].kind, mode), s[i].do \in Endings
  PROVE  Ready(f, From(s, i, w), n, X)
<1> DEFINE t == From(s, i, w)
<1>1. t # <<>> /\ Head(t) = s[i]
  BY FromIs
<1>2. PICK V : Suits(Head(t), V, Body[f].kind, mode)
  BY <1>1 DEF Fits, Vocabulary
<1> SUFFICES ASSUME NEW h \in Cleanups, Len(h) <= n PROVE Safe(f, <<t, h>>, X)
  BY DEF Ready
<1> HIDE DEF t
<1>3. Len(h) <= Body[f].room
  BY FunctionIs, CleanupsAre DEF InRoom
<1>4. mode = "clean" => h = <<>>
  BY NothingHeld DEF Mode
<1>5. Kept(f, <<t, h>>)
  BY <1>1, <1>2, <1>3, <1>4, KeptAt
<1> QED BY <1>1, <1>5, Ending DEF Endings

(* A root or a cleanup. *)
LEMMA RootSafe ==
  ASSUME NEW f \in Functions, NEW h \in Cleanups, Len(h) <= Body[f].room, NEW X,
         NEW s, IsSeq(s), NEW w, IsSeq(w), NEW i \in 1..Len(s),
         NEW x \in Names, s[i] = Root(x) \/ s[i] = Cleanup(x),
         Safe(f, <<From(s, i + 1, w), Append(h, x)>>, X)
  PROVE  Safe(f, <<From(s, i, w), h>>, X)
<1> DEFINE t == From(s, i, w)
<1>1. t # <<>> /\ Head(t) = s[i] /\ Tail(t) = From(s, i + 1, w)
  BY FromIs
<1> HIDE DEF t
<1>2. /\ Head(t).do \in {"root", "cleanup"} /\ Head(t).of = x
      /\ "else" \notin DOMAIN Head(t)
  BY <1>1, SMTT(40) DEF Root, Cleanup
<1>3. Kept(f, <<t, h>>)
  BY <1>1, <1>2 DEF Kept
<1>4. Safe(f, <<FalseTodo(f, t), h>>, X)
  BY <1>2, ChecksSafe DEF FalseTodo
<1>5. \A q \in After(f, <<t, h>>) : q \in {<<Tail(t), Append(h, x)>>, <<FalseTodo(f, t), h>>}
  BY <1>2 DEF After
<1>6. Safe(f, <<t, h>>, X)
  BY <1>1, <1>3, <1>4, <1>5, Fold
<1> QED BY <1>6 DEF t

LEMMA RootAt ==
  ASSUME NEW f, NEW n, InRoom(f, n), InRoom(f, n + 1), NEW X,
         NEW s, IsSeq(s), NEW w, IsSeq(w), NEW i \in 1..Len(s),
         NEW x \in Names, s[i] = Root(x) \/ s[i] = Cleanup(x),
         Ready(f, From(s, i + 1, w), n + 1, X)
  PROVE  Ready(f, From(s, i, w), n, X)
<1> SUFFICES ASSUME NEW h \in Cleanups, Len(h) <= n PROVE Safe(f, <<From(s, i, w), h>>, X)
  BY DEF Ready
<1>1. Len(h) <= Body[f].room /\ Append(h, x) \in Cleanups /\ Len(Append(h, x)) <= n + 1
  BY FunctionIs, CleanupsAre, SMTT(40) DEF InRoom
<1>2. Safe(f, <<From(s, i + 1, w), Append(h, x)>>, X)
  BY <1>1 DEF Ready
<1> QED BY <1>1, <1>2, RootSafe DEF InRoom

(* The cleanups are done before the function ends. *)
LEMMA ReleaseAt ==
  ASSUME NEW f, NEW n, InRoom(f, n), NEW X,
         NEW s, IsSeq(s), NEW w, IsSeq(w), NEW i \in 1..Len(s),
         s[i] = Release, Ready(f, From(s, i + 1, w), 0, X)
  PROVE  Ready(f, From(s, i, w), n, X)
<1> DEFINE t == From(s, i, w)
<1>1. t # <<>> /\ Head(t) = s[i] /\ Tail(t) = From(s, i + 1, w)
  BY FromIs
<1> SUFFICES ASSUME NEW h \in Cleanups, Len(h) <= n PROVE Safe(f, <<t, h>>, X)
  BY DEF Ready
<1> HIDE DEF t
<1>2. Len(h) <= Body[f].room
  BY FunctionIs, CleanupsAre DEF InRoom
<1>3. Safe(f, <<Tail(t), <<>>>>, X)
  BY <1>1, CleanupsAre DEF Ready
<1>4. Kept(f, <<t, h>>)
  BY <1>1, <1>2, ErrorSteps DEF Kept
<1> QED BY <1>1, <1>3, <1>4, Removing, ErrorSteps

(* Branches, of which some may register roots. *)
LEMMA EitherAt ==
  ASSUME NEW f, NEW n, InRoom(f, n), NEW mode, Mode(mode, n), NEW X,
         NEW s, IsSeq(s), NEW w, IsSeq(w), NEW i \in 1..Len(s),
         NEW B, s[i] = Either(B), Ready(f, From(s, i + 1, w), n, X),
         \A b \in B : \/ AllFit(b, Body[f].kind, mode)
                      \/ b = JError(Body[f].kind)
                      \/ Ready(f, From(b, 1, From(s, i + 1, w)), n, X) /\ IsSeq(b)
  PROVE  Ready(f, From(s, i, w), n, X)
<1> DEFINE t == From(s, i, w)
           r == From(s, i + 1, w)
<1>1. t # <<>> /\ Head(t) = s[i] /\ Tail(t) = r /\ IsSeq(r)
  BY FromIs
<1>2. \A b \in B : Ready(f, b \o r, n, X) \/ b = JError(Body[f].kind)
  BY <1>1, StraightReady, FromEnds, ZenonT(40)
<1> SUFFICES ASSUME NEW h \in Cleanups, Len(h) <= n PROVE Safe(f, <<t, h>>, X)
  BY DEF Ready
<1> HIDE DEF t, r
<1>3. Len(h) <= Body[f].room
  BY FunctionIs, CleanupsAre DEF InRoom
<1>4. \A b \in B : Safe(f, <<b \o r, h>>, X)
  BY <1>1, <1>2, <1>3, ErrorSafe, FunctionIs DEF Ready, InRoom
<1>5. Head(t).do = "either" /\ Head(t).of = B
  BY <1>1, ErrorSteps
<1>6. Kept(f, <<t, h>>)
  BY <1>1, <1>3, <1>5 DEF Kept
<1> QED BY <1>1, <1>4, <1>5, <1>6, Branching

LEMMA LessHeld ==
  ASSUME NEW f, NEW n \in Nat, NEW m \in Nat, m <= n, NEW X, NEW t, Ready(f, t, n, X)
  PROVE  Ready(f, t, m, X)
BY CleanupsAre DEF Ready

LEMMA Starts ==
  ASSUME NEW f \in Functions, IsSeq(Body[f].todo),
         \A X : Ready(f, From(Body[f].todo, 1, <<>>), 0, X)
  PROVE  Sound(f, <<Body[f].todo, <<>>>>)
<1>1. From(Body[f].todo, 1, <<>>) = Body[f].todo
  BY FromAll
<1> QED BY <1>1, CleanupsAre DEF Ready, Sound

LEMMA LongTuples ==
  /\ \A a, b, c : IsSeq(<<a, b, c>>)
  /\ \A a, b, c, d : IsSeq(<<a, b, c, d>>)
  /\ \A a, b, c, d, e : IsSeq(<<a, b, c, d, e>>)
  /\ \A a, b, c, d, e, g : IsSeq(<<a, b, c, d, e, g>>)
  /\ \A a, b, c, d, e, g, h : IsSeq(<<a, b, c, d, e, g, h>>)
  /\ \A a, b, c, d, e, g, h, i : IsSeq(<<a, b, c, d, e, g, h, i>>)
  /\ \A a, b, c, d, e, g, h, i, j : IsSeq(<<a, b, c, d, e, g, h, i, j>>)
<1>1. \A a, b, c : <<a, b, c>> \in Seq({a, b, c})
  OBVIOUS
<1>2. \A a, b, c, d : <<a, b, c, d>> \in Seq({a, b, c, d})
  OBVIOUS
<1>3. \A a, b, c, d, e : <<a, b, c, d, e>> \in Seq({a, b, c, d, e})
  OBVIOUS
<1>4. \A a, b, c, d, e, g : <<a, b, c, d, e, g>> \in Seq({a, b, c, d, e, g})
  OBVIOUS
<1>5. \A a, b, c, d, e, g, h : <<a, b, c, d, e, g, h>> \in Seq({a, b, c, d, e, g, h})
  OBVIOUS
<1>6. \A a, b, c, d, e, g, h, i :
        <<a, b, c, d, e, g, h, i>> \in Seq({a, b, c, d, e, g, h, i})
  OBVIOUS
<1>7. \A a, b, c, d, e, g, h, i, j :
        <<a, b, c, d, e, g, h, i, j>> \in Seq({a, b, c, d, e, g, h, i, j})
  OBVIOUS
<1> QED BY <1>1, <1>2, <1>3, <1>4, <1>5, <1>6, <1>7, SeqIsSeq

LEMMA EachFits ==
  ASSUME NEW s, NEW k, NEW mode, AllFit(s, k, mode)
  PROVE  IsSeq(s) /\ \A m \in 1..Len(s) : Fits(s[m], k, mode)
BY SeqIsSeq DEF AllFit, Fits

LEMMA LongTuplesFit ==
  ASSUME NEW k, NEW mode
  PROVE  /\ \A a, b, c, d : /\ Fits(a, k, mode) /\ Fits(b, k, mode)
                            /\ Fits(c, k, mode) /\ Fits(d, k, mode)
                            => AllFit(<<a, b, c, d>>, k, mode)
         /\ \A a, b, c, d, e : /\ Fits(a, k, mode) /\ Fits(b, k, mode) /\ Fits(c, k, mode)
                               /\ Fits(d, k, mode) /\ Fits(e, k, mode)
                               => AllFit(<<a, b, c, d, e>>, k, mode)
<1>1. ASSUME NEW a, NEW b, NEW c, NEW d,
             Fits(a, k, mode), Fits(b, k, mode), Fits(c, k, mode), Fits(d, k, mode)
      PROVE  AllFit(<<a, b, c, d>>, k, mode)
  BY <1>1, LongTuples, FitsEach
<1>2. ASSUME NEW a, NEW b, NEW c, NEW d, NEW e, Fits(a, k, mode), Fits(b, k, mode),
             Fits(c, k, mode), Fits(d, k, mode), Fits(e, k, mode)
      PROVE  AllFit(<<a, b, c, d, e>>, k, mode)
  BY <1>2, LongTuples, FitsEach
<1> QED BY <1>1, <1>2

LEMMA ConcFits ==
  ASSUME NEW s, NEW t, NEW k, NEW mode, AllFit(s, k, mode), AllFit(t, k, mode)
  PROVE  AllFit(s \o t, k, mode)
<1>1. PICK V : Vocabulary(V, k, mode) /\ s \in Seq(V)
  BY DEF AllFit
<1>2. PICK W : Vocabulary(W, k, mode) /\ t \in Seq(W)
  BY DEF AllFit
<1>3. Vocabulary(V \cup W, k, mode)
  BY <1>1, <1>2, SuitsMore DEF Vocabulary
<1>4. s \in Seq(V \cup W) /\ t \in Seq(V \cup W)
  BY <1>1, <1>2, SeqMonotonic
<1>5. s \o t \in Seq(V \cup W)
  BY <1>4, ConcatProperties
<1> QED BY <1>3, <1>5 DEF AllFit

LEMMA RubyFits ==
  ASSUME NEW k, NEW mode
  PROVE  /\ AllFit(CallRuby, k, mode) /\ AllFit(CallRuby2, k, mode)
         /\ \A b, c : AllFit(b, k, mode) /\ AllFit(c, k, mode) => AllFit(IfRuby(b, c), k, mode)
         /\ \A b : AllFit(b, k, mode) \/ b = JError(k) => Fits(Maybe(b), k, mode)
         /\ Fits(Unchecked, k, mode) /\ Fits(UncheckedEngine, k, mode)
<1>1. AllFit(CallRuby, k, mode) /\ AllFit(CallRuby2, k, mode)
  <2>1. \A g \in {"call_ruby_from_js", "call_ruby_from_js_va"} :
          Body[g].kind = "js" /\ g \in Functions
    BY JSKinds, FunctionsAre DEF JSFunctions
  <2> QED BY <2>1, TuplesFit, FitsCalls DEF CallRuby, CallRuby2
<1>2. ASSUME NEW b, NEW c, AllFit(b, k, mode), AllFit(c, k, mode)
      PROVE  AllFit(IfRuby(b, c), k, mode)
  BY <1>2, TuplesFit, FitsPlain, FitsEither DEF IfRuby
<1>3. ASSUME NEW b, AllFit(b, k, mode) \/ b = JError(k) PROVE Fits(Maybe(b), k, mode)
  BY <1>3, FitsNone, FitsEither DEF Maybe
<1>4. Fits(Unchecked, k, mode) /\ Fits(UncheckedEngine, k, mode)
  <2>1. AllFit(<<UsesNull>>, k, mode)
    BY FitsPlain, TuplesFit
  <2> QED BY <2>1, FitsHandled DEF Unchecked, UncheckedEngine
<1> QED BY <1>1, <1>2, <1>3, <1>4
-----------------------------------------------------------------------------
(* Proof outlines. *)
Below == {ss \in Nat \X Nat : ss[1] < ss[2]}

LEMMA LeastExists ==
  ASSUME NEW J, J \subseteq Nat, J # {}
  PROVE  \E k \in J : \A l \in J : k <= l
<1>1. IsWellFoundedOn(Below, Nat)
  BY NatLessThanWellFounded DEF OpToRel, Below
<1>2. PICK k \in J : \A l \in J : ~ (<<l, k>> \in Below)
  BY <1>1, WFMin
<1>3. ASSUME NEW l \in J, l < k PROVE FALSE
  <2>1. <<l, k>> \in Nat \X Nat /\ <<l, k>>[1] < <<l, k>>[2]
    BY <1>3
  <2> QED BY <1>2, <2>1 DEF Below
<1> QED BY <1>3

LEMMA GreatestExists ==
  ASSUME NEW n \in Nat, NEW I, I \subseteq 1..n, I # {}
  PROVE  \E i \in I : \A j \in I : j <= i
<1> DEFINE J == {n - i : i \in I}
<1>1. J \subseteq Nat /\ J # {}
  <2>1. \A i \in I : n - i \in Nat
    OBVIOUS
  <2> QED BY <2>1
<1> HIDE DEF J
<1>2. PICK k \in J : \A l \in J : k <= l
  BY <1>1, LeastExists
<1> USE DEF J
<1>3. PICK i \in I : k = n - i
  BY <1>2
<1>4. \A j \in I : n - j \in J
  OBVIOUS
<1>5. \A j \in I : n - i <= n - j
  BY <1>2, <1>3, <1>4
<1> QED BY <1>5

(* A proof outline of s: c bounds what is held before each step. *)
FollowsOutline(f, s, c, m) ==
    \/ \E mode \in {"clean", "held"} :
         /\ Fits(s[m], Body[f].kind, mode) /\ (mode = "clean" => c[m] = 0)
         /\ c[m] <= c[m + 1]
    \/ s[m] = Release
    \/ c[m] < c[m + 1] /\ \E x \in Names : s[m] = Root(x) \/ s[m] = Cleanup(x)

(* An outline holds from any of its steps on. *)
LEMMA Outline ==
  ASSUME NEW f, NEW X, NEW s, IsSeq(s), NEW w, IsSeq(w), NEW c,
         NEW from \in 1..Len(s), NEW to \in from..(Len(s) + 1),
         \A m \in from..to : InRoom(f, c[m]),
         \A m \in from..(to - 1) : FollowsOutline(f, s, c, m),
         Ready(f, From(s, to, w), c[to], X)
  PROVE  Ready(f, From(s, from, w), c[from], X)
<1> DEFINE Bad == {m \in from..(to - 1) : ~ Ready(f, From(s, m, w), c[m], X)}
<1>1. Len(s) \in Nat /\ to \in Nat /\ from \in Nat
  BY DEF IsSeq
<1>2. CASE from = to
  BY <1>2
<1>3. SUFFICES ASSUME from < to, Bad # {} PROVE FALSE
  BY <1>1, <1>2
<1>4. PICK m \in Bad : \A j \in Bad : j <= m
  <2>1. Bad \subseteq 1..to
    BY <1>1
  <2> HIDE DEF Bad
  <2> QED BY <1>1, <1>3, <2>1, GreatestExists
<1>5. m \in 1..Len(s) /\ InRoom(f, c[m]) /\ FollowsOutline(f, s, c, m)
  BY <1>1
<1>6. InRoom(f, c[m + 1]) /\ Ready(f, From(s, m + 1, w), c[m + 1], X)
  <2>1. m + 1 \in from..to /\ m + 1 \notin Bad
    BY <1>1, <1>4
  <2>2. m + 1 = to \/ m + 1 \in from..(to - 1)
    BY <1>1
  <2> QED BY <2>1, <2>2
<1>7. ASSUME NEW n \in Nat, n <= c[m + 1] PROVE Ready(f, From(s, m + 1, w), n, X)
  BY <1>6, <1>7, LessHeld DEF InRoom
<1>8. IsSeq(s) /\ IsSeq(w)
  OBVIOUS
<1>9. ASSUME NEW mode, Mode(mode, c[m]), Fits(s[m], Body[f].kind, mode), c[m] <= c[m + 1]
      PROVE  Ready(f, From(s, m, w), c[m], X)
  <2>1. Ready(f, From(s, m + 1, w), c[m], X)
    BY <1>5, <1>7, <1>9 DEF InRoom
  <2> QED BY ONLY <1>5, <1>8, <1>9, <2>1, QuietAt
<1>10. ASSUME s[m] = Release PROVE Ready(f, From(s, m, w), c[m], X)
  <2>1. Ready(f, From(s, m + 1, w), 0, X)
    BY <1>6, <1>7 DEF InRoom
  <2> QED BY ONLY <1>5, <1>8, <1>10, <2>1, ReleaseAt
<1>11. ASSUME c[m] < c[m + 1], NEW x \in Names, s[m] = Root(x) \/ s[m] = Cleanup(x)
       PROVE  Ready(f, From(s, m, w), c[m], X)
  <2>1. InRoom(f, c[m] + 1) /\ Ready(f, From(s, m + 1, w), c[m] + 1, X)
    BY <1>5, <1>6, <1>7, <1>11, FunctionIs, SMTT(40) DEF InRoom
  <2> QED BY ONLY <1>5, <1>8, <1>11, <2>1, RootAt
<1>12. Ready(f, From(s, m, w), c[m], X)
  BY <1>5, <1>9, <1>10, <1>11 DEF FollowsOutline, Mode
<1> QED BY <1>12

(* The outline of a whole function ends with a step that leaves it. *)
EndsOutline(f, s, c) ==
    \E mode \in {"clean", "held"} :
      /\ Fits(s[Len(s)], Body[f].kind, mode) /\ (mode = "clean" => c[Len(s)] = 0)
      /\ s[Len(s)].do \in Endings

(* An outline up to the end of the function. *)
LEMMA OutlineEnds ==
  ASSUME NEW f, NEW X, NEW s, IsSeq(s), NEW w, IsSeq(w), NEW c, NEW from \in 1..Len(s),
         \A m \in from..Len(s) : InRoom(f, c[m]),
         \A m \in from..(Len(s) - 1) : FollowsOutline(f, s, c, m),
         EndsOutline(f, s, c)
  PROVE  Ready(f, From(s, from, w), c[from], X)
<1> DEFINE to == Len(s)
<1>1. to \in Nat /\ to \in from..(Len(s) + 1) /\ to \in 1..Len(s) /\ to \in from..to
  BY DEF IsSeq
<1>2. IsSeq(s) /\ IsSeq(w) /\ InRoom(f, c[to])
  BY <1>1
<1>3. PICK mode : /\ Fits(s[to], Body[f].kind, mode) /\ Mode(mode, c[to])
                  /\ s[to].do \in Endings
  BY DEF EndsOutline, Mode
<1>4. Ready(f, From(s, to, w), c[to], X)
  BY ONLY <1>1, <1>2, <1>3, EndAt
<1>5. /\ \A m \in from..to : InRoom(f, c[m])
      /\ \A m \in from..(to - 1) : FollowsOutline(f, s, c, m)
  OBVIOUS
<1> HIDE DEF to
<1> QED BY <1>1, <1>2, <1>4, <1>5, Outline

(* A function with a complete outline is sound. *)
LEMMA OutlineSound ==
  ASSUME NEW f \in Functions, NEW c, IsSeq(Body[f].todo), Body[f].todo # <<>>, c[1] = 0,
         \A m \in 1..Len(Body[f].todo) : c[m] \in 0..Body[f].room,
         \A m \in 1..(Len(Body[f].todo) - 1) : FollowsOutline(f, Body[f].todo, c, m),
         EndsOutline(f, Body[f].todo, c)
  PROVE  Sound(f, <<Body[f].todo, <<>>>>)
<1> DEFINE s == Body[f].todo
<1>1. IsSeq(s) /\ IsSeq(<<>>) /\ s # <<>> /\ Len(s) \in Nat
  BY TupleIsSeq DEF IsSeq
<1>2. 1 \in 1..Len(s)
  BY <1>1 DEF IsSeq
<1>3. /\ \A m \in 1..Len(s) : InRoom(f, c[m])
      /\ \A m \in 1..(Len(s) - 1) : FollowsOutline(f, s, c, m)
      /\ EndsOutline(f, s, c)
  BY FunctionIs DEF InRoom
<1>4. ASSUME NEW X PROVE Ready(f, From(s, 1, <<>>), 0, X)
  <2> HIDE DEF s
  <2>1. Ready(f, From(s, 1, <<>>), c[1], X)
    BY <1>1, <1>2, <1>3, OutlineEnds
  <2> QED BY <2>1
<1> QED BY <1>1, <1>4, Starts

(* Functions without roots. *)
LEMMA RootlessSound ==
  ASSUME NEW f \in Functions, AllFit(Body[f].todo, Body[f].kind, "clean"),
         Body[f].todo # <<>>, Body[f].todo[Len(Body[f].todo)].do \in Endings
  PROVE  Sound(f, <<Body[f].todo, <<>>>>)
<1> DEFINE s == Body[f].todo
           c == [m \in 1..Len(s) |-> 0]
<1>1. IsSeq(s) /\ \A m \in 1..Len(s) : Fits(s[m], Body[f].kind, "clean")
  BY EachFits
<1>2. 1 \in 1..Len(s)
  BY <1>1 DEF IsSeq
<1>3. c[1] = 0
  BY <1>2
<1>4. /\ \A m \in 1..Len(s) : c[m] \in 0..Body[f].room
      /\ \A m \in 1..(Len(s) - 1) : FollowsOutline(f, s, c, m)
      /\ EndsOutline(f, s, c)
  <2>1. Len(s) \in 1..Len(s) /\ s[Len(s)].do \in Endings
    BY <1>1 DEF IsSeq
  <2>2. \A m \in 1..Len(s) : c[m] = 0
    OBVIOUS
  <2>3. \A m \in 1..(Len(s) - 1) : m \in 1..Len(s) /\ m + 1 \in 1..Len(s)
    BY <1>1 DEF IsSeq
  <2> HIDE DEF s, c
  <2> QED BY <1>1, <2>1, <2>2, <2>3, FunctionIs, SMTT(40) DEF FollowsOutline, EndsOutline
<1> HIDE DEF c
<1> QED BY <1>1, <1>3, <1>4, OutlineSound

(* Functions without roots that end with JRETURN. *)
LEMMA LeavesSound ==
  ASSUME NEW f \in Functions, NEW s, AllFit(s, Body[f].kind, "clean"),
         Body[f].todo = s \o <<Leave>>
  PROVE  Sound(f, <<Body[f].todo, <<>>>>)
<1>1. IsSeq(s) /\ IsSeq(<<Leave>>) /\ IsSeq(<<>>)
  BY EachFits, TupleIsSeq
<1>2. InRoom(f, 0) /\ Mode("clean", 0)
  BY FunctionIs DEF InRoom, Mode
<1>3. ASSUME NEW X PROVE Ready(f, <<Leave>>, 0, X)
  <2> DEFINE t == <<Leave>>
  <2>1. /\ 1 \in 1..Len(t) /\ t[1] = Leave /\ Leave.do \in Endings
        /\ Fits(Leave, Body[f].kind, "clean")
    BY FitsPlain DEF Leave, Endings
  <2>2. From(t, 1, <<>>) = t
    BY <1>1, FromAll
  <2> HIDE DEF t
  <2>3. Ready(f, From(t, 1, <<>>), 0, X)
    BY <1>1, <1>2, <2>1, EndAt DEF t
  <2> QED BY <2>2, <2>3 DEF t
<1>4. ASSUME NEW X PROVE Ready(f, s \o <<Leave>>, 0, X)
  BY <1>1, <1>2, <1>3, StraightReady
<1>5. IsSeq(s \o <<Leave>>)
  BY <1>1, Conc
<1>6. From(s \o <<Leave>>, 1, <<>>) = s \o <<Leave>>
  BY <1>5, FromAll
<1> QED BY <1>4, <1>5, <1>6, Starts

(* Every call of a function of the right kind fits. *)
LEMMA Callable ==
  /\ JSFunctions \subseteq Functions /\ RubyFunctions \subseteq Functions
  /\ \A g \in JSFunctions : \A k, mode : Fits(Call(g), k, mode)
  /\ \A g \in RubyFunctions : \A k, mode : Fits(Protected(g), k, mode)
  /\ \A g \in RubyFunctions : Fits(Direct(g), "ruby", "clean")
BY FunctionsAre, RubyKinds, JSKinds, FitsCalls, FitsPlain, FitsClean
-----------------------------------------------------------------------------
(* The functions, one after another. *)
(* Everything f can do keeps to the rules. *)
Verified(f) == Sound(f, <<Body[f].todo, <<>>>>)

LEMMA RootlessRule ==
  ASSUME NEW f \in Functions, NEW s, NEW k, Body[f].todo = s, Body[f].kind = k,
         AllFit(s, k, "clean"), s # <<>>, s[Len(s)].do \in Endings
  PROVE  Verified(f)
BY RootlessSound DEF Verified

LEMMA LeavesRule ==
  ASSUME NEW f \in Functions, NEW s, NEW k, Body[f].todo = s \o <<Leave>>, Body[f].kind = k,
         AllFit(s, k, "clean")
  PROVE  Verified(f)
BY LeavesSound DEF Verified

LEMMA RaiseJSErrorFits == AllFit(RaiseJSError, "ruby", "clean")
BY Callable, FitsPlain, FitsClean, TuplesFit DEF RaiseJSError, RubyFunctions

(* What a function does itself about a failure. *)
LEMMA Handlers ==
  /\ AllFit(<<Raise>>, "ruby", "clean")
  /\ Fits(CallOr("convert_to_js", <<Raise>>), "ruby", "clean")
  /\ Fits(EngineOr(<<Direct("make_ruby_land_proxy"), Return>>), "ruby", "clean")
  /\ Fits(ScriptOr(<<Maybe(RaiseJSError)>>), "ruby", "clean")
<1>1. AllFit(<<Raise>>, "ruby", "clean")
  BY FitsClean, TuplesFit
<1>2. AllFit(<<Maybe(RaiseJSError)>>, "ruby", "clean")
  BY RaiseJSErrorFits, RubyFits, TuplesFit
<1>3. "convert_to_js" \in Functions /\ Body["convert_to_js"].kind = "js"
  BY Callable, JSKinds DEF JSFunctions
<1>4. AllFit(<<Direct("make_ruby_land_proxy"), Return>>, "ruby", "clean")
  BY Callable, FitsClean, TuplesFit DEF RubyFunctions
<1> QED BY <1>1, <1>2, <1>3, <1>4, FitsHandled

(* Functions without roots. *)
LEMMA RootlessFunctions ==
  \A f \in {"convert_float_or_bignum_to_js", "convert_regexp_to_js",
              "unwrap_ruby_land_proxy", "finalize", "global", "trap_handler",
              "gc_callback", "define_property", "global_resolve", "debugger_hook",
              "native_call", "set_trap", "clear_trap", "native_compile",
              "evaluate_compiled_script", "call_ruby_from_js_va", "call_ruby_from_js"} :
    Verified(f)
<1>1. Verified("convert_float_or_bignum_to_js")
  <2> DEFINE s == <<Engine, Return>>
  <2>1. AllFit(s, "js", "clean")
    BY FitsCalls, FitsClean, TuplesFit, LongTuplesFit
  <2>2. s # <<>> /\ s[Len(s)].do \in Endings
    BY DEF Endings, Return
  <2>3. /\ Body["convert_float_or_bignum_to_js"].todo = s
        /\ Body["convert_float_or_bignum_to_js"].kind = "js"
        /\ "convert_float_or_bignum_to_js" \in Functions
    BY BodyOf, Callable DEF convert_float_or_bignum_to_js, JSFunctions
  <2> HIDE DEF s
  <2> QED BY <2>1, <2>2, <2>3, RootlessRule
<1>2. Verified("convert_regexp_to_js")
  <2> DEFINE s == <<Bare, Ruby, Bare, Engine, Leave>>
  <2>1. AllFit(s, "js", "clean")
    BY FitsCalls, FitsPlain, TuplesFit, LongTuplesFit
  <2>2. s # <<>> /\ s[Len(s)].do \in Endings
    BY DEF Endings, Leave
  <2>3. /\ Body["convert_regexp_to_js"].todo = s /\ Body["convert_regexp_to_js"].kind = "js"
        /\ "convert_regexp_to_js" \in Functions
    BY BodyOf, Callable DEF convert_regexp_to_js, JSFunctions
  <2> HIDE DEF s
  <2> QED BY <2>1, <2>2, <2>3, RootlessRule
<1>3. Verified("unwrap_ruby_land_proxy")
  <2> DEFINE s == <<Leave>>
  <2>1. AllFit(s, "js", "clean")
    BY FitsPlain, TuplesFit, LongTuplesFit
  <2>2. s # <<>> /\ s[Len(s)].do \in Endings
    BY DEF Endings, Leave
  <2>3. /\ Body["unwrap_ruby_land_proxy"].todo = s /\ Body["unwrap_ruby_land_proxy"].kind = "js"
        /\ "unwrap_ruby_land_proxy" \in Functions
    BY BodyOf, Callable DEF unwrap_ruby_land_proxy, JSFunctions
  <2> HIDE DEF s
  <2> QED BY <2>1, <2>2, <2>3, RootlessRule
<1>4. Verified("finalize")
  <2> DEFINE s == <<Bare, Return>>
  <2>1. AllFit(s, "js", "clean")
    BY FitsPlain, FitsClean, TuplesFit, LongTuplesFit
  <2>2. s # <<>> /\ s[Len(s)].do \in Endings
    BY DEF Endings, Return
  <2>3. /\ Body["finalize"].todo = s /\ Body["finalize"].kind = "js"
        /\ "finalize" \in Functions
    BY BodyOf, Callable DEF finalize, JSFunctions
  <2> HIDE DEF s
  <2> QED BY <2>1, <2>2, <2>3, RootlessRule
<1>5. Verified("global")
  <2> DEFINE s == <<Direct("convert_to_ruby"), Return>>
  <2>1. AllFit(s, "ruby", "clean")
    BY Callable, FitsClean, TuplesFit, LongTuplesFit DEF RubyFunctions
  <2>2. s # <<>> /\ s[Len(s)].do \in Endings
    BY DEF Endings, Return
  <2>3. /\ Body["global"].todo = s /\ Body["global"].kind = "ruby"
        /\ "global" \in Functions
    BY BodyOf, Callable DEF global, RubyFunctions
  <2> HIDE DEF s
  <2> QED BY <2>1, <2>2, <2>3, RootlessRule
<1>6. Verified("trap_handler")
  <2> DEFINE s == <<Ruby, Return>>
  <2>1. AllFit(s, "js", "clean")
    BY FitsPlain, FitsClean, TuplesFit, LongTuplesFit
  <2>2. s # <<>> /\ s[Len(s)].do \in Endings
    BY DEF Endings, Return
  <2>3. /\ Body["trap_handler"].todo = s /\ Body["trap_handler"].kind = "js"
        /\ "trap_handler" \in Functions
    BY BodyOf, Callable DEF trap_handler, JSFunctions
  <2> HIDE DEF s
  <2> QED BY <2>1, <2>2, <2>3, RootlessRule
<1>7. Verified("gc_callback")
  <2> DEFINE s == <<Bare, Return>>
  <2>1. AllFit(s, "js", "clean")
    BY FitsPlain, FitsClean, TuplesFit, LongTuplesFit
  <2>2. s # <<>> /\ s[Len(s)].do \in Endings
    BY DEF Endings, Return
  <2>3. /\ Body["gc_callback"].todo = s /\ Body["gc_callback"].kind = "js"
        /\ "gc_callback" \in Functions
    BY BodyOf, Callable DEF gc_callback, JSFunctions
  <2> HIDE DEF s
  <2> QED BY <2>1, <2>2, <2>3, RootlessRule
<1>8. Verified("define_property")
  <2> DEFINE s == <<Engine, Return>>
  <2>1. AllFit(s, "js", "clean")
    BY FitsCalls, FitsClean, TuplesFit, LongTuplesFit
  <2>2. s # <<>> /\ s[Len(s)].do \in Endings
    BY DEF Endings, Return
  <2>3. /\ Body["define_property"].todo = s /\ Body["define_property"].kind = "js"
        /\ "define_property" \in Functions
    BY BodyOf, Callable DEF define_property, JSFunctions
  <2> HIDE DEF s
  <2> QED BY <2>1, <2>2, <2>3, RootlessRule
<1>9. Verified("global_resolve")
  <2> DEFINE s == <<Maybe(<<Engine>>), Return>>
  <2>1. AllFit(s, "js", "clean")
    BY FitsCalls, FitsClean, RubyFits, TuplesFit, LongTuplesFit
  <2>2. s # <<>> /\ s[Len(s)].do \in Endings
    BY DEF Endings, Return
  <2>3. /\ Body["global_resolve"].todo = s /\ Body["global_resolve"].kind = "js"
        /\ "global_resolve" \in Functions
    BY BodyOf, Callable DEF global_resolve, JSFunctions
  <2> HIDE DEF s
  <2> QED BY <2>1, <2>2, <2>3, RootlessRule
<1>10. Verified("debugger_hook")
  <2> DEFINE s == <<Bare, Coerce, Return>>
  <2>1. AllFit(s, "js", "clean")
    BY FitsPlain, FitsClean, TuplesFit, LongTuplesFit
  <2>2. s # <<>> /\ s[Len(s)].do \in Endings
    BY DEF Endings, Return
  <2>3. /\ Body["debugger_hook"].todo = s /\ Body["debugger_hook"].kind = "js"
        /\ "debugger_hook" \in Functions
    BY BodyOf, Callable DEF debugger_hook, JSFunctions
  <2> HIDE DEF s
  <2> QED BY <2>1, <2>2, <2>3, RootlessRule
<1>11. Verified("native_call")
  <2> DEFINE s == <<Direct("function_p"), Maybe(<<Raise>>), Call("convert_to_js"),
           Direct("call_js_function_value"), Return>>
  <2>1. AllFit(s, "ruby", "clean")
    BY Callable, FitsClean, RubyFits, TuplesFit, LongTuplesFit DEF RubyFunctions, JSFunctions
  <2>2. s # <<>> /\ s[Len(s)].do \in Endings
    BY DEF Endings, Return
  <2>3. /\ Body["native_call"].todo = s /\ Body["native_call"].kind = "ruby"
        /\ "native_call" \in Functions
    BY BodyOf, Callable DEF native_call, RubyFunctions
  <2> HIDE DEF s
  <2> QED BY <2>1, <2>2, <2>3, RootlessRule
<1>12. Verified("set_trap")
  <2> DEFINE s == <<CallOr("convert_to_js", <<Raise>>), Coerce, Return>>
  <2>1. AllFit(s, "ruby", "clean")
    BY Handlers, FitsPlain, FitsClean, TuplesFit, LongTuplesFit
  <2>2. s # <<>> /\ s[Len(s)].do \in Endings
    BY DEF Endings, Return
  <2>3. /\ Body["set_trap"].todo = s /\ Body["set_trap"].kind = "ruby"
        /\ "set_trap" \in Functions
    BY BodyOf, Callable DEF set_trap, RubyFunctions
  <2> HIDE DEF s
  <2> QED BY <2>1, <2>2, <2>3, RootlessRule
<1>13. Verified("clear_trap")
  <2> DEFINE s == <<CallOr("convert_to_js", <<Raise>>), Coerce, Return>>
  <2>1. AllFit(s, "ruby", "clean")
    BY Handlers, FitsPlain, FitsClean, TuplesFit, LongTuplesFit
  <2>2. s # <<>> /\ s[Len(s)].do \in Endings
    BY DEF Endings, Return
  <2>3. /\ Body["clear_trap"].todo = s /\ Body["clear_trap"].kind = "ruby"
        /\ "clear_trap" \in Functions
    BY BodyOf, Callable DEF clear_trap, set_trap, RubyFunctions
  <2> HIDE DEF s
  <2> QED BY <2>1, <2>2, <2>3, RootlessRule
<1>14. Verified("native_compile")
  <2> DEFINE s == <<Coerce, ScriptOr(<<Maybe(RaiseJSError)>>),
           EngineOr(<<Direct("make_ruby_land_proxy"), Return>>),
           Direct("make_ruby_land_proxy"), Return>>
  <2>1. AllFit(s, "ruby", "clean")
    BY Handlers, Callable, FitsPlain, FitsClean, TuplesFit, LongTuplesFit DEF RubyFunctions
  <2>2. s # <<>> /\ s[Len(s)].do \in Endings
    BY DEF Endings, Return
  <2>3. /\ Body["native_compile"].todo = s /\ Body["native_compile"].kind = "ruby"
        /\ "native_compile" \in Functions
    BY BodyOf, Callable DEF native_compile, RubyFunctions
  <2> HIDE DEF s
  <2> QED BY <2>1, <2>2, <2>3, RootlessRule
<1>15. Verified("evaluate_compiled_script")
  <2> DEFINE s == <<Maybe(<<Raise>>), CallOr("convert_to_js", <<Raise>>),
           ScriptOr(<<Maybe(RaiseJSError)>>), Direct("convert_to_ruby"), Return>>
  <2>1. AllFit(s, "ruby", "clean")
    BY Handlers, Callable, RubyFits, FitsClean, TuplesFit, LongTuplesFit DEF RubyFunctions
  <2>2. s # <<>> /\ s[Len(s)].do \in Endings
    BY DEF Endings, Return
  <2>3. /\ Body["evaluate_compiled_script"].todo = s /\ Body["evaluate_compiled_script"].kind = "ruby"
        /\ "evaluate_compiled_script" \in Functions
    BY BodyOf, Callable DEF evaluate_compiled_script, RubyFunctions
  <2> HIDE DEF s
  <2> QED BY <2>1, <2>2, <2>3, RootlessRule
<1>16. Verified("call_ruby_from_js_va")
  <2> DEFINE s == <<Ruby, Return>>
  <2>1. AllFit(s, "js", "clean")
    BY FitsPlain, FitsClean, TuplesFit, LongTuplesFit
  <2>2. s # <<>> /\ s[Len(s)].do \in Endings
    BY DEF Endings, Return
  <2>3. /\ Body["call_ruby_from_js_va"].todo = s /\ Body["call_ruby_from_js_va"].kind = "js"
        /\ "call_ruby_from_js_va" \in Functions
    BY BodyOf, Callable DEF call_ruby_from_js_va, JSFunctions
  <2> HIDE DEF s
  <2> QED BY <2>1, <2>2, <2>3, RootlessRule
<1>17. Verified("call_ruby_from_js")
  <2> DEFINE s == <<Ruby, Call("convert_to_js"), Return>>
  <2>1. AllFit(s, "js", "clean")
    BY Callable, FitsPlain, FitsClean, TuplesFit, LongTuplesFit DEF JSFunctions
  <2>2. s # <<>> /\ s[Len(s)].do \in Endings
    BY DEF Endings, Return
  <2>3. /\ Body["call_ruby_from_js"].todo = s /\ Body["call_ruby_from_js"].kind = "js"
        /\ "call_ruby_from_js" \in Functions
    BY BodyOf, Callable DEF call_ruby_from_js, JSFunctions
  <2> HIDE DEF s
  <2> QED BY <2>1, <2>2, <2>3, RootlessRule
<1> QED BY <1>1, <1>2, <1>3, <1>4, <1>5, <1>6, <1>7, <1>8, <1>9, <1>10, <1>11, <1>12, <1>13,
           <1>14, <1>15, <1>16, <1>17

LEMMA ConversionVerified == Verified("convert_to_js")
<1> DEFINE B == { ErrorJS,
                   <<>>,
                   <<Ruby, Engine>>,
                   <<Call("convert_float_or_bignum_to_js")>>,
                   <<Call("convert_symbol_to_js")>>,
                   <<Call("make_js_land_proxy")>>,
                   <<Call("convert_regexp_to_js")>>,
                   <<Call("unwrap_ruby_land_proxy")>> }
           s == <<Either(B)>>
<1>1. \A b \in B : AllFit(b, "js", "clean") \/ b = JError("js")
  BY Callable, FitsPlain, FitsCalls, TuplesFit DEF JError, JSFunctions
<1>2. Body["convert_to_js"].todo = <<Either(B), Leave>> /\ Body["convert_to_js"].kind = "js"
  BY BodyOf DEF convert_to_js
<1> HIDE DEF B
<1>3. AllFit(<<Either(B), Leave>>, "js", "clean")
  BY <1>1, FitsEither, FitsPlain, TuplesFit
<1>4. Leave.do \in Endings /\ "convert_to_js" \in Functions
  BY Callable DEF Leave, Endings, JSFunctions
<1>5. <<Either(B), Leave>> # <<>> /\ <<Either(B), Leave>>[Len(<<Either(B), Leave>>)] = Leave
  OBVIOUS
<1> QED BY <1>2, <1>3, <1>4, <1>5, RootlessRule

(* Handlers that convert their arguments and call Ruby. *)
LEMMA HandlersVerified ==
  \A f \in {"construct", "to_string", "to_array", "method_missing", "call"} : Verified(f)
<1> DEFINE P == Protected("convert_to_ruby")
<1>1. \A f \in {"construct", "to_string", "to_array", "method_missing", "call"} :
        f \in Functions /\ Body[f].kind = "js"
  BY Callable, JSKinds DEF JSFunctions
<1>2. /\ AllFit(CallRuby, "js", "clean") /\ AllFit(CallRuby2, "js", "clean")
      /\ AllFit(<<P>>, "js", "clean")
      /\ AllFit(<<Loop(<<P>>)>>, "js", "clean") /\ AllFit(<<P, Loop(<<P>>)>>, "js", "clean")
  BY RubyFits, Callable, FitsLoop, TuplesFit DEF RubyFunctions
<1>3. Verified("construct")
  <2>1. AllFit(<<P, Loop(<<P>>)>> \o CallRuby, "js", "clean")
    BY <1>2, ConcFits
  <2>2. Body["construct"].todo = (<<P, Loop(<<P>>)>> \o CallRuby) \o <<Leave>>
    BY BodyOf DEF construct
  <2> HIDE DEF P
  <2> QED BY <1>1, <2>1, <2>2, LeavesRule
<1>4. Verified("to_string") /\ Verified("to_array")
  <2>1. Body["to_string"].todo = CallRuby \o <<Leave>> /\ Body["to_array"].todo = CallRuby \o <<Leave>>
    BY BodyOf DEF to_string, to_array
  <2> QED BY <1>1, <1>2, <2>1, LeavesRule
<1>5. Verified("method_missing")
  <2>1. AllFit((<<P>> \o CallRuby2) \o CallRuby, "js", "clean")
    BY <1>2, ConcFits
  <2>2. Body["method_missing"].todo = ((<<P>> \o CallRuby2) \o CallRuby) \o <<Leave>>
    BY BodyOf DEF method_missing
  <2> HIDE DEF P
  <2> QED BY <1>1, <2>1, <2>2, LeavesRule
<1>6. Verified("call")
  <2>1. AllFit(<<Loop(<<P>>)>> \o CallRuby, "js", "clean")
    BY <1>2, ConcFits
  <2>2. Body["call"].todo = (<<Loop(<<P>>)>> \o CallRuby) \o <<Leave>>
    BY BodyOf DEF call
  <2> HIDE DEF P
  <2> QED BY <1>1, <2>1, <2>2, LeavesRule
<1> QED BY <1>3, <1>4, <1>5, <1>6

(* Functions that register roots: the step at i is the first, the others are quiet. *)
LEMMA OneRootRule ==
  ASSUME NEW f \in Functions, NEW s, NEW k, Body[f].todo = s, Body[f].kind = k, IsSeq(s),
         Len(s) > 1, Body[f].room > 0, NEW x \in Names, s[1] = Root(x),
         \A m \in 2..Len(s) : Fits(s[m], k, "held"), s[Len(s)] = Leave
  PROVE  Verified(f)
<1> DEFINE c == [m \in 1..Len(s) |-> IF m = 1 THEN 0 ELSE 1]
<1>1. Len(s) \in Nat /\ Body[f].room \in Nat /\ s # <<>> /\ Leave.do \in Endings
  BY FunctionIs DEF IsSeq, Leave, Endings
<1>2. c[1] = 0
  BY <1>1
<1>3. /\ \A m \in 1..Len(s) : c[m] \in 0..Body[f].room
      /\ \A m \in 1..(Len(s) - 1) : FollowsOutline(f, s, c, m)
      /\ EndsOutline(f, s, c)
  <2>1. \A m \in 1..(Len(s) - 1) : c[m] = (IF m = 1 THEN 0 ELSE 1) /\ c[m + 1] = 1
    BY <1>1
  <2>2. \A m \in 1..Len(s) : c[m] \in 0..Body[f].room
    BY <1>1
  <2> HIDE DEF c
  <2> QED BY <1>1, <2>1, <2>2 DEF FollowsOutline, EndsOutline
<1> HIDE DEF c
<1> QED BY <1>1, <1>2, <1>3, OutlineSound DEF Verified

LEMMA ByNameFits == ASSUME NEW k PROVE Fits(ByName, k, "held")
BY TuplesFit, FitsEither, FitsPlain, FitsCalls DEF ByName

(* Functions that register one root first. *)
LEMMA OneRootFunctions ==
  \A f \in {"convert_js_string_to_ruby", "convert_regexp_to_ruby",
           "js_value_is_regexp", "get", "function_p", "to_s",
           "get_and_destroy_resolved_property"} : Verified(f)
<1>1. Verified("convert_js_string_to_ruby")
  <2> DEFINE s == <<Root("str"), Engine, Coerce, Leave>>
  <2>1. \A m \in 2..Len(s) : Fits(s[m], "ruby", "held")
    BY FitsCalls, FitsPlain
  <2>2. IsSeq(s) /\ Len(s) > 1 /\ s[1] = Root("str") /\ s[Len(s)] = Leave
    BY TupleIsSeq, LongTuples
  <2>3. /\ Body["convert_js_string_to_ruby"].todo = s
        /\ Body["convert_js_string_to_ruby"].kind = "ruby" /\ Body["convert_js_string_to_ruby"].room > 0
        /\ "convert_js_string_to_ruby" \in Functions
    BY BodyOf, Callable DEF convert_js_string_to_ruby, RubyFunctions
  <2>4. "str" \in Names
    BY DEF Names
  <2> HIDE DEF s
  <2> QED BY <2>1, <2>2, <2>3, <2>4, OneRootRule
<1>2. Verified("convert_regexp_to_ruby")
  <2> DEFINE s == <<Root("regexp"), Protected("convert_js_string_to_ruby"), Ruby, Leave>>
  <2>1. \A m \in 2..Len(s) : Fits(s[m], "ruby", "held")
    BY Callable, FitsPlain DEF RubyFunctions
  <2>2. IsSeq(s) /\ Len(s) > 1 /\ s[1] = Root("regexp") /\ s[Len(s)] = Leave
    BY TupleIsSeq, LongTuples
  <2>3. /\ Body["convert_regexp_to_ruby"].todo = s
        /\ Body["convert_regexp_to_ruby"].kind = "ruby" /\ Body["convert_regexp_to_ruby"].room > 0
        /\ "convert_regexp_to_ruby" \in Functions
    BY BodyOf, Callable DEF convert_regexp_to_ruby, RubyFunctions
  <2>4. "regexp" \in Names
    BY DEF Names
  <2> HIDE DEF s
  <2> QED BY <2>1, <2>2, <2>3, <2>4, OneRootRule
<1>3. Verified("js_value_is_regexp")
  <2> DEFINE s == <<Root("maybe_regexp"), Leave>>
  <2>1. \A m \in 2..Len(s) : Fits(s[m], "js", "held")
    BY FitsPlain
  <2>2. IsSeq(s) /\ Len(s) > 1 /\ s[1] = Root("maybe_regexp") /\ s[Len(s)] = Leave
    BY TupleIsSeq, LongTuples
  <2>3. /\ Body["js_value_is_regexp"].todo = s /\ Body["js_value_is_regexp"].kind = "js"
        /\ Body["js_value_is_regexp"].room > 0 /\ "js_value_is_regexp" \in Functions
    BY BodyOf, Callable DEF js_value_is_regexp, JSFunctions
  <2>4. "maybe_regexp" \in Names
    BY DEF Names
  <2> HIDE DEF s
  <2> QED BY <2>1, <2>2, <2>3, <2>4, OneRootRule
<1>4. Verified("get")
  <2> DEFINE s == <<Root("proxy_value"), ByName, Protected("convert_to_ruby"), Leave>>
  <2>1. \A m \in 2..Len(s) : Fits(s[m], "ruby", "held")
    BY ByNameFits, Callable, FitsPlain DEF RubyFunctions
  <2>2. IsSeq(s) /\ Len(s) > 1 /\ s[1] = Root("proxy_value") /\ s[Len(s)] = Leave
    BY TupleIsSeq, LongTuples
  <2>3. /\ Body["get"].todo = s /\ Body["get"].kind = "ruby"
        /\ Body["get"].room > 0 /\ "get" \in Functions
    BY BodyOf, Callable DEF get, RubyFunctions
  <2>4. "proxy_value" \in Names
    BY DEF Names
  <2> HIDE DEF s
  <2> QED BY <2>1, <2>2, <2>3, <2>4, OneRootRule
<1>5. Verified("function_p")
  <2> DEFINE s == <<Root("proxy_value"), Leave>>
  <2>1. \A m \in 2..Len(s) : Fits(s[m], "ruby", "held")
    BY FitsPlain
  <2>2. IsSeq(s) /\ Len(s) > 1 /\ s[1] = Root("proxy_value") /\ s[Len(s)] = Leave
    BY TupleIsSeq, LongTuples
  <2>3. /\ Body["function_p"].todo = s /\ Body["function_p"].kind = "ruby"
        /\ Body["function_p"].room > 0 /\ "function_p" \in Functions
    BY BodyOf, Callable DEF function_p, RubyFunctions
  <2>4. "proxy_value" \in Names
    BY DEF Names
  <2> HIDE DEF s
  <2> QED BY <2>1, <2>2, <2>3, <2>4, OneRootRule
<1>6. Verified("to_s")
  <2> DEFINE s == <<Root("proxy_value"), Unchecked, Protected("convert_js_string_to_ruby"), Leave>>
  <2>1. \A m \in 2..Len(s) : Fits(s[m], "ruby", "held")
    BY RubyFits, Callable, FitsPlain DEF RubyFunctions
  <2>2. IsSeq(s) /\ Len(s) > 1 /\ s[1] = Root("proxy_value") /\ s[Len(s)] = Leave
    BY TupleIsSeq, LongTuples
  <2>3. /\ Body["to_s"].todo = s /\ Body["to_s"].kind = "ruby"
        /\ Body["to_s"].room > 0 /\ "to_s" \in Functions
    BY BodyOf, Callable DEF to_s, RubyFunctions
  <2>4. "proxy_value" \in Names
    BY DEF Names
  <2> HIDE DEF s
  <2> QED BY <2>1, <2>2, <2>3, <2>4, OneRootRule
<1>7. Verified("get_and_destroy_resolved_property")
  <2> DEFINE s == <<Root("id"), Engine, Call("js_get"), Leave>>
  <2>1. \A m \in 2..Len(s) : Fits(s[m], "js", "held")
    BY FitsCalls, Callable, FitsPlain DEF JSFunctions
  <2>2. IsSeq(s) /\ Len(s) > 1 /\ s[1] = Root("id") /\ s[Len(s)] = Leave
    BY TupleIsSeq, LongTuples
  <2>3. /\ Body["get_and_destroy_resolved_property"].todo = s
        /\ Body["get_and_destroy_resolved_property"].kind = "js"
        /\ Body["get_and_destroy_resolved_property"].room > 0
        /\ "get_and_destroy_resolved_property" \in Functions
    BY BodyOf, Callable DEF get_and_destroy_resolved_property, JSFunctions
  <2>4. "id" \in Names
    BY DEF Names
  <2> HIDE DEF s
  <2> QED BY <2>1, <2>2, <2>3, <2>4, OneRootRule
<1> QED BY <1>1, <1>2, <1>3, <1>4, <1>5, <1>6, <1>7

LEMMA PropertyAccessVerified == Verified("js_get") /\ Verified("resolve")
<1>1. Verified("js_get")
  <2> DEFINE last == IfRuby(CallRuby, IfRuby(CallRuby, IfRuby(CallRuby, <<>>)))
             B == {IfRuby(CallRuby, <<>>), <<Script>>,
                   IfRuby(CallRuby, IfRuby(CallRuby,
                     <<Either({<<Call("convert_to_js")>>, last})>>))}
             s == <<Root("id"), Either(B), Leave>>
  <2>1. AllFit(CallRuby, "js", "held") /\ AllFit(<<>>, "js", "held")
    BY RubyFits, FitsNone
  <2>2. AllFit(last, "js", "held")
    BY <2>1, RubyFits
  <2>3. AllFit(<<Script>>, "js", "held") /\ AllFit(<<Call("convert_to_js")>>, "js", "held")
    BY Callable, FitsCalls, TuplesFit DEF JSFunctions
  <2>4. Body["js_get"].todo = s
    BY BodyOf DEF js_get
  <2> HIDE DEF last
  <2>5. AllFit(<<Either({<<Call("convert_to_js")>>, last})>>, "js", "held")
    BY <2>2, <2>3, FitsEither, TuplesFit
  <2>6. \A b \in B : AllFit(b, "js", "held")
    BY <2>1, <2>3, <2>5, RubyFits
  <2> HIDE DEF B
  <2>7. \A m \in 2..Len(s) : Fits(s[m], "js", "held")
    BY <2>6, FitsEither, FitsPlain
  <2>8. IsSeq(s) /\ Len(s) > 1 /\ s[1] = Root("id") /\ s[Len(s)] = Leave
    BY LongTuples
  <2>9. /\ Body["js_get"].kind = "js" /\ Body["js_get"].room > 0 /\ "js_get" \in Functions
        /\ "id" \in Names
    BY BodyOf, Callable DEF js_get, JSFunctions, Names
  <2> HIDE DEF s
  <2> QED BY <2>4, <2>7, <2>8, <2>9, OneRootRule
<1>2. Verified("resolve")
  <2> DEFINE asks == Maybe(<<Bare, Maybe(<<Bare, Maybe(<<Bare, Maybe(<<Bare>>)>>)>>)>>)
             s == <<Root("id"), UncheckedEngine, Bare, asks, Maybe(<<Engine>>), Leave>>
  <2>1. Fits(asks, "js", "held")
    BY RubyFits, FitsPlain, TuplesFit
  <2>2. Body["resolve"].todo = s
    BY BodyOf DEF resolve
  <2> HIDE DEF asks
  <2>6. /\ Fits(Bare, "js", "held") /\ Fits(Maybe(<<Engine>>), "js", "held")
        /\ Fits(UncheckedEngine, "js", "held") /\ Fits(Leave, "js", "held")
    BY RubyFits, FitsPlain, FitsCalls, TuplesFit
  <2>3. \A m \in 2..Len(s) : Fits(s[m], "js", "held")
    BY <2>1, <2>6
  <2>4. IsSeq(s) /\ Len(s) > 1 /\ s[1] = Root("id") /\ s[Len(s)] = Leave
    BY LongTuples
  <2>5. /\ Body["resolve"].kind = "js" /\ Body["resolve"].room > 0 /\ "resolve" \in Functions
        /\ "id" \in Names
    BY BodyOf, Callable DEF resolve, JSFunctions, Names
  <2> HIDE DEF s
  <2> QED BY <2>2, <2>3, <2>4, <2>5, OneRootRule
<1> QED BY <1>1, <1>2

LEMMA OutlineRule ==
  ASSUME NEW f \in Functions, NEW s, NEW k, NEW room, NEW c, Body[f].todo = s, Body[f].kind = k,
         Body[f].room = room, IsSeq(s), s # <<>>, c[1] = 0,
         \A m \in 1..Len(s) : c[m] \in 0..room,
         \A m \in 1..(Len(s) - 1) : FollowsOutline(f, s, c, m), EndsOutline(f, s, c)
  PROVE  Verified(f)
BY OutlineSound DEF Verified

(* Functions that register roots on their way. *)
LEMMA OutlinedFunctions ==
  \A f \in {"convert_symbol_to_js", "js_value_is_symbol", "set", "respond_to_p",
           "length", "function_property_p", "init_spidermonkey_extensions",
           "make_ruby_land_proxy", "call_function_property"} :
    Verified(f)
<1>1. Verified("convert_symbol_to_js")
  <2> DEFINE s == <<Ruby, Ruby, UncheckedEngine, Root("name"), Script, Root("nsJohnson"),
                    Script, Leave>>
             c == <<0, 0, 0, 0, 1, 1, 2, 2>>
  <2>1. /\ Fits(Ruby, "js", "held") /\ Fits(UncheckedEngine, "js", "held")
        /\ Fits(Script, "js", "held")
        /\ Fits(Leave, "js", "held")
    BY FitsPlain, FitsCalls, RubyFits
  <2>2. IsSeq(s) /\ s # <<>> /\ Len(s) = 8 /\ c[1] = 0
    BY LongTuples
  <2>3. /\ Body["convert_symbol_to_js"].todo = s /\ Body["convert_symbol_to_js"].kind = "js"
        /\ Body["convert_symbol_to_js"].room = 2 /\ "convert_symbol_to_js" \in Functions
    BY BodyOf, Callable DEF convert_symbol_to_js, JSFunctions
  <2>4. /\ \A m \in 1..Len(s) : c[m] \in 0..2
        /\ \A m \in 1..(Len(s) - 1) : FollowsOutline("convert_symbol_to_js", s, c, m)
        /\ EndsOutline("convert_symbol_to_js", s, c)
    BY <2>1, <2>2, <2>3 DEF FollowsOutline, EndsOutline, Endings, Names, Leave
  <2> HIDE DEF s, c
  <2> QED BY <2>2, <2>3, <2>4, OutlineRule
<1>2. Verified("js_value_is_symbol")
  <2> DEFINE s == <<Root("maybe_symbol"), Script, Maybe(ErrorJS), Root("nsJohnson"),
                   Script, Maybe(ErrorJS), Root("cSymbol"), Script, Leave>>
             c == <<0, 1, 1, 1, 2, 2, 2, 3, 3>>
  <2>1. /\ Fits(Script, "js", "held")
        /\ Fits(Maybe(ErrorJS), "js", "held")
        /\ Fits(Leave, "js", "held")
    BY FitsPlain, FitsCalls, RubyFits DEF JError
  <2>2. IsSeq(s) /\ s # <<>> /\ Len(s) = 9 /\ c[1] = 0
    BY LongTuples
  <2>3. /\ Body["js_value_is_symbol"].todo = s /\ Body["js_value_is_symbol"].kind = "js"
        /\ Body["js_value_is_symbol"].room = 3 /\ "js_value_is_symbol" \in Functions
    BY BodyOf, Callable DEF js_value_is_symbol, JSFunctions
  <2>4. /\ \A m \in 1..Len(s) : c[m] \in 0..3
        /\ \A m \in 1..(Len(s) - 1) : FollowsOutline("js_value_is_symbol", s, c, m)
        /\ EndsOutline("js_value_is_symbol", s, c)
    BY <2>1, <2>2, <2>3 DEF FollowsOutline, EndsOutline, Endings, Names, Leave
  <2> HIDE DEF s, c
  <2> QED BY <2>2, <2>3, <2>4, OutlineRule
<1>3. Verified("set")
  <2> DEFINE s == <<Root("proxy_value"), Call("convert_to_js"), Root("js_value"), ByName,
                   Leave>>
             c == <<0, 1, 1, 2, 2>>
  <2>1. /\ Fits(Call("convert_to_js"), "ruby", "held")
        /\ Fits(ByName, "ruby", "held")
        /\ Fits(Leave, "ruby", "held")
    BY FitsPlain, Callable, ByNameFits DEF JSFunctions
  <2>2. IsSeq(s) /\ s # <<>> /\ Len(s) = 5 /\ c[1] = 0
    BY LongTuples
  <2>3. /\ Body["set"].todo = s /\ Body["set"].kind = "ruby"
        /\ Body["set"].room = 2 /\ "set" \in Functions
    BY BodyOf, Callable DEF set, RubyFunctions
  <2>4. /\ \A m \in 1..Len(s) : c[m] \in 0..2
        /\ \A m \in 1..(Len(s) - 1) : FollowsOutline("set", s, c, m)
        /\ EndsOutline("set", s, c)
    BY <2>1, <2>2, <2>3 DEF FollowsOutline, EndsOutline, Endings, Names, Leave
  <2> HIDE DEF s, c
  <2> QED BY <2>2, <2>3, <2>4, OutlineRule
<1>4. Verified("respond_to_p")
  <2> DEFINE s == <<Bare, Maybe(<<Leave>>), Root("proxy_value"), Engine, Root("obj"),
                   Script, Maybe(<<Ruby>>), Leave>>
             c == <<0, 0, 0, 1, 1, 2, 2, 2>>
  <2>1. /\ Fits(Bare, "ruby", "held")
        /\ Fits(Maybe(<<Leave>>), "ruby", "held")
        /\ Fits(Engine, "ruby", "held")
        /\ Fits(Script, "ruby", "held")
        /\ Fits(Maybe(<<Ruby>>), "ruby", "held")
        /\ Fits(Leave, "ruby", "held")
    BY FitsPlain, FitsCalls, RubyFits, TuplesFit
  <2>2. IsSeq(s) /\ s # <<>> /\ Len(s) = 8 /\ c[1] = 0
    BY LongTuples
  <2>3. /\ Body["respond_to_p"].todo = s /\ Body["respond_to_p"].kind = "ruby"
        /\ Body["respond_to_p"].room = 2 /\ "respond_to_p" \in Functions
    BY BodyOf, Callable DEF respond_to_p, RubyFunctions
  <2>4. /\ \A m \in 1..Len(s) : c[m] \in 0..2
        /\ \A m \in 1..(Len(s) - 1) : FollowsOutline("respond_to_p", s, c, m)
        /\ EndsOutline("respond_to_p", s, c)
    BY <2>1, <2>2, <2>3 DEF FollowsOutline, EndsOutline, Endings, Names, Leave
  <2> HIDE DEF s, c
  <2> QED BY <2>2, <2>3, <2>4, OutlineRule
<1>5. Verified("length")
  <2> DEFINE s == <<Root("proxy_value"), Root("value"), Either({<<Engine>>, <<Script>>}),
                   Leave>>
             c == <<0, 1, 2, 2>>
  <2>1. /\ Fits(Either({<<Engine>>, <<Script>>}), "ruby", "held")
        /\ Fits(Leave, "ruby", "held")
    BY FitsPlain, FitsCalls, FitsEither, TuplesFit
  <2>2. IsSeq(s) /\ s # <<>> /\ Len(s) = 4 /\ c[1] = 0
    BY LongTuples
  <2>3. /\ Body["length"].todo = s /\ Body["length"].kind = "ruby"
        /\ Body["length"].room = 2 /\ "length" \in Functions
    BY BodyOf, Callable DEF length, RubyFunctions
  <2>4. /\ \A m \in 1..Len(s) : c[m] \in 0..2
        /\ \A m \in 1..(Len(s) - 1) : FollowsOutline("length", s, c, m)
        /\ EndsOutline("length", s, c)
    BY <2>1, <2>2, <2>3 DEF FollowsOutline, EndsOutline, Endings, Names, Leave
  <2> HIDE DEF s, c
  <2> QED BY <2>2, <2>3, <2>4, OutlineRule
<1>6. Verified("function_property_p")
  <2> DEFINE s == <<Maybe(<<Bare>>), Coerce, Root("proxy_value"), Script,
                   Root("js_value"), Leave>>
             c == <<0, 0, 0, 1, 1, 2>>
  <2>1. /\ Fits(Maybe(<<Bare>>), "ruby", "held")
        /\ Fits(Coerce, "ruby", "held")
        /\ Fits(Script, "ruby", "held")
        /\ Fits(Leave, "ruby", "held")
    BY FitsPlain, FitsCalls, RubyFits, TuplesFit
  <2>2. IsSeq(s) /\ s # <<>> /\ Len(s) = 6 /\ c[1] = 0
    BY LongTuples
  <2>3. /\ Body["function_property_p"].todo = s /\ Body["function_property_p"].kind = "ruby"
        /\ Body["function_property_p"].room = 2 /\ "function_property_p" \in Functions
    BY BodyOf, Callable DEF function_property_p, RubyFunctions
  <2>4. /\ \A m \in 1..Len(s) : c[m] \in 0..2
        /\ \A m \in 1..(Len(s) - 1) : FollowsOutline("function_property_p", s, c, m)
        /\ EndsOutline("function_property_p", s, c)
    BY <2>1, <2>2, <2>3 DEF FollowsOutline, EndsOutline, Endings, Names, Leave
  <2> HIDE DEF s, c
  <2> QED BY <2>2, <2>3, <2>4, OutlineRule
<1>7. Verified("init_spidermonkey_extensions")
  <2> DEFINE s == <<Engine, Root("Object"), Engine, Engine, Engine, Engine, Leave>>
             c == <<0, 0, 1, 1, 1, 1, 1>>
  <2>1. /\ Fits(Engine, "ruby", "held")
        /\ Fits(Leave, "ruby", "held")
    BY FitsPlain, FitsCalls
  <2>2. IsSeq(s) /\ s # <<>> /\ Len(s) = 7 /\ c[1] = 0
    BY LongTuples
  <2>3. /\ Body["init_spidermonkey_extensions"].todo = s
        /\ Body["init_spidermonkey_extensions"].kind = "ruby"
        /\ Body["init_spidermonkey_extensions"].room = 1 /\ "init_spidermonkey_extensions" \in Functions
    BY BodyOf, Callable DEF init_spidermonkey_extensions, RubyFunctions
  <2>4. /\ \A m \in 1..Len(s) : c[m] \in 0..1
        /\ \A m \in 1..(Len(s) - 1) : FollowsOutline("init_spidermonkey_extensions", s, c, m)
        /\ EndsOutline("init_spidermonkey_extensions", s, c)
    BY <2>1, <2>2, <2>3 DEF FollowsOutline, EndsOutline, Endings, Names, Leave
  <2> HIDE DEF s, c
  <2> QED BY <2>2, <2>3, <2>4, OutlineRule
<1>8. Verified("make_ruby_land_proxy")
  <2> DEFINE s == <<Maybe(<<Bare, Return>>), Root("value"), Engine, Engine, Ruby, Ruby,
                   Leave>>
             c == <<0, 0, 1, 1, 1, 1, 1>>
  <2>1. /\ Fits(Maybe(<<Bare, Return>>), "ruby", "clean")
        /\ Fits(Engine, "ruby", "held")
        /\ Fits(Ruby, "ruby", "held")
        /\ Fits(Leave, "ruby", "held")
    BY FitsPlain, FitsCalls, FitsClean, RubyFits, TuplesFit
  <2>2. IsSeq(s) /\ s # <<>> /\ Len(s) = 7 /\ c[1] = 0
    BY LongTuples
  <2>3. /\ Body["make_ruby_land_proxy"].todo = s /\ Body["make_ruby_land_proxy"].kind = "ruby"
        /\ Body["make_ruby_land_proxy"].room = 1 /\ "make_ruby_land_proxy" \in Functions
    BY BodyOf, Callable DEF make_ruby_land_proxy, RubyFunctions
  <2>4. /\ \A m \in 1..Len(s) : c[m] \in 0..1
        /\ \A m \in 1..(Len(s) - 1) : FollowsOutline("make_ruby_land_proxy", s, c, m)
        /\ EndsOutline("make_ruby_land_proxy", s, c)
    BY <2>1, <2>2, <2>3 DEF FollowsOutline, EndsOutline, Endings, Names, Leave
  <2> HIDE DEF s, c
  <2> QED BY <2>2, <2>3, <2>4, OutlineRule
<1>9. Verified("call_function_property")
  <2> DEFINE s == <<Maybe(<<Raise>>), Root("proxy_value"), Ruby, Script, Root("function"),
                   Maybe(ErrorRuby), Release, Direct("call_js_function_value"), Return>>
             c == <<0, 0, 1, 1, 1, 2, 2, 0, 0>>
  <2>1. /\ Fits(Maybe(<<Raise>>), "ruby", "clean")
        /\ Fits(Ruby, "ruby", "held")
        /\ Fits(Script, "ruby", "held")
        /\ Fits(Maybe(ErrorRuby), "ruby", "held")
        /\ Fits(Direct("call_js_function_value"), "ruby", "clean")
        /\ Fits(Return, "ruby", "clean")
    BY FitsPlain, FitsCalls, FitsClean, Callable, RubyFits, TuplesFit DEF JError, RubyFunctions
  <2>2. IsSeq(s) /\ s # <<>> /\ Len(s) = 9 /\ c[1] = 0
    BY LongTuples
  <2>3. /\ Body["call_function_property"].todo = s /\ Body["call_function_property"].kind = "ruby"
        /\ Body["call_function_property"].room = 2 /\ "call_function_property" \in Functions
    BY BodyOf, Callable DEF call_function_property, RubyFunctions
  <2>4. /\ \A m \in 1..Len(s) : c[m] \in 0..2
        /\ \A m \in 1..(Len(s) - 1) : FollowsOutline("call_function_property", s, c, m)
        /\ EndsOutline("call_function_property", s, c)
    BY <2>1, <2>2, <2>3 DEF FollowsOutline, EndsOutline, Endings, Names, Return
  <2> HIDE DEF s, c
  <2> QED BY <2>2, <2>3, <2>4, OutlineRule
<1> QED BY <1>1, <1>2, <1>3, <1>4, <1>5, <1>6, <1>7, <1>8, <1>9

LEMMA ConvertToRubyVerified == Verified("convert_to_ruby")
<1> DEFINE inner == Either({<<Protected("convert_regexp_to_ruby")>>,
                            <<Protected("make_ruby_land_proxy")>>})
           middle == Either({<<Unchecked, Ruby>>, <<>>, <<Call("js_value_is_regexp"), inner>>})
           outer == Either({<<>>, ErrorRuby, <<Protected("make_ruby_land_proxy")>>,
                            <<Call("js_value_is_symbol"), middle>>,
                            <<Protected("convert_js_string_to_ruby")>>, <<Ruby>>})
           s == <<Maybe(<<Return>>), Root("js"), outer, Leave>>
           c == <<0, 0, 1, 1>>
<1>1. /\ Body["convert_to_ruby"].todo = s /\ Body["convert_to_ruby"].kind = "ruby"
      /\ Body["convert_to_ruby"].room = 1 /\ "convert_to_ruby" \in Functions
  BY BodyOf, Callable DEF convert_to_ruby, RubyFunctions
<1>2. /\ \A g \in {"make_ruby_land_proxy", "convert_regexp_to_ruby", "convert_js_string_to_ruby"} :
           Fits(Protected(g), "ruby", "held")
      /\ \A g \in {"js_value_is_symbol", "js_value_is_regexp"} : Fits(Call(g), "ruby", "held")
  BY Callable DEF RubyFunctions, JSFunctions
<1>3. Fits(inner, "ruby", "held")
  BY <1>2, TuplesFit, FitsEither
<1> HIDE DEF inner
<1>4. Fits(middle, "ruby", "held")
  BY <1>2, <1>3, RubyFits, FitsPlain, TuplesFit, FitsEither
<1> HIDE DEF middle
<1>5. Fits(outer, "ruby", "held")
  BY <1>2, <1>4, FitsPlain, TuplesFit, FitsEither DEF JError
<1> HIDE DEF outer
<1>6. Fits(Maybe(<<Return>>), "ruby", "clean") /\ Fits(Leave, "ruby", "held")
  BY FitsPlain, FitsClean, TuplesFit, RubyFits
<1>7. IsSeq(s) /\ s # <<>> /\ Len(s) = 4 /\ c[1] = 0
  BY LongTuples
<1>8. /\ \A m \in 1..Len(s) : c[m] \in 0..1
      /\ \A m \in 1..(Len(s) - 1) : FollowsOutline("convert_to_ruby", s, c, m)
      /\ EndsOutline("convert_to_ruby", s, c)
  BY <1>1, <1>5, <1>6, <1>7 DEF FollowsOutline, EndsOutline, Endings, Names, Leave
<1> HIDE DEF s, c
<1> QED BY <1>1, <1>7, <1>8, OutlineRule

LEMMA SetVerified == Verified("js_set")
<1> DEFINE P == Protected("convert_to_ruby")
           asks == IfRuby(<<P>> \o CallRuby2, <<>>)
           inner == Either({CallRuby2 \o CallRuby2 \o <<Coerce, Maybe(CallRuby2)>>, CallRuby2})
           stores == <<P, P, Coerce>> \o CallRuby2 \o CallRuby2 \o <<inner>>
           s == <<Root("id"), Root("value"), Either({asks, stores}), Leave>>
           c == <<0, 1, 2, 2>>
<1>1. /\ Body["js_set"].todo = s /\ Body["js_set"].kind = "js"
      /\ Body["js_set"].room = 2 /\ "js_set" \in Functions
  BY BodyOf, Callable DEF js_set, JSFunctions
<1>2. Fits(P, "js", "held") /\ AllFit(CallRuby2, "js", "held") /\ Fits(Maybe(CallRuby2), "js", "held")
      /\ Fits(Coerce, "js", "held")
  BY Callable, RubyFits, FitsPlain DEF RubyFunctions
<1> HIDE DEF P
<1>3. AllFit(asks, "js", "held")
  <2>1. AllFit(<<P>>, "js", "held") /\ AllFit(<<>>, "js", "held")
    BY <1>2, TuplesFit
  <2>2. AllFit(<<P>> \o CallRuby2, "js", "held")
    BY <1>2, <2>1, ConcFits
  <2> QED BY <2>1, <2>2, RubyFits
<1>4. Fits(inner, "js", "held")
  <2>1. AllFit(CallRuby2 \o CallRuby2, "js", "held") /\ AllFit(<<Coerce, Maybe(CallRuby2)>>, "js", "held")
    BY <1>2, ConcFits, TuplesFit
  <2>2. AllFit(CallRuby2 \o CallRuby2 \o <<Coerce, Maybe(CallRuby2)>>, "js", "held")
    BY <2>1, ConcFits
  <2> QED BY <1>2, <2>2, FitsEither
<1> HIDE DEF inner
<1>5. AllFit(stores, "js", "held")
  <2>1. AllFit(<<P, P, Coerce>>, "js", "held") /\ AllFit(<<inner>>, "js", "held")
    BY <1>2, <1>4, TuplesFit
  <2>2. AllFit(<<P, P, Coerce>> \o CallRuby2, "js", "held")
    BY <1>2, <2>1, ConcFits
  <2>3. AllFit(<<P, P, Coerce>> \o CallRuby2 \o CallRuby2, "js", "held")
    BY <1>2, <2>2, ConcFits
  <2> QED BY <2>1, <2>3, ConcFits
<1> HIDE DEF asks, stores
<1>6. Fits(Either({asks, stores}), "js", "held") /\ Fits(Leave, "js", "held")
  BY <1>3, <1>5, FitsEither, FitsPlain
<1>7. IsSeq(s) /\ s # <<>> /\ Len(s) = 4 /\ c[1] = 0
  BY LongTuples
<1>8. /\ \A m \in 1..Len(s) : c[m] \in 0..2
      /\ \A m \in 1..(Len(s) - 1) : FollowsOutline("js_set", s, c, m)
      /\ EndsOutline("js_set", s, c)
  BY <1>1, <1>6, <1>7 DEF FollowsOutline, EndsOutline, Endings, Names, Leave
<1> HIDE DEF s, c
<1> QED BY <1>1, <1>7, <1>8, OutlineRule

(* With at most n cleanups held before b, at most m are held after it. *)
Passes(f, b, n, m) ==
    /\ IsSeq(b)
    /\ \A w, X : IsSeq(w) /\ Ready(f, w, m, X) => Ready(f, From(b, 1, w), n, X)

LEMMA PassesRule ==
  ASSUME NEW f \in Functions, NEW b, IsSeq(b), b # <<>>, NEW d, NEW n, NEW m,
         d[1] = n, d[Len(b) + 1] = m,
         \A i \in 1..(Len(b) + 1) : d[i] \in 0..Body[f].room,
         \A i \in 1..Len(b) : FollowsOutline(f, b, d, i)
  PROVE  Passes(f, b, n, m)
<1> SUFFICES ASSUME NEW w, NEW X, IsSeq(w), Ready(f, w, m, X)
             PROVE  Ready(f, From(b, 1, w), n, X)
  BY DEF Passes
<1> DEFINE to == Len(b) + 1
<1>1. /\ 1 \in 1..Len(b) /\ to \in 1..(Len(b) + 1) /\ to - 1 = Len(b)
      /\ IsSeq(b) /\ IsSeq(w)
  BY DEF IsSeq
<1>2. Ready(f, From(b, to, w), d[to], X)
  BY FromEnds
<1>3. \A i \in 1..to : InRoom(f, d[i])
  BY FunctionIs DEF InRoom
<1>4. \A i \in 1..(to - 1) : FollowsOutline(f, b, d, i)
  BY <1>1
<1> HIDE DEF to
<1>5. Ready(f, From(b, 1, w), d[1], X)
  BY <1>1, <1>2, <1>3, <1>4, Outline
<1> QED BY <1>5

(* A function with a branch, at j, that registers roots. *)
LEMMA BranchRule ==
  ASSUME NEW f \in Functions, NEW s, NEW k, NEW room, NEW c,
         Body[f].todo = s, Body[f].kind = k, Body[f].room = room, IsSeq(s), c[1] = 0,
         \A m \in 1..Len(s) : c[m] \in 0..room,
         NEW j \in 1..(Len(s) - 1), NEW B, s[j] = Either(B), c[j] <= c[j + 1],
         \A m \in (1..(Len(s) - 1)) \ {j} : FollowsOutline(f, s, c, m), EndsOutline(f, s, c),
         \A b \in B : AllFit(b, k, "held") \/ Passes(f, b, c[j], c[j + 1])
  PROVE  Verified(f)
<1> DEFINE i == j + 1
           w == From(s, i, <<>>)
<1>1. Len(s) \in Nat /\ i \in 1..Len(s) /\ j \in 1..Len(s) /\ 1 \in 1..Len(s) /\ j \in 1..(Len(s) + 1)
  BY DEF IsSeq
<1>2. IsSeq(s) /\ IsSeq(<<>>)
  BY TupleIsSeq
<1>3. \A m \in 1..Len(s) : InRoom(f, c[m])
  BY FunctionIs DEF InRoom
<1>4. /\ \A m \in i..Len(s) : InRoom(f, c[m])
      /\ \A m \in i..(Len(s) - 1) : FollowsOutline(f, s, c, m)
      /\ \A m \in 1..j : InRoom(f, c[m])
      /\ \A m \in 1..(j - 1) : FollowsOutline(f, s, c, m)
  BY <1>1, <1>3
<1> HIDE DEF i
<1>5. ASSUME NEW X PROVE Ready(f, From(s, 1, <<>>), 0, X)
  <2>1. Ready(f, w, c[i], X)
    BY <1>1, <1>2, <1>4, OutlineEnds
  <2>2. IsSeq(w)
    BY <1>1, <1>2, FromIs
  <2>3. Ready(f, w, c[j], X)
    BY <1>1, <1>3, <2>1, LessHeld DEF InRoom, i
  <2>4. \A b \in B : \/ AllFit(b, Body[f].kind, "held")
                     \/ Ready(f, From(b, 1, From(s, j + 1, <<>>)), c[j], X) /\ IsSeq(b)
    BY <2>1, <2>2 DEF Passes, i
  <2>5. InRoom(f, c[j]) /\ Mode("held", c[j]) /\ Ready(f, From(s, j + 1, <<>>), c[j], X)
    BY <1>1, <1>3, <2>3 DEF Mode, i
  <2> HIDE DEF w
  <2>6. Ready(f, From(s, j, <<>>), c[j], X)
    BY <1>1, <1>2, <2>4, <2>5, EitherAt
  <2>7. Ready(f, From(s, 1, <<>>), c[1], X)
    BY <1>1, <1>2, <1>4, <2>6, Outline
  <2> QED BY <2>7
<1> QED BY <1>2, <1>5, Starts DEF Verified

LEMMA CallFunctionVerified == Verified("call_js_function_value")
<1> DEFINE b == <<Call("convert_to_js"), Root("args[i]")>>
           s == <<Root("target"), Root("function"), Either({b, <<>>}),
                  Script, Protected("convert_to_ruby"), Leave>>
           c == <<0, 1, 2, 3, 3, 3>>
           d == <<2, 2, 3>>
<1>1. /\ Body["call_js_function_value"].todo = s /\ Body["call_js_function_value"].kind = "ruby"
      /\ Body["call_js_function_value"].room = 3 /\ "call_js_function_value" \in Functions
  BY BodyOf, Callable DEF call_js_function_value, RubyFunctions, Maybe
<1>2. /\ Fits(Call("convert_to_js"), "ruby", "held") /\ Fits(Script, "ruby", "held")
      /\ Fits(Protected("convert_to_ruby"), "ruby", "held") /\ Fits(Leave, "ruby", "held")
  BY Callable, FitsCalls, FitsPlain DEF RubyFunctions, JSFunctions
<1>3. Passes("call_js_function_value", b, 2, 3)
  <2>1. IsSeq(b) /\ b # <<>> /\ d[1] = 2 /\ d[Len(b) + 1] = 3
    BY TupleIsSeq
  <2>2. \A i \in 1..(Len(b) + 1) : d[i] \in 0..Body["call_js_function_value"].room
    BY <1>1
  <2>3. \A i \in 1..Len(b) : FollowsOutline("call_js_function_value", b, d, i)
    BY <1>1, <1>2 DEF FollowsOutline, Names
  <2> HIDE DEF b, d, s
  <2> QED BY <1>1, <2>1, <2>2, <2>3, PassesRule
<1>4. /\ IsSeq(s) /\ c[1] = 0 /\ 3 \in 1..(Len(s) - 1) /\ s[3] = Either({b, <<>>})
      /\ c[3] <= c[3 + 1] /\ c[3] = 2 /\ c[3 + 1] = 3
  BY LongTuples
<1>5. \A m \in 1..Len(s) : c[m] \in 0..3
  OBVIOUS
<1>6. /\ \A m \in (1..(Len(s) - 1)) \ {3} : FollowsOutline("call_js_function_value", s, c, m)
      /\ EndsOutline("call_js_function_value", s, c)
  BY <1>1, <1>2 DEF FollowsOutline, EndsOutline, Endings, Names, Leave
<1> HIDE DEF b, c, d, s
<1>7. \A a \in {b, <<>>} : \/ AllFit(a, "ruby", "held")
                           \/ Passes("call_js_function_value", a, c[3], c[3 + 1])
  BY <1>3, <1>4, FitsNone
<1> QED BY <1>1, <1>4, <1>5, <1>6, <1>7, BranchRule

LEMMA MakeProxyVerified == Verified("make_js_land_proxy")
<1> DEFINE b == <<Maybe(<<Bare>>), Bare, Engine, Root("jsobj"), Engine, Bare, Script, Engine,
                  Script>>
           s == <<Script, Root("johnson"), Either({<<Script>>, b}), Leave>>
           c == <<0, 0, 1, 2>>
           d == <<1, 1, 1, 1, 2, 2, 2, 2, 2, 2>>
<1>1. /\ Body["make_js_land_proxy"].todo = s /\ Body["make_js_land_proxy"].kind = "js"
      /\ Body["make_js_land_proxy"].room = 2 /\ "make_js_land_proxy" \in Functions
  BY BodyOf, Callable DEF make_js_land_proxy, JSFunctions
<1>2. /\ Fits(Maybe(<<Bare>>), "js", "held") /\ Fits(Bare, "js", "held")
      /\ Fits(Engine, "js", "held") /\ Fits(Script, "js", "held") /\ Fits(Leave, "js", "held")
  BY RubyFits, FitsCalls, FitsPlain, TuplesFit
<1>3. Passes("make_js_land_proxy", b, 1, 2)
  <2>1. IsSeq(b) /\ b # <<>> /\ d[1] = 1 /\ d[Len(b) + 1] = 2
    BY LongTuples
  <2>2. \A i \in 1..(Len(b) + 1) : d[i] \in 0..Body["make_js_land_proxy"].room
    BY <1>1
  <2>3. \A i \in 1..Len(b) : FollowsOutline("make_js_land_proxy", b, d, i)
    BY <1>1, <1>2 DEF FollowsOutline, Names
  <2> HIDE DEF b, d, s
  <2> QED BY <1>1, <2>1, <2>2, <2>3, PassesRule
<1>4. /\ IsSeq(s) /\ c[1] = 0 /\ 3 \in 1..(Len(s) - 1) /\ s[3] = Either({<<Script>>, b})
      /\ c[3] <= c[3 + 1] /\ c[3] = 1 /\ c[3 + 1] = 2
  BY LongTuples
<1>5. \A m \in 1..Len(s) : c[m] \in 0..2
  OBVIOUS
<1>6. /\ \A m \in (1..(Len(s) - 1)) \ {3} : FollowsOutline("make_js_land_proxy", s, c, m)
      /\ EndsOutline("make_js_land_proxy", s, c)
  BY <1>1, <1>2 DEF FollowsOutline, EndsOutline, Endings, Names, Leave
<1> HIDE DEF b, c, d, s
<1>7. \A a \in {<<Script>>, b} : \/ AllFit(a, "js", "held")
                                \/ Passes("make_js_land_proxy", a, c[3], c[3 + 1])
  BY <1>2, <1>3, <1>4, TuplesFit
<1> QED BY <1>1, <1>4, <1>5, <1>6, <1>7, BranchRule, SMTT(40)
-----------------------------------------------------------------------------
(* JUNROOT. *)
LEMMA WithoutIs ==
  ASSUME NEW h \in Cleanups, NEW x \in Names
  PROVE  \E keep \in 0..Len(h) :
           /\ \A i \in 1..Len(h) : h[i] # x => i <= keep
           /\ keep = 0 \/ (keep \in 1..Len(h) /\ h[keep] # x)
           /\ Without(h, x) = [i \in 1..keep |-> IF h[i] = x THEN Hole ELSE h[i]]
           /\ Len(Without(h, x)) = keep
           /\ Without(h, x) \in Cleanups /\ Len(Without(h, x)) <= Len(h)
           /\ NamesIn(Without(h, x)) = NamesIn(h) \ {x}
<1> DEFINE I == {i \in 1..Len(h) : h[i] # x}
           keep == SelectLastInSeq(h, LAMBDA y : y # x)
           r == Without(h, x)
<1>1. Len(h) \in Nat /\ Hole \notin Names /\ x # Hole /\ h \in [1..Len(h) -> Names \cup {Hole}]
  BY DEF Cleanups, Names, Hole
<1>2. keep = IF I # {} THEN Max(I) ELSE 0
  BY DEF SelectLastInSeq
<1>3. r = [i \in 1..keep |-> IF h[i] = x THEN Hole ELSE h[i]]
  BY DEF Without
<1>4. I \subseteq 1..Len(h) /\ \A i \in 1..Len(h) : h[i] # x => i \in I
  OBVIOUS
<1>5. \A i \in I : h[i] # x
  OBVIOUS
<1> HIDE DEF keep, r, I
<1>6. I # {} => keep \in I /\ \A j \in I : j <= keep
  <2> SUFFICES ASSUME I # {} PROVE keep \in I /\ \A j \in I : j <= keep
    OBVIOUS
  <2>1. \E i \in I : \A j \in I : j <= i
    BY <1>1, <1>4, GreatestExists
  <2>2. \E i \in I : \A j \in I : i >= j
    BY <1>1, <1>4, <2>1
  <2>3. Max(I) \in I /\ \A j \in I : Max(I) >= j
    BY <2>2 DEF Max
  <2> QED BY <1>1, <1>2, <1>4, <2>3
<1>7. keep \in 0..Len(h) /\ \A i \in 1..Len(h) : h[i] # x => i <= keep
  <2>1. CASE I = {}
    BY <1>1, <1>2, <1>4, <2>1
  <2>2. CASE I # {}
    <3>1. keep \in 1..Len(h) /\ \A j \in I : j <= keep
      BY <1>4, <1>6, <2>2
    <3>2. keep \in 0..Len(h)
      BY <1>1, <3>1
    <3> QED BY <1>4, <3>1, <3>2
  <2> QED BY <2>1, <2>2
<1>8. keep = 0 \/ (keep \in 1..Len(h) /\ h[keep] # x)
  BY <1>2, <1>4, <1>5, <1>6
<1>9. \A i \in 1..keep : i \in 1..Len(h)
  BY <1>1, <1>7
<1>10. Len(r) = keep /\ r \in Cleanups /\ \A i \in 1..keep : r[i] = IF h[i] = x THEN Hole ELSE h[i]
  <2>1. r \in [1..keep -> Names \cup {Hole}]
    BY <1>1, <1>3, <1>9
  <2>2. keep \in Nat
    BY <1>1, <1>7
  <2> QED BY <1>3, <2>1, <2>2 DEF Cleanups
<1>11. NamesIn(r) = NamesIn(h) \ {x}
  <2>1. ASSUME NEW y \in NamesIn(r) PROVE y \in NamesIn(h) \ {x}
    <3>1. PICK i \in 1..keep : y = r[i]
      BY <1>7, <1>10 DEF NamesIn, ToSet, Cleanups
    <3> QED BY <1>1, <1>9, <1>10, <3>1 DEF NamesIn, ToSet, Cleanups
  <2>2. ASSUME NEW y \in NamesIn(h) \ {x} PROVE y \in NamesIn(r)
    <3>1. PICK i \in 1..Len(h) : y = h[i]
      BY <1>1 DEF NamesIn, ToSet, Cleanups
    <3>2. i \in 1..keep
      BY <1>1, <1>7, <2>2, <3>1
    <3> QED BY <1>10, <2>2, <3>1, <3>2 DEF NamesIn, ToSet, Cleanups
  <2> QED BY <2>1, <2>2
<1>12. r = Without(h, x) /\ Len(r) <= Len(h)
  BY <1>1, <1>7, <1>10 DEF r
<1> QED BY <1>3, <1>7, <1>8, <1>10, <1>11, <1>12

(* JUNROOT of the last entry, and of the last two in the reverse order. *)
LEMMA WithoutLast ==
  ASSUME NEW g \in Cleanups, NEW x \in Names
  PROVE  /\ Without(Append(g, x), x) \in Cleanups /\ Len(Without(Append(g, x), x)) <= Len(g)
<1> DEFINE h == Append(g, x)
<1>1. h \in Cleanups /\ Len(h) = Len(g) + 1 /\ Len(g) \in Nat /\ h[Len(h)] = x
  BY DEF Cleanups
<1> HIDE DEF h
<1>2. PICK keep \in 0..Len(h) :
        /\ keep = 0 \/ (keep \in 1..Len(h) /\ h[keep] # x)
        /\ Len(Without(h, x)) = keep /\ Without(h, x) \in Cleanups
  BY <1>1, WithoutIs
<1>3. keep <= Len(g)
  BY <1>1, <1>2
<1> QED BY <1>2, <1>3 DEF h

(* JUNROOT of the last entry leaves the one before it. *)
LEMMA WithoutLastButOne ==
  ASSUME NEW g \in Cleanups, NEW x \in Names, NEW y \in Names, x # y
  PROVE  \E k \in Cleanups : Len(k) = Len(g) /\ Without(Append(Append(g, x), y), y) = Append(k, x)
<1> DEFINE h == Append(Append(g, x), y)
           n == Len(g)
           k == [i \in 1..n |-> IF g[i] = y THEN Hole ELSE g[i]]
<1>1. /\ h \in Cleanups /\ Len(h) = n + 2 /\ n \in Nat /\ h[n + 1] = x /\ h[n + 2] = y
      /\ \A i \in 1..n : h[i] = g[i]
  BY DEF Cleanups
<1>2. k \in Cleanups /\ Len(k) = n
  <2>1. k \in [1..n -> Names \cup {Hole}]
    BY DEF Cleanups
  <2> QED BY <1>1, <2>1 DEF Cleanups
<1> HIDE DEF h
<1>3. PICK keep \in 0..Len(h) :
        /\ \A i \in 1..Len(h) : h[i] # y => i <= keep
        /\ keep = 0 \/ (keep \in 1..Len(h) /\ h[keep] # y)
        /\ Without(h, y) = [i \in 1..keep |-> IF h[i] = y THEN Hole ELSE h[i]]
        /\ Len(Without(h, y)) = keep
        /\ Without(h, y) \in Cleanups /\ Len(Without(h, y)) <= Len(h)
        /\ NamesIn(Without(h, y)) = NamesIn(h) \ {y}
  <2> HIDE DEF n, k
  <2>1. h \in Cleanups /\ y \in Names
    BY <1>1
  <2> QED BY ONLY <2>1, WithoutIs, Zenon
<1>4. keep = n + 1
  BY <1>1, <1>3
<1>5. Append(k, x) = [i \in 1..(n + 1) |-> IF i = n + 1 THEN x ELSE k[i]]
  BY <1>1, <1>2 DEF Cleanups
<1>6. \A i \in 1..(n + 1) : (IF h[i] = y THEN Hole ELSE h[i]) = (IF i = n + 1 THEN x ELSE k[i])
  BY <1>1
<1>7. Without(h, y) = Append(k, x)
  BY <1>3, <1>4, <1>5, <1>6
<1> QED BY <1>2, <1>7 DEF h

(* JUNROOT. *)
LEMMA UnrootSafe ==
  ASSUME NEW f \in Functions, NEW h \in Cleanups, Len(h) <= Body[f].room, NEW X,
         NEW s, IsSeq(s), NEW w, IsSeq(w), NEW i \in 1..Len(s),
         NEW x \in Names, s[i] = Unroot(x),
         Safe(f, <<From(s, i + 1, w), Without(h, x)>>, X)
  PROVE  Safe(f, <<From(s, i, w), h>>, X)
<1> DEFINE t == From(s, i, w)
<1>1. t # <<>> /\ Head(t) = s[i] /\ Tail(t) = From(s, i + 1, w)
  BY FromIs
<1> HIDE DEF t
<1>2. Head(t).do = "unroot" /\ Head(t).of = x
  BY <1>1 DEF Unroot
<1>3. NamesIn(Without(h, x)) = NamesIn(h) \ {x}
  BY WithoutIs
<1>4. Kept(f, <<t, h>>)
  BY <1>1, <1>2, <1>3 DEF Kept
<1>5. After(f, <<t, h>>) = {<<Tail(t), Without(h, x)>>}
  BY <1>2 DEF After
<1>6. Safe(f, <<t, h>>, X)
  BY <1>1, <1>4, <1>5, Fold
<1> QED BY <1>6 DEF t

(* The loop of each over the properties of an object. *)
EachProperty == <<Engine, Root("js_key"), Script, Root("js_value"), Protected("convert_to_ruby"),
                  Protected("convert_to_ruby"), Ruby, Unroot("js_value"), Unroot("js_key")>>

LEMMA EachPropertyIs ==
  /\ IsSeq(EachProperty) /\ Len(EachProperty) = 9
  /\ \A i \in {1, 3, 5, 6, 7} : Fits(EachProperty[i], "ruby", "held")
  /\ EachProperty[2] = Root("js_key") /\ EachProperty[4] = Root("js_value")
  /\ EachProperty[8] = Unroot("js_value") /\ EachProperty[9] = Unroot("js_key")
<1>1. /\ Fits(Engine, "ruby", "held") /\ Fits(Script, "ruby", "held") /\ Fits(Ruby, "ruby", "held")
      /\ Fits(Protected("convert_to_ruby"), "ruby", "held")
  BY Callable, FitsCalls, FitsPlain DEF RubyFunctions
<1>2. IsSeq(EachProperty)
  BY LongTuples DEF EachProperty
<1> QED BY <1>1, <1>2 DEF EachProperty

LEMMA EachIs ==
  /\ "each" \in Functions /\ Body["each"].kind = "ruby" /\ Body["each"].room = 5
  /\ Body["each"].todo =
       <<Root("proxy_value"), Root("value"),
         Either({<<Engine, Loop(<<Script, Protected("convert_to_ruby"), Ruby>>)>>,
                 <<Script, Cleanup("ids"), Loop(EachProperty)>>}),
         Leave>>
BY BodyOf, Callable DEF each, EachProperty, RubyFunctions

(* Once around the loop nothing more is held than before. *)
LEMMA EachPropertySafe ==
  ASSUME NEW Y, NEW t, IsSeq(t), NEW h \in Cleanups, Len(h) <= 3,
         \A g \in Cleanups : Len(g) <= 3 => Safe("each", <<t, g>>, Y)
  PROVE  Safe("each", <<EachProperty \o t, h>>, Y)
<1> DEFINE f == "each"
           s == EachProperty
           At(i, g) == Safe("each", <<From(EachProperty, i, t), g>>, Y)
<1>1. "js_key" \in Names /\ "js_value" \in Names /\ "js_key" # "js_value"
  BY DEF Names
<1>2. ASSUME NEW i \in {1, 3, 5, 6, 7}, NEW g \in Cleanups, Len(g) <= 5, At(i + 1, g)
      PROVE  At(i, g)
  <2>1. i \in 1..Len(s) /\ i \in Nat /\ IsSeq(s) /\ IsSeq(t) /\ Fits(s[i], "ruby", "held")
    BY EachPropertyIs
  <2>2. f \in Functions /\ Len(g) <= Body[f].room /\ Body[f].kind = "ruby"
    BY <1>2, EachIs
  <2>3. Fits(s[i], Body[f].kind, "held") /\ ("held" = "clean" => g = <<>>)
    BY <2>1, <2>2
  <2>4. Safe(f, <<From(s, i + 1, t), g>>, Y)
    BY <1>2
  <2> HIDE DEF f, s
  <2>5. Safe(f, <<From(s, i, t), g>>, Y)
    BY <1>2, <2>1, <2>2, <2>3, <2>4, QuietSafe
  <2> QED BY <2>5 DEF f, s
<1>3. ASSUME NEW i \in {2, 4}, NEW x \in Names, s[i] = Root(x),
             NEW g \in Cleanups, Len(g) <= 5, At(i + 1, Append(g, x))
      PROVE  At(i, g)
  <2>1. i \in 1..Len(s) /\ i \in Nat /\ IsSeq(s) /\ IsSeq(t)
    BY EachPropertyIs
  <2>2. f \in Functions /\ Len(g) <= Body[f].room
    BY <1>3, EachIs
  <2>3. Safe(f, <<From(s, i + 1, t), Append(g, x)>>, Y)
    BY <1>3
  <2> HIDE DEF f, s
  <2>4. Safe(f, <<From(s, i, t), g>>, Y)
    BY <1>3, <2>1, <2>2, <2>3, RootSafe
  <2> QED BY <2>4 DEF f, s
<1>4. ASSUME NEW i \in {8, 9}, NEW x \in Names, s[i] = Unroot(x),
             NEW g \in Cleanups, Len(g) <= 5, At(i + 1, Without(g, x))
      PROVE  At(i, g)
  <2>1. i \in 1..Len(s) /\ i \in Nat /\ IsSeq(s) /\ IsSeq(t)
    BY EachPropertyIs
  <2>2. f \in Functions /\ Len(g) <= Body[f].room
    BY <1>4, EachIs
  <2>3. Safe(f, <<From(s, i + 1, t), Without(g, x)>>, Y)
    BY <1>4
  <2> HIDE DEF f, s
  <2>4. Safe(f, <<From(s, i, t), g>>, Y)
    BY <1>4, <2>1, <2>2, <2>3, UnrootSafe
  <2> QED BY <2>4 DEF f, s
<1>5. \A g \in Cleanups : Len(g) <= 3 => At(10, g)
  <2>1. IsSeq(EachProperty) /\ Len(EachProperty) + 1 = 10
    BY EachPropertyIs
  <2>2. From(EachProperty, Len(EachProperty) + 1, t) = t
    BY <2>1, FromEnds
  <2> QED BY <2>1, <2>2
<1>6. From(EachProperty, 1, t) = EachProperty \o t
  BY EachPropertyIs, FromEnds
<1> HIDE DEF f, s, At
<1>7. \A g \in Cleanups : Len(g) <= 3 => At(9, Append(g, "js_key"))
  <2> TAKE g \in Cleanups
  <2> HAVE Len(g) <= 3
  <2> DEFINE x == "js_key"
             k == Append(g, x)
  <2>1. x \in Names /\ s[9] = Unroot(x)
    BY <1>1, EachPropertyIs DEF s
  <2>2. k \in Cleanups /\ Len(k) = Len(g) + 1 /\ Len(g) \in Nat
    BY <2>1, CleanupsAre
  <2>3. Without(k, x) \in Cleanups /\ Len(Without(k, x)) <= Len(g)
    BY <2>1, WithoutLast
  <2> HIDE DEF k, x
  <2>4. Len(Without(k, x)) <= 3 /\ Len(k) <= 5
    BY <2>2, <2>3, CleanupsAre
  <2>5. At(9 + 1, Without(k, x))
    BY <1>5, <2>3, <2>4
  <2>6. At(9, k)
    BY <1>4, <2>1, <2>2, <2>4, <2>5
  <2> QED BY <2>6 DEF k, x
<1> DEFINE h1 == Append(h, "js_key")
           h2 == Append(h1, "js_value")
<1>8. /\ h1 \in Cleanups /\ Len(h1) <= 5 /\ h2 \in Cleanups /\ Len(h2) <= 5 /\ Len(h) <= 5
      /\ \E g \in Cleanups : Len(g) <= 3 /\ Without(h2, "js_value") = Append(g, "js_key")
  <2>1. \E g \in Cleanups : Len(g) = Len(h) /\ Without(h2, "js_value") = Append(g, "js_key")
    BY <1>1, WithoutLastButOne
  <2>2. /\ h1 \in Cleanups /\ Len(h1) = Len(h) + 1 /\ h2 \in Cleanups /\ Len(h2) = Len(h1) + 1
        /\ Len(h) \in Nat
    <3>1. h1 \in Cleanups /\ Len(h1) = Len(h) + 1 /\ Len(h) \in Nat
      BY <1>1, CleanupsAre
    <3> HIDE DEF h1
    <3> QED BY <1>1, <3>1, CleanupsAre
  <2> HIDE DEF h1, h2
  <2> QED BY <2>1, <2>2
<1>9. /\ s[2] = Root("js_key") /\ s[4] = Root("js_value") /\ s[8] = Unroot("js_value")
  BY EachPropertyIs DEF s
<1> HIDE DEF h2
<1>10. At(8, h2)
  <2>1. At(9, Without(h2, "js_value"))
    BY <1>7, <1>8
  <2> QED BY <1>1, <1>4, <1>8, <1>9, <2>1
<1>11. At(5, h2)
  BY <1>2, <1>8, <1>10
<1>12. At(4, h1)
  <2> HIDE DEF h1
  <2>1. At(4 + 1, Append(h1, "js_value"))
    BY <1>11 DEF h2
  <2> QED BY <1>1, <1>3, <1>8, <1>9, <2>1
<1> HIDE DEF h1
<1>13. At(3, h1)
  BY <1>2, <1>8, <1>12
<1>14. At(2, h)
  BY <1>1, <1>3, <1>8, <1>9, <1>13 DEF h1
<1>15. At(1, h)
  BY <1>2, <1>8, <1>14
<1> QED BY <1>6, <1>15 DEF At

(* Hence the loop is safe however often it runs. *)
LEMMA EachLoop ==
  ASSUME NEW X, NEW t, IsSeq(t), t # <<>>, Head(t) = Loop(EachProperty), Ready("each", Tail(t), 3, X)
  PROVE  Ready("each", t, 3, X)
<1> DEFINE Q == {<<t, h>> : h \in {g \in Cleanups : Len(g) <= 3}}
           Y == X \cup Q
<1>1. ASSUME NEW h \in Cleanups, Len(h) <= 3
      PROVE  /\ Kept("each", <<t, h>>)
             /\ \A q \in After("each", <<t, h>>) : Safe("each", q, Y)
  <2>1. /\ Head(t).do = "loop" /\ Head(t).of = EachProperty
    BY DEF Loop
  <2>2. Kept("each", <<t, h>>)
    BY <1>1, <2>1, CleanupsAre, EachIs DEF Kept
  <2>3. \A g \in Cleanups : Len(g) <= 3 => <<t, g>> \in Y
    OBVIOUS
  <2>4. Safe("each", <<Tail(t), h>>, Y)
    BY <1>1, Weaker DEF Ready
  <2> HIDE DEF Y
  <2>5. \A g \in Cleanups : Len(g) <= 3 => Safe("each", <<t, g>>, Y)
    BY <2>3, Within
  <2>6. Safe("each", <<EachProperty \o t, h>>, Y)
    BY <1>1, <2>5, EachPropertySafe
  <2>7. After("each", <<t, h>>) = {<<Tail(t), h>>, <<EachProperty \o t, h>>}
    BY <2>1 DEF After
  <2> QED BY <2>2, <2>4, <2>6, <2>7
<1>2. \A p \in Q : Kept("each", p) /\ \A q \in After("each", p) : Safe("each", q, X \cup Q)
  BY <1>1
<1>3. \A h \in Cleanups : Len(h) <= 3 => <<t, h>> \in Q
  OBVIOUS
<1> HIDE DEF Q
<1>4. \A p \in Q : Safe("each", p, X)
  BY <1>2, UpTo
<1> QED BY <1>3, <1>4 DEF Ready

LEMMA EachVerified == Verified("each")
<1> DEFINE P == Protected("convert_to_ruby")
           a == <<Engine, Loop(<<Script, P, Ruby>>)>>
           b == <<Script, Cleanup("ids"), Loop(EachProperty)>>
           s == <<Root("proxy_value"), Root("value"), Either({a, b}), Leave>>
           c == <<0, 1, 2, 3>>
           d == <<2, 2, 3>>
<1>1. /\ Body["each"].todo = s /\ Body["each"].kind = "ruby"
      /\ Body["each"].room = 5 /\ "each" \in Functions
  BY EachIs
<1>2. /\ Fits(Engine, "ruby", "held") /\ Fits(Script, "ruby", "held") /\ Fits(Ruby, "ruby", "held")
      /\ Fits(P, "ruby", "held") /\ Fits(Leave, "ruby", "held")
  BY Callable, FitsCalls, FitsPlain DEF RubyFunctions
<1>3. AllFit(a, "ruby", "held")
  <2> HIDE DEF P
  <2>1. AllFit(<<Script, P, Ruby>>, "ruby", "held")
    BY <1>2, TuplesFit
  <2> QED BY <1>2, <2>1, FitsLoop, TuplesFit
<1> HIDE DEF a
<1>4. Passes("each", b, 2, 3)
  <2>1. IsSeq(b) /\ b # <<>> /\ Len(b) = 3 /\ b[3] = Loop(EachProperty)
    BY LongTuples
  <2>2. \A i \in 1..3 : InRoom("each", d[i])
    BY <1>1 DEF InRoom
  <2>3. \A i \in 1..2 : FollowsOutline("each", b, d, i)
    BY <1>1, <1>2 DEF FollowsOutline, Names
  <2>4. ASSUME NEW w, NEW X, IsSeq(w), Ready("each", w, 3, X)
        PROVE  Ready("each", From(b, 1, w), 2, X)
    <3> HIDE DEF b
    <3> DEFINE t == From(b, 3, w)
    <3>1. IsSeq(t) /\ t # <<>> /\ Head(t) = Loop(EachProperty) /\ Tail(t) = w
      <4>1. 3 \in 1..Len(b) /\ Len(b) + 1 = 3 + 1
        BY <2>1
      <4>2. From(b, 3 + 1, w) = w
        BY <2>1, <2>4, <4>1, FromEnds
      <4> QED BY <2>1, <2>4, <4>1, <4>2, FromIs
    <3>2. Ready("each", t, 3, X)
      <4> HIDE DEF t
      <4> QED BY <2>4, <3>1, EachLoop
    <3>3. /\ 1 \in 1..Len(b) /\ 3 \in 1..(Len(b) + 1) /\ d[3] = 3 /\ d[1] = 2
          /\ IsSeq(b) /\ IsSeq(w)
      BY <2>1, <2>4
    <3>4. /\ \A m \in 1..3 : InRoom("each", d[m])
          /\ \A m \in 1..(3 - 1) : FollowsOutline("each", b, d, m)
      BY <2>2, <2>3
    <3>5. Ready("each", From(b, 3, w), d[3], X)
      BY <3>2, <3>3
    <3> HIDE DEF d
    <3>6. Ready("each", From(b, 1, w), d[1], X)
      BY <3>3, <3>4, <3>5, Outline
    <3> QED BY <3>3, <3>6
  <2> QED BY <2>1, <2>4 DEF Passes
<1>5. /\ IsSeq(s) /\ c[1] = 0 /\ 3 \in 1..(Len(s) - 1) /\ s[3] = Either({a, b})
      /\ c[3] <= c[3 + 1] /\ c[3] = 2 /\ c[3 + 1] = 3
  BY LongTuples
<1>6. \A m \in 1..Len(s) : c[m] \in 0..5
  OBVIOUS
<1>7. /\ \A m \in (1..(Len(s) - 1)) \ {3} : FollowsOutline("each", s, c, m)
      /\ EndsOutline("each", s, c)
  BY <1>1, <1>2 DEF FollowsOutline, EndsOutline, Endings, Names, Leave
<1> HIDE DEF b, c, d, s
<1>8. \A x \in {a, b} : AllFit(x, "ruby", "held") \/ Passes("each", x, c[3], c[3 + 1])
  BY <1>3, <1>4, <1>5
<1>9. /\ 3 \in 1..(Len(s) - 1)
      /\ \A x \in {a, b} : AllFit(x, "ruby", "held") \/ Passes("each", x, c[3], c[3 + 1])
  BY <1>5, <1>8
<1> QED BY <1>1, <1>5, <1>6, <1>7, <1>9, BranchRule, SMTT(40)
-----------------------------------------------------------------------------
(* All functions, and the stack of their frames. *)
(* Every C function that crosses the bridge keeps to the rules, whatever   *)
(* its calls do: within its room, nothing held when it leaves by another   *)
(* way than JRETURN, and failing in the manner of its kind.                *)
THEOREM AllVerified == \A f \in Functions : Verified(f)
<1>1. \A f \in RubyFunctions : Verified(f)
  BY RootlessFunctions, OneRootFunctions, OutlinedFunctions, ConvertToRubyVerified,
     CallFunctionVerified, EachVerified DEF RubyFunctions
<1>2. \A f \in JSFunctions : Verified(f)
  BY RootlessFunctions, ConversionVerified, HandlersVerified, OneRootFunctions,
     PropertyAccessVerified, OutlinedFunctions, SetVerified, MakeProxyVerified DEF JSFunctions
<1> QED BY <1>1, <1>2, FunctionsAre

(* Ruby only calls functions that raise, script only functions that return JS_FALSE. *)
LEMMA EntryKinds ==
  /\ RubyEntries \subseteq Functions /\ \A f \in RubyEntries : Body[f].kind = "ruby"
  /\ ScriptEntries \subseteq Functions /\ \A f \in ScriptEntries : Body[f].kind = "js"
<1>1. RubyMethods \subseteq RubyFunctions
  BY DEF RubyMethods, RubyFunctions
<1>2. ScriptHandlers \subseteq JSFunctions
  BY DEF ScriptHandlers, JSFunctions
<1> QED BY <1>1, <1>2, CrossingAssumption, RubyKinds, JSKinds, FunctionsAre
-----------------------------------------------------------------------------
(* The stack.  A frame is sound when everything it can still do keeps to   *)
(* the rules; the frame below it has made a call of its kind.              *)
IsFrame(fr) ==
    /\ fr = [fn |-> fr.fn, todo |-> fr.todo, held |-> fr.held]
    /\ fr.fn \in Functions
    /\ Sound(fr.fn, <<fr.todo, fr.held>>)

KindOf(fr) == Body[fr.fn].kind

Waits(fr, kind) ==
    \/ kind = "js" /\ Head(fr.todo).do \in {"call", "script", "engine"}
    \/ kind = "ruby" /\ Head(fr.todo).do \in {"protected", "direct", "ruby", "bare"}

WellFormed(s) ==
    /\ IsSeq(s)
    /\ \A d \in 1..Len(s) : IsFrame(s[d])
    /\ s # <<>> => KindOf(s[1]) = "ruby"
    /\ \A d \in 2..Len(s) : Waits(s[d - 1], KindOf(s[d]))

(* What is registered, and what the frames hold. *)
Rooted(s, reg, tears) ==
    /\ reg \subseteq (1..MaxDepth) \X Names
    /\ \A d \in 1..Len(s) : \A x \in NamesIn(s[d].held) : <<d, x>> \in reg
    /\ tears = 0 => \A d \in 1..MaxDepth, x \in Names :
         <<d, x>> \in reg => d \in 1..Len(s) /\ x \in NamesIn(s[d].held)

(* What a frame on the stack satisfies. *)
LEMMA FrameRules ==
  ASSUME NEW fr, IsFrame(fr)
  PROVE  /\ Kept(fr.fn, <<fr.todo, fr.held>>)
         /\ fr.todo # <<>> /\ fr.held \in Cleanups /\ NamesIn(fr.held) \subseteq Names
         /\ Len(fr.held) <= Body[fr.fn].room
         /\ \A q \in After(fr.fn, <<fr.todo, fr.held>>) :
              IsFrame([fn |-> fr.fn, todo |-> q[1], held |-> q[2]])
<1>1. /\ Kept(fr.fn, <<fr.todo, fr.held>>)
      /\ \A q \in After(fr.fn, <<fr.todo, fr.held>>) : Sound(fr.fn, q)
  BY Unfold DEF IsFrame
<1>2. fr.todo # <<>> /\ fr.held \in Cleanups /\ Len(fr.held) <= Body[fr.fn].room
  BY <1>1 DEF Kept
<1>3. NamesIn(fr.held) \subseteq Names
  BY <1>2 DEF Cleanups, NamesIn, ToSet
<1>4. \A q \in After(fr.fn, <<fr.todo, fr.held>>) : q = <<q[1], q[2]>>
  BY SMTT(40) DEF After
<1> QED BY <1>1, <1>2, <1>3, <1>4 DEF IsFrame

(* The innermost function goes on. *)
LEMMA GoesOn ==
  ASSUME NEW s, WellFormed(s), s # <<>>, NEW fr, IsFrame(fr), fr.fn = s[Len(s)].fn
  PROVE  /\ WellFormed([s EXCEPT ![Len(s)] = fr])
         /\ Len([s EXCEPT ![Len(s)] = fr]) = Len(s) /\ Len(s) \in Nat \ {0}
         /\ [s EXCEPT ![Len(s)] = fr] # <<>>
         /\ \A d \in 1..Len(s) : [s EXCEPT ![Len(s)] = fr][d] = IF d = Len(s) THEN fr ELSE s[d]
<1> DEFINE n == Len(s)
           r == [s EXCEPT ![n] = fr]
<1>1. PICK S : s \in Seq(S)
  BY DEF WellFormed, IsSeq
<1>2. n \in Nat \ {0}
  BY <1>1
<1>3. r \in Seq(S \cup {fr}) /\ Len(r) = n /\ r # <<>>
  BY <1>1, <1>2
<1>4. \A d \in 1..n : r[d] = IF d = n THEN fr ELSE s[d]
  BY <1>1, <1>2
<1>5. IsSeq(r)
  BY <1>3, SeqIsSeq
<1> HIDE DEF r, n
<1>6. \A d \in 2..n : d - 1 \in 1..n /\ d - 1 # n /\ d \in 1..n
  BY <1>2
<1>7. s # <<>> /\ 1 \in 1..n
  BY <1>2
<1>8. WellFormed(r)
  BY <1>2, <1>3, <1>4, <1>5, <1>6, <1>7 DEF WellFormed, KindOf, n
<1> QED BY <1>2, <1>3, <1>4, <1>8 DEF r, n

(* A function is called. *)
LEMMA Calls ==
  ASSUME NEW s, WellFormed(s), NEW f \in Functions,
         s = <<>> => Body[f].kind = "ruby",
         s # <<>> => Waits(s[Len(s)], Body[f].kind)
  PROVE  /\ WellFormed(Append(s, Frame(f)))
         /\ Len(Append(s, Frame(f))) = Len(s) + 1 /\ Len(s) \in Nat
         /\ \A d \in 1..(Len(s) + 1) :
              Append(s, Frame(f))[d] = IF d = Len(s) + 1 THEN Frame(f) ELSE s[d]
         /\ Append(s, Frame(f)) # <<>> /\ NamesIn(Frame(f).held) = {}
<1> DEFINE n == Len(s)
           fr == Frame(f)
           r == Append(s, fr)
<1>1. PICK S : s \in Seq(S)
  BY DEF WellFormed, IsSeq
<1>2. n \in Nat
  BY <1>1
<1>3. fr.fn = f /\ fr.todo = Body[f].todo /\ fr.held = <<>> /\ IsFrame(fr)
  BY AllVerified DEF Frame, IsFrame, Verified
<1> HIDE DEF fr
<1>4. /\ r \in Seq(S \cup {fr}) /\ Len(r) = n + 1 /\ r # <<>>
      /\ r[n + 1] = fr /\ \A d \in 1..n : r[d] = s[d]
  <2>1. s \in Seq(S \cup {fr}) /\ fr \in S \cup {fr}
    BY <1>1
  <2> QED BY <2>1, AppendProperties
<1>5. \A d \in 1..(n + 1) : r[d] = IF d = n + 1 THEN fr ELSE s[d]
  <2> HIDE DEF r, n
  <2> QED BY <1>2, <1>4
<1>6. IsSeq(r)
  BY <1>4, SeqIsSeq
<1>7. s = <<>> <=> n = 0
  BY <1>1, EmptySeq
<1> HIDE DEF r, n
<1>8. \A d \in 1..(n + 1) : IsFrame(r[d])
  BY <1>2, <1>3, <1>5 DEF WellFormed, n
<1>9. r # <<>> => KindOf(r[1]) = "ruby"
  BY <1>2, <1>3, <1>5, <1>7 DEF WellFormed, KindOf, n
<1>10. ASSUME NEW d \in 2..(n + 1) PROVE Waits(r[d - 1], KindOf(r[d]))
  <2>1. d - 1 \in 1..n /\ d - 1 \in 1..(n + 1) /\ d \in 1..(n + 1) /\ d - 1 # n + 1
    BY <1>2
  <2>2. r[d - 1] = s[d - 1]
    BY <1>5, <2>1
  <2>3. CASE d = n + 1
    <3>1. s # <<>> /\ d - 1 = n
      BY <1>2, <1>7, <2>1, <2>3
    <3> QED BY <1>3, <1>5, <2>1, <2>2, <2>3, <3>1 DEF KindOf, n
  <2>4. CASE d # n + 1
    <3>1. d \in 2..n
      BY <1>2, <2>4
    <3> QED BY <1>5, <2>1, <2>2, <2>4, <3>1 DEF WellFormed, n
  <2> QED BY <2>3, <2>4
<1>11. WellFormed(r)
  BY <1>4, <1>6, <1>8, <1>9, <1>10 DEF WellFormed
<1> QED BY <1>2, <1>3, <1>4, <1>5, <1>11, CleanupsAre DEF r, n, fr

(* The innermost function ends. *)
LEMMA Ends ==
  ASSUME NEW s, WellFormed(s), s # <<>>
  PROVE  /\ WellFormed(Front(s)) /\ Len(Front(s)) = Len(s) - 1 /\ Len(s) \in Nat \ {0}
         /\ \A d \in 1..(Len(s) - 1) : Front(s)[d] = s[d]
         /\ Front(s) = <<>> <=> Len(s) = 1
         /\ Front(s) = <<>> => KindOf(s[Len(s)]) = "ruby"
         /\ Front(s) # <<>> => Waits(s[Len(s) - 1], KindOf(s[Len(s)]))
<1> DEFINE n == Len(s)
           r == Front(s)
<1>1. PICK S : s \in Seq(S)
  BY DEF WellFormed, IsSeq
<1>2. n \in Nat \ {0}
  BY <1>1
<1>3. r \in Seq(S) /\ Len(r) = n - 1 /\ (\A d \in 1..(n - 1) : r[d] = s[d])
  <2>1. r = SubSeq(s, 1, n - 1)
    BY DEF Front
  <2>2. r \in Seq(S) /\ Len(r) = n - 1
    <3>1. \A k \in 1..(n - 1) : s[k] \in S
      BY <1>1, <1>2
    <3> DEFINE q == n - 1
    <3>2. 1 \in Int /\ q \in Int /\ 0 <= q /\ \A k \in 1..q : s[k] \in S
      BY <1>2, <3>1
    <3> HIDE DEF q
    <3>3. SubSeq(s, 1, q) \in Seq(S) /\ Len(SubSeq(s, 1, q)) = IF 1 <= q THEN q - 1 + 1 ELSE 0
      BY ONLY <3>2, SubSeqProperties
    <3>4. Len(SubSeq(s, 1, q)) = q
      BY <3>2, <3>3
    <3> QED BY <2>1, <3>3, <3>4 DEF q
  <2> QED BY <1>1, <1>2, <2>1, <2>2
<1>4. IsSeq(r)
  BY <1>3, SeqIsSeq
<1>5. r = <<>> <=> n = 1
  BY <1>2, <1>3
<1> HIDE DEF r, n
<1>6. /\ \A d \in 1..n : IsFrame(s[d])
      /\ KindOf(s[1]) = "ruby"
      /\ \A d \in 2..n : Waits(s[d - 1], KindOf(s[d]))
  BY DEF WellFormed, n
<1>7. WellFormed(r)
  <2>1. \A d \in 1..(n - 1) : IsFrame(r[d])
    BY <1>2, <1>3, <1>6
  <2>2. r # <<>> => KindOf(r[1]) = "ruby"
    BY <1>2, <1>3, <1>5, <1>6
  <2>3. \A d \in 2..(n - 1) : Waits(r[d - 1], KindOf(r[d]))
    <3> TAKE d \in 2..(n - 1)
    <3>1. d \in 2..n /\ d \in 1..(n - 1) /\ d - 1 \in 1..(n - 1)
      BY <1>2
    <3> QED BY <1>3, <1>6, <3>1
  <2> QED BY <1>3, <1>4, <2>1, <2>2, <2>3 DEF WellFormed
<1>8. r # <<>> => Waits(s[n - 1], KindOf(s[n]))
  BY <1>2, <1>5, <1>6
<1> QED BY <1>2, <1>3, <1>5, <1>6, <1>7, <1>8 DEF r, n

LEMMA FrameChanges ==
  ASSUME NEW fr, IsFrame(fr), NEW t, NEW h
  PROVE  /\ [fr EXCEPT !.todo = t] = [fn |-> fr.fn, todo |-> t, held |-> fr.held]
         /\ [fr EXCEPT !.todo = t, !.held = h] = [fn |-> fr.fn, todo |-> t, held |-> h]
<1> DEFINE g == [fr EXCEPT !.todo = t]
           F(b, c) == [fn : {fr.fn}, todo : {b}, held : {c}]
<1>1. fr \in F(fr.todo, fr.held)
  BY DEF IsFrame
<1>2. g \in F(t, fr.held) /\ g = [fn |-> fr.fn, todo |-> t, held |-> fr.held]
  BY <1>1
<1> HIDE DEF g
<1>3. [g EXCEPT !.held = h] = [fn |-> fr.fn, todo |-> t, held |-> h]
  BY <1>2
<1>4. [fr EXCEPT !.todo = t, !.held = h] = [fn |-> fr.fn, todo |-> t, held |-> h]
  BY <1>3, Zenon DEF g
<1> QED BY <1>2, <1>4, Zenon DEF g

LEMMA LastChanges ==
  ASSUME NEW s, WellFormed(s), s # <<>>
  PROVE  [s EXCEPT ![Len(s)].todo = Tail(@)]
           = [s EXCEPT ![Len(s)] = [fn |-> s[Len(s)].fn, todo |-> Tail(s[Len(s)].todo),
                                    held |-> s[Len(s)].held]]
<1>1. PICK S : s \in Seq(S)
  BY DEF WellFormed, IsSeq
<1>2. Len(s) \in 1..Len(s) /\ IsFrame(s[Len(s)])
  BY <1>1 DEF WellFormed
<1> DEFINE fr == s[Len(s)]
<1>3. [fr EXCEPT !.todo = Tail(fr.todo)]
        = [fn |-> fr.fn, todo |-> Tail(fr.todo), held |-> fr.held]
  BY <1>2, FrameChanges
<1> QED BY <1>2, <1>3

LEMMA LastIs == ASSUME NEW s, s # <<>>, IsSeq(s) PROVE Last(s) = s[Len(s)]
BY DEF Last
-----------------------------------------------------------------------------
(* The inductive invariant. *)
Waiting(s, c, tears) ==
    /\ c = "js" => s # <<>> /\ Waits(s[Len(s)], "js")
    /\ c = "ruby" /\ tears = 0 /\ s # <<>> => Waits(s[Len(s)], "ruby")
    /\ c = "program" /\ s # <<>> => Head(s[Len(s)].todo).do \in {"ruby", "bare", "script"}
    /\ c \in {"bridge", "null"} => s # <<>>

Counted(depth, tears, c) ==
    /\ depth <= MaxDepth /\ tears \in 0..MaxTears
    /\ c \in {"bridge", "program", "js", "ruby", "null"}

IInv ==
    /\ WellFormed(stack)
    /\ Counted(Depth, torn, control)
    /\ Rooted(stack, registered, torn)
    /\ Waiting(stack, control, torn)

LEMMA RootedSame ==
  ASSUME NEW s, NEW r, NEW reg, NEW tears, Rooted(s, reg, tears), Len(r) = Len(s),
         \A d \in 1..Len(s) : NamesIn(r[d].held) = NamesIn(s[d].held)
  PROVE  Rooted(r, reg, tears)
BY DEF Rooted

(* An exception from an unprotected call only weakens what is claimed. *)
LEMMA MoreTears ==
  ASSUME NEW s, NEW reg, NEW tears \in Nat, Rooted(s, reg, tears)
  PROVE  Rooted(s, reg, tears + 1)
BY DEF Rooted

(* The innermost function takes a step and stays. *)
LEMMA Steps ==
  ASSUME IInv, ~Idle, NEW t, NEW h, <<t, h>> \in After(Top.fn, <<Top.todo, Top.held>>),
         Become([fn |-> Top.fn, todo |-> t, held |-> h])
  PROVE  /\ WellFormed(stack') /\ Len(stack') = Depth /\ stack' # <<>> /\ Depth \in Nat \ {0}
         /\ \A d \in 1..Depth :
              stack'[d] = IF d = Depth THEN [fn |-> Top.fn, todo |-> t, held |-> h] ELSE stack[d]
<1> DEFINE fr == [fn |-> Top.fn, todo |-> t, held |-> h]
<1>1. WellFormed(stack) /\ stack # <<>>
  BY DEF IInv, Idle
<1>2. PICK S : stack \in Seq(S)
  BY <1>1 DEF WellFormed, IsSeq
<1>3. IsFrame(Top)
  BY <1>1, <1>2 DEF WellFormed, Top, Depth
<1>4. IsFrame(fr) /\ fr.fn = Top.fn
  BY <1>3, FrameRules
<1>5. stack' = [stack EXCEPT ![Len(stack)] = fr]
  BY DEF Become, Depth
<1> HIDE DEF fr
<1>6. fr.fn = stack[Len(stack)].fn
  BY <1>4 DEF Top, Depth
<1>7. /\ WellFormed(stack') /\ Len(stack') = Len(stack) /\ Len(stack) \in Nat \ {0}
      /\ stack' # <<>>
      /\ \A d \in 1..Len(stack) : stack'[d] = IF d = Len(stack) THEN fr ELSE stack[d]
  BY <1>1, <1>4, <1>5, <1>6, GoesOn, ZenonT(40)
<1> QED BY <1>7 DEF Depth, fr

LEMMA TopIs ==
  ASSUME IInv, ~Idle
  PROVE  /\ IsFrame(Top) /\ Depth \in Nat \ {0} /\ stack # <<>>
         /\ Kept(Top.fn, <<Top.todo, Top.held>>) /\ Top.fn \in Functions
         /\ Top.held \in Cleanups /\ NamesIn(Top.held) \subseteq Names
<1>1. WellFormed(stack) /\ stack # <<>>
  BY DEF IInv, Idle
<1>2. PICK S : stack \in Seq(S)
  BY <1>1 DEF WellFormed, IsSeq
<1>3. IsFrame(Top) /\ Depth \in Nat \ {0}
  BY <1>1, <1>2 DEF WellFormed, Top, Depth
<1> QED BY <1>1, <1>3, FrameRules DEF IsFrame

(* ... without touching the cleanups. *)
LEMMA StepsQuietly ==
  ASSUME IInv, ~Idle, NEW t, <<t, Top.held>> \in After(Top.fn, <<Top.todo, Top.held>>),
         Continue(t), UNCHANGED <<registered, torn>>, control' = "bridge"
  PROVE  IInv'
<1>1. Become([fn |-> Top.fn, todo |-> t, held |-> Top.held])
  BY TopIs, FrameChanges DEF Continue, Become
<1>2. /\ WellFormed(stack') /\ Len(stack') = Depth /\ stack' # <<>>
      /\ \A d \in 1..Depth :
           stack'[d] = IF d = Depth THEN [fn |-> Top.fn, todo |-> t, held |-> Top.held]
                       ELSE stack[d]
  BY <1>1, Steps
<1>3. /\ Rooted(stack, registered, torn)
      /\ \A d \in 1..Depth : NamesIn(stack'[d].held) = NamesIn(stack[d].held)
  BY <1>2 DEF IInv, Top
<1>4. Rooted(stack', registered, torn)
  BY <1>2, <1>3, RootedSame DEF Depth
<1>5. Counted(Len(stack'), torn, "bridge")
  BY <1>2 DEF IInv, Counted
<1>6. Waiting(stack', "bridge", torn)
  BY <1>2 DEF Waiting
<1> QED BY <1>2, <1>4, <1>5, <1>6 DEF IInv, Depth

(* Only the control changes hands. *)
LEMMA ControlTurns ==
  ASSUME IInv, UNCHANGED <<stack, registered>>, torn' \in {torn, torn + 1}, torn' <= MaxTears,
         control' \in {"program", "js", "ruby", "null"}, Waiting(stack, control', torn')
  PROVE  IInv'
<1>1. torn \in Nat /\ torn' \in 0..MaxTears
  BY CrossingAssumption DEF IInv, Counted
<1>2. Rooted(stack, registered, torn')
  BY <1>1, MoreTears DEF IInv
<1>3. Counted(Depth, torn', control')
  BY <1>1 DEF IInv, Counted
<1> QED BY <1>2, <1>3 DEF IInv, Depth
-----------------------------------------------------------------------------
(* The steps of Crossing keep the inductive invariant. *)
LEMMA HeldOf ==
  /\ \A d : Held(d) = {<<d, x>> : x \in NamesIn(stack[d].held)}
  /\ \A h \in Cleanups, x \in Names : NamesIn(Append(h, x)) = NamesIn(h) \cup {x}
<1>1. \A d : Held(d) = {<<d, x>> : x \in NamesIn(stack[d].held)}
  BY DEF Held, NamesIn
<1>2. ASSUME NEW h \in Cleanups, NEW x \in Names
      PROVE  NamesIn(Append(h, x)) = NamesIn(h) \cup {x}
  <2>1. x # Hole
    BY DEF Names, Hole
  <2>2. ToSet(Append(h, x)) = ToSet(h) \cup {x}
    BY DEF Cleanups, ToSet
  <2> QED BY <2>1, <2>2 DEF NamesIn
<1> QED BY <1>1, <1>2

(* JROOT and JCLEANUP. *)
LEMMA RegisterKeeps == IInv /\ control = "bridge" /\ Register => IInv'
<1> SUFFICES ASSUME IInv, control = "bridge", Register PROVE IInv'
  OBVIOUS
<1> DEFINE x == Op.of
           h == Append(Top.held, x)
           t == Tail(Top.todo)
<1>1. ~Idle /\ Op.do \in {"root", "cleanup"} /\ x \in Names
  BY TopIs DEF Register, OpIs, Op, Kept
<1>2. <<t, h>> \in After(Top.fn, <<Top.todo, Top.held>>)
  BY <1>1 DEF After, Op
<1>3. [Top EXCEPT !.todo = Tail(@), !.held = Append(@, Op.of)]
        = [fn |-> Top.fn, todo |-> t, held |-> h]
  BY <1>1, TopIs, FrameChanges, Zenon
<1>4. Become([fn |-> Top.fn, todo |-> t, held |-> h])
  BY <1>3 DEF Register
<1>5. NamesIn(h) = NamesIn(Top.held) \cup {x}
  BY <1>1, TopIs, HeldOf
<1> HIDE DEF t, h, x
<1>6. /\ WellFormed(stack') /\ Len(stack') = Depth /\ stack' # <<>> /\ Depth \in Nat \ {0}
      /\ \A d \in 1..Depth :
           stack'[d] = IF d = Depth THEN [fn |-> Top.fn, todo |-> t, held |-> h] ELSE stack[d]
  BY <1>1, <1>2, <1>4, Steps
<1>7. /\ registered' = registered \cup {<<Depth, x>>}
      /\ torn' = torn /\ control' = control
  BY DEF Register, x
<1>8. Depth <= MaxDepth /\ Counted(Len(stack'), torn', control')
  BY <1>6, <1>7 DEF IInv, Counted
<1>9. Rooted(stack', registered', torn')
  <2>1. Depth \in 1..MaxDepth
    BY <1>6, <1>8, CrossingAssumption
  <2>2. /\ \A d \in 1..Depth : d # Depth => NamesIn(stack'[d].held) = NamesIn(stack[d].held)
        /\ NamesIn(stack'[Depth].held) = NamesIn(stack[Depth].held) \cup {x}
    BY <1>5, <1>6 DEF Top
  <2>3. Rooted(stack, registered, torn) /\ Len(stack) = Depth
    BY DEF IInv, Depth
  <2> QED BY <1>1, <1>6, <1>7, <2>1, <2>2, <2>3 DEF Rooted
<1>10. Waiting(stack', control', torn')
  BY <1>6, <1>7 DEF Waiting
<1> QED BY <1>6, <1>8, <1>9, <1>10 DEF IInv, Depth

(* JUNROOT. *)
LEMMA UnregisterKeeps == IInv /\ control = "bridge" /\ Unregister => IInv'
<1> SUFFICES ASSUME IInv, control = "bridge", Unregister PROVE IInv'
  OBVIOUS
<1> DEFINE x == Op.of
           h == Without(Top.held, x)
           t == Tail(Top.todo)
<1>1. /\ ~Idle /\ Op.do = "unroot" /\ x \in Names
      /\ NamesIn(h) = NamesIn(Top.held) \ {x}
  BY TopIs DEF Unregister, OpIs, Op, Kept
<1>2. <<t, h>> \in After(Top.fn, <<Top.todo, Top.held>>)
  BY <1>1 DEF After, Op
<1>3. [Top EXCEPT !.todo = Tail(@), !.held = Without(@, Op.of)]
        = [fn |-> Top.fn, todo |-> t, held |-> h]
  BY <1>1, TopIs, FrameChanges, Zenon
<1>4. Become([fn |-> Top.fn, todo |-> t, held |-> h])
  BY <1>3 DEF Unregister
<1>5. Held(Depth) = {<<Depth, y>> : y \in NamesIn(Top.held)}
  BY HeldOf DEF Top
<1>6. /\ registered' = registered \ ({<<Depth, x>>} \cap Held(Depth))
      /\ torn' = torn /\ control' = control
  BY DEF Unregister
<1> HIDE DEF t, h, x
<1>7. /\ WellFormed(stack') /\ Len(stack') = Depth /\ stack' # <<>> /\ Depth \in Nat \ {0}
      /\ \A d \in 1..Depth :
           stack'[d] = IF d = Depth THEN [fn |-> Top.fn, todo |-> t, held |-> h] ELSE stack[d]
  BY <1>1, <1>2, <1>4, Steps
<1>8. Depth <= MaxDepth /\ Counted(Len(stack'), torn', control')
  BY <1>6, <1>7 DEF IInv, Counted
<1>9. Rooted(stack', registered', torn')
  <2>1. Depth \in 1..MaxDepth
    BY <1>7, <1>8, CrossingAssumption
  <2>2. /\ \A d \in 1..Depth : d # Depth => NamesIn(stack'[d].held) = NamesIn(stack[d].held)
        /\ NamesIn(stack'[Depth].held) = NamesIn(stack[Depth].held) \ {x}
    BY <1>1, <1>7 DEF Top
  <2>3. Rooted(stack, registered, torn) /\ Len(stack) = Depth
    BY DEF IInv, Depth
  <2>4. /\ registered' \subseteq registered
        /\ \A d \in 1..MaxDepth, y \in Names : <<d, y>> \in registered' <=>
             <<d, y>> \in registered /\ ~(d = Depth /\ y = x /\ x \in NamesIn(Top.held))
    BY <1>5, <1>6
  <2>5. NamesIn(Top.held) = NamesIn(stack[Depth].held) /\ NamesIn(Top.held) \subseteq Names
    BY <1>1, TopIs DEF Top
  <2>6. /\ \A d \in 1..Depth : d \in 1..MaxDepth
        /\ \A d \in 1..Depth : \A y \in NamesIn(stack[d].held) :
             <<d, y>> \in registered /\ y \in Names
    BY <1>8, <2>1, <2>3, CrossingAssumption DEF Rooted
  <2>7. \A d \in 1..Depth : \A y \in NamesIn(stack'[d].held) : <<d, y>> \in registered'
    BY <2>2, <2>4, <2>5, <2>6
  <2>8. torn = 0 => \A d \in 1..MaxDepth, y \in Names :
             <<d, y>> \in registered' => d \in 1..Depth /\ y \in NamesIn(stack'[d].held)
    BY <2>2, <2>3, <2>4, <2>5 DEF Rooted
  <2> QED BY <1>6, <1>7, <2>3, <2>4, <2>7, <2>8 DEF Rooted
<1>10. Waiting(stack', control', torn')
  BY <1>6, <1>7 DEF Waiting
<1> QED BY <1>7, <1>8, <1>9, <1>10 DEF IInv, Depth

(* REMOVE_JROOTS. *)
LEMMA RemoveKeeps == IInv /\ control = "bridge" /\ RemoveRoots => IInv'
<1> SUFFICES ASSUME IInv, control = "bridge", RemoveRoots PROVE IInv'
  OBVIOUS
<1> DEFINE t == Tail(Top.todo)
<1>1. ~Idle /\ Op.do = "remove"
  BY DEF RemoveRoots, OpIs
<1>2. <<t, <<>>>> \in After(Top.fn, <<Top.todo, Top.held>>)
  BY <1>1 DEF After, Op
<1>3. [Top EXCEPT !.todo = Tail(@), !.held = <<>>] = [fn |-> Top.fn, todo |-> t, held |-> <<>>]
  BY <1>1, TopIs, FrameChanges, Zenon
<1>4. Become([fn |-> Top.fn, todo |-> t, held |-> <<>>])
  BY <1>3 DEF RemoveRoots
<1>5. Held(Depth) = {<<Depth, y>> : y \in NamesIn(Top.held)}
  BY HeldOf DEF Top
<1>6. registered' = registered \ Held(Depth) /\ torn' = torn /\ control' = control
  BY DEF RemoveRoots
<1> HIDE DEF t
<1>7. /\ WellFormed(stack') /\ Len(stack') = Depth /\ stack' # <<>> /\ Depth \in Nat \ {0}
      /\ \A d \in 1..Depth :
           stack'[d] = IF d = Depth THEN [fn |-> Top.fn, todo |-> t, held |-> <<>>] ELSE stack[d]
  BY <1>1, <1>2, <1>4, Steps
<1>8. Depth <= MaxDepth /\ Counted(Len(stack'), torn', control')
  BY <1>6, <1>7 DEF IInv, Counted
<1>9. Rooted(stack', registered', torn')
  <2>1. Depth \in 1..MaxDepth
    BY <1>7, <1>8, CrossingAssumption
  <2>2. /\ \A d \in 1..Depth : d # Depth => NamesIn(stack'[d].held) = NamesIn(stack[d].held)
        /\ NamesIn(stack'[Depth].held) = {}
    BY <1>7, CleanupsAre
  <2>3. Rooted(stack, registered, torn) /\ Len(stack) = Depth
    BY DEF IInv, Depth
  <2>4. /\ registered' \subseteq registered
        /\ \A d \in 1..MaxDepth, y \in Names : <<d, y>> \in registered' <=>
             <<d, y>> \in registered /\ ~(d = Depth /\ y \in NamesIn(stack[Depth].held))
    BY <1>5, <1>6 DEF Top
  <2>5. /\ \A d \in 1..Depth : d \in 1..MaxDepth
        /\ \A d \in 1..Depth : \A y \in NamesIn(stack[d].held) :
             <<d, y>> \in registered /\ y \in Names
    BY <1>8, <2>1, <2>3, CrossingAssumption DEF Rooted
  <2>6. \A d \in 1..Depth : \A y \in NamesIn(stack'[d].held) : <<d, y>> \in registered'
    BY <2>2, <2>4, <2>5
  <2>7. torn = 0 => \A d \in 1..MaxDepth, y \in Names :
             <<d, y>> \in registered' => d \in 1..Depth /\ y \in NamesIn(stack'[d].held)
    BY <2>2, <2>3, <2>4 DEF Rooted
  <2> QED BY <1>6, <1>7, <2>3, <2>4, <2>6, <2>7 DEF Rooted
<1>10. Waiting(stack', control', torn')
  BY <1>6, <1>7 DEF Waiting
<1> QED BY <1>7, <1>8, <1>9, <1>10 DEF IInv, Depth

(* A function begins. *)
LEMMA PushKeeps ==
  ASSUME IInv, NEW f \in Functions, Depth < MaxDepth, Push(f),
         stack = <<>> => Body[f].kind = "ruby",
         stack # <<>> => Waits(stack[Len(stack)], Body[f].kind)
  PROVE  IInv'
<1>1. WellFormed(stack)
  BY DEF IInv
<1>2. /\ stack' = Append(stack, Frame(f)) /\ control' = "bridge"
      /\ registered' = registered /\ torn' = torn
  BY DEF Push
<1>3. /\ WellFormed(stack') /\ Len(stack') = Len(stack) + 1 /\ Len(stack) \in Nat
      /\ \A d \in 1..(Len(stack) + 1) :
           stack'[d] = IF d = Len(stack) + 1 THEN Frame(f) ELSE stack[d]
      /\ stack' # <<>> /\ NamesIn(Frame(f).held) = {}
  BY <1>1, <1>2, Calls
<1>4. Counted(Len(stack'), torn', control')
  BY <1>2, <1>3, CrossingAssumption DEF IInv, Counted, Depth
<1>5. Rooted(stack', registered', torn')
  <2>1. Rooted(stack, registered, torn)
    BY DEF IInv
  <2>2. \A d \in 1..Len(stack) : d \in 1..Len(stack') /\ stack'[d] = stack[d]
    BY <1>3
  <2>3. \A d \in 1..Len(stack') : \A x \in NamesIn(stack'[d].held) :
          d \in 1..Len(stack) /\ x \in NamesIn(stack[d].held)
    BY <1>3
  <2> QED BY <1>2, <2>1, <2>2, <2>3 DEF Rooted
<1>6. Waiting(stack', control', torn')
  BY <1>2, <1>3 DEF Waiting
<1> QED BY <1>3, <1>4, <1>5, <1>6 DEF IInv, Depth

LEMMA CallKeeps == IInv /\ CallFunction => IInv'
<1> SUFFICES ASSUME IInv, CallFunction PROVE IInv'
  OBVIOUS
<1>1. ~Idle /\ Op.do \in {"call", "protected", "direct"}
  BY DEF CallFunction, OpIs
<1>2. /\ Op.fn \in Functions
      /\ Op.do = "call" => Body[Op.fn].kind = "js"
      /\ Op.do \in {"protected", "direct"} => Body[Op.fn].kind = "ruby"
  BY <1>1, TopIs DEF Kept, CallsKind, Op
<1>3. stack # <<>> /\ Waits(stack[Len(stack)], Body[Op.fn].kind)
  BY <1>1, <1>2, TopIs DEF Waits, Op, Top, Depth
<1> QED BY <1>2, <1>3, PushKeeps DEF CallFunction

LEMMA ProgramCallsKeeps == IInv /\ ProgramCalls => IInv'
<1> SUFFICES ASSUME IInv, ProgramCalls PROVE IInv'
  OBVIOUS
<1>1. ASSUME RubyRuns, NEW f \in RubyEntries, Push(f) PROVE IInv'
  <2>1. stack # <<>> => Waits(stack[Len(stack)], "ruby")
    BY <1>1 DEF RubyRuns, OpIs, Idle, Waits, Op, Top, Depth
  <2>2. f \in Functions /\ Body[f].kind = "ruby"
    BY <1>1, EntryKinds
  <2> QED BY <1>1, <2>1, <2>2, PushKeeps DEF ProgramCalls
<1>2. ASSUME ScriptRuns, NEW f \in ScriptEntries, Push(f) PROVE IInv'
  <2>1. stack # <<>> /\ Waits(stack[Len(stack)], "js")
    BY <1>2 DEF ScriptRuns, OpIs, Idle, Waits, Op, Top, Depth
  <2>2. f \in Functions /\ Body[f].kind = "js"
    BY <1>2, EntryKinds
  <2> QED BY <1>2, <2>1, <2>2, PushKeeps DEF ProgramCalls
<1> QED BY <1>1, <1>2 DEF ProgramCalls
-----------------------------------------------------------------------------
(* A function ends: what it held is removed, or it held nothing. *)
LEMMA RootedFront ==
  ASSUME NEW s, WellFormed(s), s # <<>>, Len(s) <= MaxDepth, NEW reg, NEW reg2, NEW tears,
         Rooted(s, reg, tears), reg2 \subseteq reg,
         \A d \in 1..(Len(s) - 1), x \in Names : <<d, x>> \in reg => <<d, x>> \in reg2,
         tears = 0 => \A x \in Names : <<Len(s), x>> \notin reg2
  PROVE  Rooted(Front(s), reg2, tears)
<1> DEFINE n == Len(s)
           r == Front(s)
<1>1. /\ Len(r) = n - 1 /\ n \in Nat \ {0}
      /\ \A d \in 1..(n - 1) : r[d] = s[d]
  BY Ends
<1>2. n <= MaxDepth /\ MaxDepth \in Nat
  BY CrossingAssumption
<1> HIDE DEF r, n
<1>3. \A d \in 1..(n - 1) : d \in 1..n /\ d \in 1..MaxDepth
  BY <1>1, <1>2
<1>4. \A d \in 1..(n - 1) : \A x \in NamesIn(r[d].held) : <<d, x>> \in reg2
  <2>1. \A d \in 1..(n - 1) : \A x \in NamesIn(s[d].held) : <<d, x>> \in reg
    BY <1>3 DEF Rooted, n
  <2>2. \A d \in 1..(n - 1) : \A x \in NamesIn(s[d].held) : x \in Names
    BY <2>1, <1>3 DEF Rooted
  <2> QED BY <1>1, <2>1, <2>2 DEF n
<1>5. tears = 0 => \A d \in 1..MaxDepth, x \in Names :
        <<d, x>> \in reg2 => d \in 1..(n - 1) /\ x \in NamesIn(r[d].held)
  <2> SUFFICES ASSUME tears = 0, NEW d \in 1..MaxDepth, NEW x \in Names, <<d, x>> \in reg2
               PROVE  d \in 1..(n - 1) /\ x \in NamesIn(r[d].held)
    OBVIOUS
  <2>1. d \in 1..n /\ x \in NamesIn(s[d].held)
    BY DEF Rooted, n
  <2>2. d # n
    BY DEF n
  <2>3. d \in 1..(n - 1)
    BY <1>1, <2>1, <2>2
  <2> QED BY <1>1, <2>1, <2>3
<1> QED BY <1>1, <1>4, <1>5 DEF Rooted, r

(* A function fails: it holds nothing, or an unprotected call has raised. *)
LEMMA FailKeeps ==
  ASSUME IInv, ~Idle, NEW how \in {"js", "ruby"}, PopAndFail(how),
         how = "js" => KindOf(Top) = "js",
         how = "ruby" /\ torn' = 0 => KindOf(Top) = "ruby",
         torn' \in {torn, torn + 1}, torn' <= MaxTears, UNCHANGED registered,
         torn' = 0 => NamesIn(Top.held) = {}
  PROVE  IInv'
<1>1. WellFormed(stack) /\ stack # <<>> /\ Depth \in Nat \ {0} /\ Depth <= MaxDepth
  BY TopIs DEF IInv, Counted
<1>2. stack' = Front(stack) /\ control' = how
  BY DEF PopAndFail
<1>3. /\ WellFormed(stack') /\ Len(stack') = Depth - 1
      /\ \A d \in 1..(Depth - 1) : stack'[d] = stack[d]
      /\ stack' = <<>> => KindOf(Top) = "ruby"
      /\ stack' # <<>> => Waits(stack[Depth - 1], KindOf(Top))
      /\ stack' = <<>> <=> Depth = 1
  BY <1>1, <1>2, Ends DEF Depth, Top
<1>4. torn \in Nat /\ torn' \in 0..MaxTears
  BY CrossingAssumption DEF IInv, Counted
<1>5. Counted(Len(stack'), torn', control')
  BY <1>1, <1>2, <1>3, <1>4, CrossingAssumption DEF Counted
<1>6. Rooted(stack, registered, torn')
  BY <1>4, MoreTears DEF IInv
<1>7. torn' = 0 => \A x \in Names : <<Len(stack), x>> \notin registered
  BY <1>1, <1>6, CrossingAssumption DEF Rooted, Top, Depth
<1>8. Rooted(Front(stack), registered, torn')
  BY <1>1, <1>6, <1>7, RootedFront DEF Depth
<1>9. Waiting(stack', control', torn')
  <2>1. stack' # <<>> => stack'[Len(stack')] = stack[Depth - 1]
    BY <1>1, <1>3
  <2>2. how = "js" => stack' # <<>> /\ Waits(stack'[Len(stack')], "js")
    BY <1>3, <2>1
  <2>3. how = "ruby" /\ torn' = 0 /\ stack' # <<>> => Waits(stack'[Len(stack')], "ruby")
    BY <1>3, <2>1
  <2> QED BY <1>2, <2>2, <2>3 DEF Waiting
<1> QED BY <1>2, <1>3, <1>5, <1>8, <1>9 DEF IInv, Depth

LEMMA FailingKeeps == IInv /\ Failing => IInv'
<1> SUFFICES ASSUME IInv, Failing PROVE IInv'
  OBVIOUS
<1>1. ~Idle /\ Op.do \in {"fail", "raise"}
  BY DEF Failing, OpIs
<1>2. /\ NamesIn(Top.held) = {}
      /\ Op.do = "fail" => KindOf(Top) = "js"
      /\ Op.do = "raise" => KindOf(Top) = "ruby"
  BY <1>1, TopIs DEF Kept, Op, KindOf
<1>3. /\ PopAndFail(IF Op.do = "fail" THEN "js" ELSE "ruby")
      /\ registered' = registered /\ torn' = torn /\ torn <= MaxTears
  BY CrossingAssumption DEF Failing, IInv, Counted
<1>4. CASE Op.do = "fail"
  BY <1>1, <1>2, <1>3, <1>4, FailKeeps
<1>5. CASE Op.do = "raise"
  BY <1>1, <1>2, <1>3, <1>5, FailKeeps
<1> QED BY <1>1, <1>4, <1>5

(* A function returns: what it holds is removed. *)
LEMMA LeavingKeeps == IInv /\ Leaving => IInv'
<1> SUFFICES ASSUME IInv, Leaving PROVE IInv'
  OBVIOUS
<1>1. ~Idle /\ Op.do \in {"leave", "return"} /\ PopAndReturn /\ torn' = torn
  BY DEF Leaving, OpIs
<1>2. Op.do = "return" => NamesIn(Top.held) = {}
  BY <1>1, TopIs DEF Kept, Op
<1>3. Held(Depth) = {<<Depth, x>> : x \in NamesIn(Top.held)}
  BY HeldOf DEF Top
<1>4. /\ WellFormed(stack) /\ stack # <<>> /\ Depth \in Nat \ {0} /\ Depth <= MaxDepth
      /\ MaxDepth \in Nat /\ Rooted(stack, registered, torn)
  BY <1>1, TopIs, CrossingAssumption DEF IInv, Counted
<1>5. Rooted(Front(stack), registered', torn)
  <2>1. registered' = IF Op.do = "leave" THEN registered \ Held(Depth) ELSE registered
    BY DEF Leaving
  <2>2. /\ registered' \subseteq registered
        /\ \A d \in 1..(Len(stack) - 1), x \in Names :
             <<d, x>> \in registered => <<d, x>> \in registered'
    BY <1>3, <1>4, <2>1 DEF Depth
  <2>3. ASSUME torn = 0, NEW x \in Names PROVE <<Len(stack), x>> \notin registered'
    <3>1. <<Depth, x>> \in registered => x \in NamesIn(Top.held)
      BY <1>4, <2>3 DEF Rooted, Top, Depth
    <3> QED BY <1>1, <1>2, <1>3, <2>1, <3>1 DEF Depth
  <2> QED BY <1>4, <2>2, <2>3, RootedFront DEF Depth
<1> DEFINE s == Front(stack)
<1>6. /\ WellFormed(s) /\ Len(s) = Depth - 1
      /\ s # <<>> => Waits(s[Len(s)], KindOf(Top))
  <2>1. /\ WellFormed(s) /\ Len(s) = Depth - 1
        /\ \A d \in 1..(Depth - 1) : s[d] = stack[d]
        /\ s # <<>> => Waits(stack[Depth - 1], KindOf(Top))
        /\ s = <<>> <=> Depth = 1
    BY <1>4, Ends DEF Depth, Top
  <2>2. s # <<>> => Depth - 1 \in 1..(Depth - 1)
    BY <1>4, <2>1
  <2> HIDE DEF s
  <2> QED BY <2>1, <2>2
<1> HIDE DEF s
<1>7. Rooted(s, registered', torn') /\ Counted(Len(s), torn', "bridge") /\ Counted(Len(s), torn', "program")
  BY <1>1, <1>4, <1>5, <1>6 DEF IInv, Counted, s
<1>8. s # <<>> => Last(s) = s[Len(s)]
  BY <1>6, LastIs DEF WellFormed
<1>9. CASE s # <<>> /\ Head(Last(s).todo).do \in {"call", "protected", "direct"}
  <2> DEFINE fr == s[Len(s)]
             new == [fn |-> fr.fn, todo |-> Tail(fr.todo), held |-> fr.held]
  <2>1. stack' = [s EXCEPT ![Len(s)].todo = Tail(@)] /\ control' = "bridge"
    BY <1>1, <1>9 DEF PopAndReturn, s
  <2>2. stack' = [s EXCEPT ![Len(s)] = new]
    BY <1>6, <1>9, <2>1, LastChanges, Zenon
  <2>3. IsFrame(fr)
    BY <1>4, <1>6, <1>9 DEF WellFormed
  <2>4. <<Tail(fr.todo), fr.held>> \in After(fr.fn, <<fr.todo, fr.held>>)
    BY <1>8, <1>9 DEF After
  <2>5. IsFrame(new) /\ new.fn = s[Len(s)].fn /\ new.held = s[Len(s)].held
    BY <2>3, <2>4, FrameRules
  <2> HIDE DEF new, fr
  <2>6. /\ WellFormed(stack') /\ Len(stack') = Len(s) /\ stack' # <<>>
        /\ \A d \in 1..Len(s) : stack'[d] = IF d = Len(s) THEN new ELSE s[d]
    <3>1. WellFormed(s) /\ s # <<>> /\ IsFrame(new) /\ new.fn = s[Len(s)].fn
      BY <1>6, <1>9, <2>5
    <3>2. /\ WellFormed([s EXCEPT ![Len(s)] = new]) /\ Len([s EXCEPT ![Len(s)] = new]) = Len(s)
          /\ [s EXCEPT ![Len(s)] = new] # <<>>
          /\ \A d \in 1..Len(s) :
               [s EXCEPT ![Len(s)] = new][d] = IF d = Len(s) THEN new ELSE s[d]
      BY ONLY <3>1, GoesOn
    <3> QED BY <2>2, <3>2
  <2>7. \A d \in 1..Len(s) : NamesIn(stack'[d].held) = NamesIn(s[d].held)
    BY <2>5, <2>6
  <2>8. Rooted(stack', registered', torn')
    BY <1>7, <2>6, <2>7, RootedSame
  <2>9. Waiting(stack', control', torn')
    BY <2>1, <2>6 DEF Waiting
  <2> QED BY <1>7, <2>1, <2>6, <2>8, <2>9 DEF IInv, Depth
<1>10. CASE ~(s # <<>> /\ Head(Last(s).todo).do \in {"call", "protected", "direct"})
  <2>1. /\ stack' = s /\ control' \in {"bridge", "program"}
        /\ control' = "bridge" <=> s # <<>> /\ Head(Last(s).todo).do = "engine"
    BY <1>1, <1>10 DEF PopAndReturn, s
  <2>2. Waiting(stack', control', torn')
    BY <1>6, <1>8, <1>10, <2>1 DEF Waiting, Waits
  <2> QED BY <1>6, <1>7, <2>1, <2>2 DEF IInv, Depth
<1> QED BY <1>9, <1>10

(* Steps inside the innermost function. *)
LEMMA OwnStepsKeep == IInv /\ control = "bridge" /\ (Choose \/ Repeat \/ Succeed \/ NotDone) => IInv'
<1> SUFFICES ASSUME IInv, control = "bridge", Choose \/ Repeat \/ Succeed \/ NotDone PROVE IInv'
  OBVIOUS
<1>1. ~Idle /\ UNCHANGED <<registered, torn, control>>
  BY DEF Choose, Repeat, Succeed, NotDone, OpIs
<1>2. CASE Choose
  <2>1. PICK branch \in Op.of : Continue(branch \o Tail(Top.todo))
    BY <1>2 DEF Choose
  <2>2. <<branch \o Tail(Top.todo), Top.held>> \in After(Top.fn, <<Top.todo, Top.held>>)
    BY <1>2 DEF Choose, OpIs, After, Op
  <2> QED BY <1>1, <2>1, <2>2, StepsQuietly
<1>3. CASE Repeat
  <2>1. Continue(Op.of \o Top.todo)
    BY <1>3 DEF Repeat
  <2>2. <<Op.of \o Top.todo, Top.held>> \in After(Top.fn, <<Top.todo, Top.held>>)
    BY <1>3 DEF Repeat, OpIs, After, Op
  <2> QED BY <1>1, <2>1, <2>2, StepsQuietly
<1>4. CASE Succeed
  <2>1. Continue(Tail(Top.todo))
    BY <1>4 DEF Succeed, Advance
  <2>2. <<Tail(Top.todo), Top.held>> \in After(Top.fn, <<Top.todo, Top.held>>)
    BY <1>4 DEF Succeed, OpIs, After, Op
  <2> QED BY <1>1, <2>1, <2>2, StepsQuietly
<1>5. CASE NotDone
  <2>1. Continue(FalseTodo(Top.fn, Top.todo))
    BY <1>5 DEF NotDone, WhenFalse, FalseTodo, Op
  <2>2. <<FalseTodo(Top.fn, Top.todo), Top.held>> \in After(Top.fn, <<Top.todo, Top.held>>)
    BY <1>5 DEF NotDone, OpIs, After, Op
  <2> QED BY <1>1, <2>1, <2>2, StepsQuietly
<1> QED BY <1>2, <1>3, <1>4, <1>5

LEMMA LastIsTop == stack[Len(stack)] = Top
BY DEF Top, Depth

(* Ruby code or script begins, or an exception leaves a call. *)
LEMMA TurnsKeep == IInv /\ control = "bridge" /\ (Jump \/ Handover \/ UseNull) => IInv'
<1> SUFFICES ASSUME IInv, control = "bridge", Jump \/ Handover \/ UseNull PROVE IInv'
  OBVIOUS
<1>1. torn \in Nat /\ MaxTears \in Nat /\ torn <= MaxTears
  BY CrossingAssumption DEF IInv, Counted
<1>2. CASE Jump
  <2>1. /\ UNCHANGED <<stack, registered>> /\ control' = "ruby"
        /\ \/ torn' = torn + 1 /\ torn < MaxTears
           \/ torn' = torn /\ ~Idle /\ Op.do \in {"protected", "direct"}
    <3>1. UNCHANGED <<stack, registered>> /\ control' = "ruby"
      BY <1>2 DEF Jump
    <3>2. Tear \/ (~Idle /\ Op.do \in {"protected", "direct"} /\ torn' = torn)
      BY <1>2, Zenon DEF Jump, OpIs
    <3> QED BY <3>1, <3>2 DEF Tear
  <2>2. Waiting(stack, control', torn')
    BY <1>1, <2>1, LastIsTop DEF Waiting, Waits, OpIs, Op
  <2> QED BY <1>1, <2>1, <2>2, ControlTurns
<1>3. CASE Handover
  <2>1. /\ UNCHANGED <<stack, registered>> /\ control' = "program" /\ torn' = torn
        /\ OpIs({"ruby", "bare", "script"})
    BY <1>3 DEF Handover
  <2>2. Waiting(stack, control', torn')
    BY <2>1, LastIsTop DEF Waiting, OpIs, Op
  <2> QED BY <1>1, <2>1, <2>2, ControlTurns
<1>4. CASE UseNull
  <2>1. /\ UNCHANGED <<stack, registered>> /\ control' = "null" /\ torn' = torn /\ ~Idle
    BY <1>4 DEF UseNull, OpIs
  <2>2. Waiting(stack, control', torn')
    BY <2>1 DEF Waiting, Idle
  <2> QED BY <1>1, <2>1, <2>2, ControlTurns
<1> QED BY <1>2, <1>3, <1>4

(* The engine collects. *)
LEMMA CollectKeeps == IInv /\ Collect => IInv'
<1> SUFFICES ASSUME IInv, Collect PROVE IInv'
  OBVIOUS
<1>1. ~Idle /\ Op.do = "engine" /\ Depth < MaxDepth
  BY DEF Collect, OpIs
<1>2. PICK f \in ScriptEntries : Push(f)
  BY DEF Collect
<1>3. f \in Functions /\ Body[f].kind = "js"
  BY EntryKinds
<1>4. stack # <<>> /\ Waits(stack[Len(stack)], Body[f].kind)
  BY <1>1, <1>3, LastIsTop DEF Waits, Op, Idle
<1> QED BY <1>1, <1>2, <1>3, <1>4, PushKeeps

(* Every step of the C code. *)
LEMMA BridgeKeeps == IInv /\ Bridge => IInv'
BY RegisterKeeps, UnregisterKeeps, RemoveKeeps, CallKeeps, LeavingKeeps, FailingKeeps,
   OwnStepsKeep, TurnsKeep, CollectKeeps DEF Bridge

LEMMA ProgramReturnsKeeps == IInv /\ ProgramReturns => IInv'
<1> SUFFICES ASSUME IInv, ProgramReturns PROVE IInv'
  OBVIOUS
<1>1. ~Idle /\ control = "program" /\ UNCHANGED <<registered, torn>> /\ control' = "bridge"
  BY DEF ProgramReturns
<1>2. Op.do \in {"ruby", "bare", "script"}
  BY <1>1, LastIsTop DEF IInv, Waiting, Idle, Op
<1>3. <<Tail(Top.todo), Top.held>> \in After(Top.fn, <<Top.todo, Top.held>>)
  BY <1>2 DEF After, Op
<1>4. Continue(Tail(Top.todo))
  BY DEF ProgramReturns, Advance
<1> QED BY <1>1, <1>3, <1>4, StepsQuietly

LEMMA ProgramFailsKeeps == IInv /\ ProgramFails => IInv'
<1> SUFFICES ASSUME IInv, ProgramFails PROVE IInv'
  OBVIOUS
<1>1. torn \in Nat /\ MaxTears \in Nat /\ torn <= MaxTears
  BY CrossingAssumption DEF IInv, Counted
<1>2. /\ UNCHANGED <<stack, registered>>
      /\ \/ ScriptRuns /\ control' = "js" /\ torn' = torn
         \/ OpIs({"ruby"}) /\ control' = "ruby" /\ torn' = torn
         \/ OpIs({"bare"}) /\ control' = "ruby" /\ torn' = torn + 1 /\ torn < MaxTears
  BY DEF ProgramFails, Tear
<1>3. Waiting(stack, control', torn')
  BY <1>1, <1>2, LastIsTop DEF Waiting, Waits, ScriptRuns, OpIs, Op, Idle
<1> QED BY <1>1, <1>2, <1>3, ControlTurns

LEMMA HandleKeeps == IInv /\ Handle => IInv'
<1> SUFFICES ASSUME IInv, Handle PROVE IInv'
  OBVIOUS
<1>1. torn \in Nat /\ MaxTears \in Nat /\ torn <= MaxTears
  BY CrossingAssumption DEF IInv, Counted
<1>2. UNCHANGED <<stack, registered, torn>> /\ control' = "program" /\ (ScriptRuns \/ RubyRuns)
  BY DEF Handle
<1>3. Waiting(stack, control', torn')
  BY <1>2, LastIsTop DEF Waiting, ScriptRuns, RubyRuns, OpIs, Op, Idle
<1> QED BY <1>1, <1>2, <1>3, ControlTurns

LEMMA ArriveKeeps == IInv /\ Arrive => IInv'
<1> SUFFICES ASSUME IInv, Arrive PROVE IInv'
  OBVIOUS
<1>1. ~Idle /\ Op.do \in {"engine", "script", "call"} /\ UNCHANGED <<registered, torn>> /\ control' = "bridge"
  BY DEF Arrive, OpIs
<1>2. <<FalseTodo(Top.fn, Top.todo), Top.held>> \in After(Top.fn, <<Top.todo, Top.held>>)
  BY <1>1 DEF After, Op
<1>3. Continue(FalseTodo(Top.fn, Top.todo))
  BY DEF Arrive, WhenFalse, FalseTodo, Op
<1> QED BY <1>1, <1>2, <1>3, StepsQuietly

LEMMA StopKeeps == IInv /\ Stop => IInv'
<1> SUFFICES ASSUME IInv, Stop PROVE IInv'
  OBVIOUS
<1>1. ~Idle /\ Op.do \in {"ruby", "protected"} /\ UNCHANGED <<registered, torn>> /\ control' = "bridge"
  BY DEF Stop, OpIs
<1>2. <<RaisedTodo(Top.fn), Top.held>> \in After(Top.fn, <<Top.todo, Top.held>>)
  BY <1>1 DEF After, Op
<1>3. Continue(RaisedTodo(Top.fn))
  BY DEF Stop, WhenRaised, RaisedTodo
<1> QED BY <1>1, <1>2, <1>3, StepsQuietly

(* A longjmp passes a function: it holds nothing, unless an unprotected call has raised. *)
LEMMA AbandonKeeps == IInv /\ Abandon => IInv'
<1> SUFFICES ASSUME IInv, Abandon PROVE IInv'
  OBVIOUS
<1>1. /\ ~Idle /\ Op.do \notin {"ruby", "protected"} /\ control = "ruby"
      /\ PopAndFail("ruby") /\ UNCHANGED registered
      /\ IF Op.do = "bare" THEN torn' = torn + 1 /\ torn < MaxTears ELSE torn' = torn
  BY DEF Abandon, OpIs, Tear
<1>2. torn \in Nat /\ MaxTears \in Nat /\ torn <= MaxTears
  BY CrossingAssumption DEF IInv, Counted
<1>3. torn' = 0 => Op.do = "direct"
  <2>1. torn = 0 => Waits(Top, "ruby")
    BY <1>1, LastIsTop DEF IInv, Waiting, Idle
  <2> QED BY <1>1, <1>2, <2>1 DEF Waits, Op
<1>4. torn' = 0 => NamesIn(Top.held) = {} /\ KindOf(Top) = "ruby"
  BY <1>1, <1>3, TopIs DEF Kept, Op, KindOf
<1> QED BY <1>1, <1>2, <1>4, FailKeeps

(* The inductive invariant. *)
LEMMA InvariantHolds == Spec => []IInv
<1>1. Init => IInv
  <2> SUFFICES ASSUME Init PROVE IInv
    OBVIOUS
  <2>1. stack = <<>> /\ registered = {} /\ torn = 0 /\ control = "program" /\ Len(<<>>) = 0
    BY DEF Init
  <2>2. WellFormed(<<>>)
    BY TupleIsSeq DEF WellFormed
  <2>3. Counted(0, 0, "program") /\ Rooted(<<>>, {}, 0) /\ Waiting(<<>>, "program", 0)
    BY CrossingAssumption DEF Counted, Rooted, Waiting
  <2> QED BY <2>1, <2>2, <2>3 DEF IInv, Depth
<1>2. IInv /\ [Next]_vars => IInv'
  <2>1. ASSUME IInv, UNCHANGED vars PROVE IInv'
    BY <2>1 DEF IInv, vars, Depth
  <2>2. Ended => UNCHANGED vars
    BY DEF Ended
  <2> QED BY <2>1, <2>2, BridgeKeeps, ProgramCallsKeeps, ProgramReturnsKeeps, ProgramFailsKeeps,
             HandleKeeps, ArriveKeeps, StopKeeps, AbandonKeeps DEF Next, Unwind
<1> QED BY <1>1, <1>2, PTL DEF Spec
-----------------------------------------------------------------------------
LEMMA FramesHeld ==
  ASSUME IInv, NEW d \in 1..Depth
  PROVE  IsFrame(stack[d]) /\ stack[d].held \in Cleanups /\ stack[d].todo # <<>>
         /\ Len(stack[d].held) <= Body[stack[d].fn].room /\ stack[d].fn \in Functions
BY FrameRules DEF IInv, WellFormed, Depth, IsFrame

(* The stack never grows beyond its bound, every active function is one of *)
(* BridgeFunctions with a step still to do, its list holds cleanups of its *)
(* own, and the roots of the runtime belong to functions on the stack.     *)
THEOREM CrossingTypeCorrect == Spec => []TypeOK
<1>1. IInv => TypeOK
  <2> SUFFICES ASSUME IInv PROVE TypeOK
    OBVIOUS
  <2>1. \A d \in 1..Depth : /\ stack[d].fn \in Functions
                            /\ stack[d].held \in Seq(Names \cup {Hole})
                            /\ stack[d].todo # <<>>
    BY FramesHeld DEF Cleanups
  <2> QED BY <2>1 DEF IInv, Counted, Rooted, TypeOK
<1> QED BY <1>1, InvariantHolds, PTL

(* The assertion of JCLEANUP (jroot.h) never fails: on no path, however    *)
(* often its loops run and whichever of its calls fail, does a function    *)
(* hold more cleanups than the number it gave to PREPARE_JROOTS.           *)
THEOREM CleanupsFit == Spec => []CapacityHolds
<1>1. IInv => CapacityHolds
  BY FramesHeld DEF CapacityHolds
<1> QED BY <1>1, InvariantHolds, PTL

(* What an active function holds stays registered until that function      *)
(* removes it, even after an exception has passed frames that rb_protect   *)
(* does not guard: nobody else's REMOVE_JROOTS or JUNROOT takes it away.   *)
THEOREM NothingHeldIsLost == Spec => []HeldIsRegistered
<1>1. IInv => HeldIsRegistered
  BY HeldOf DEF IInv, Rooted, HeldIsRegistered, Depth
<1> QED BY <1>1, InvariantHolds, PTL

(* As long as no unprotected call has raised, the roots of the runtime are *)
(* exactly those the active functions still hold: every way out of every   *)
(* function, by value, false value or longjmp, gives back what it took.    *)
THEOREM RootsAreBalanced == Spec => []RootsBalanced
<1>1. IInv => RootsBalanced
  <2> SUFFICES ASSUME IInv, torn = 0 PROVE registered = UNION {Held(d) : d \in 1..Depth}
    BY DEF RootsBalanced
  <2>1. /\ registered \subseteq (1..MaxDepth) \X Names
        /\ \A d \in 1..Depth : \A x \in NamesIn(stack[d].held) : <<d, x>> \in registered
        /\ \A d \in 1..MaxDepth, x \in Names :
             <<d, x>> \in registered => d \in 1..Depth /\ x \in NamesIn(stack[d].held)
    BY DEF IInv, Rooted, Depth
  <2>2. \A d \in 1..Depth : Held(d) \subseteq registered
    BY <2>1, HeldOf
  <2>3. \A r \in registered : \E d \in 1..Depth : r \in Held(d)
    <3> TAKE r \in registered
    <3>1. PICK d \in 1..MaxDepth, x \in Names : r = <<d, x>>
      BY <2>1
    <3>2. d \in 1..Depth /\ x \in NamesIn(stack[d].held)
      BY <2>1, <3>1
    <3>3. r \in Held(d)
      BY <3>1, <3>2, HeldOf
    <3> QED BY <3>2, <3>3
  <2> QED BY <2>2, <2>3
<1> QED BY <1>1, InvariantHolds, PTL

(* A false value always arrives at C code that tests it: it never reaches  *)
(* Ruby, which would take it for an object.                                *)
THEOREM FailuresAreTested == Spec => []FailureIsTested
<1>1. IInv => FailureIsTested
  BY LastIsTop DEF IInv, Waiting, Waits, FailureIsTested, OpIs, Op, Idle
<1> QED BY <1>1, InvariantHolds, PTL

(* A longjmp of Ruby never crosses a frame of the JavaScript engine, as    *)
(* long as no call outside rb_protect has raised.                          *)
THEOREM ScriptIsNotJumpedOver == Spec => []NoJumpOverScript
<1>1. IInv => NoJumpOverScript
  BY LastIsTop DEF IInv, Waiting, Waits, NoJumpOverScript, OpIs, Op, Idle
<1> QED BY <1>1, InvariantHolds, PTL
=============================================================================
