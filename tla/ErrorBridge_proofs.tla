------------------------- MODULE ErrorBridge_proofs -------------------------
(***************************************************************************)
(* Errors between Ruby and script, for any set of errors and any depth of  *)
(* nested calls: what stays pending where Ruby runs, and that the bridge   *)
(* delivers errors as ErrorDelivery specifies.                             *)
(***************************************************************************)
EXTENDS ErrorBridge, TLAPS

ALink == [at : Links, error : Described \cup {None}]

(* A link carries an error exactly when it describes one. *)
Carries(link) == link.error # None <=> link.at \in Carriers

Inv == TypeOK /\ PendingIsInFlight

LEMMA ConstantsDiffer ==
    /\ None \notin Described /\ Null \notin Described /\ Null # None
    /\ Empty \in Described /\ Unconverted \in Described /\ Longjmp \in Described
    /\ Errors \subseteq Described /\ Values \subseteq Described \cup {Null}
BY ErrorBridgeAssumption DEF None, Described, Values, Null, Empty, Longjmp, Unconverted
-----------------------------------------------------------------------------
(* The chain of calls. *)
LEMMA LastLink ==
  ASSUME TypeOK, chain # <<>>
  PROVE  /\ Len(chain) \in Nat \ {0} /\ Last(chain) = chain[Len(chain)]
         /\ Last(chain) \in ALink /\ Carries(Last(chain))
<1>1. Len(chain) \in Nat \ {0} /\ Last(chain) = chain[Len(chain)]
  BY DEF TypeOK, Last
<1>2. Len(chain) \in DOMAIN chain /\ DOMAIN chain = 1..Len(chain)
  BY <1>1 DEF TypeOK
<1>3. chain[Len(chain)] \in ALink
  <2>1. chain \in Seq(ALink)
    BY DEF TypeOK, ALink
  <2> QED BY <1>2, <2>1
<1>4. Carries(chain[Len(chain)])
  BY <1>2 DEF TypeOK, Carries
<1> QED BY <1>1, <1>3, <1>4

LEMMA PushKeepsType ==
  ASSUME TypeOK, NEW at \in Links \ Carriers, chain' = Append(chain, Link(at, None))
  PROVE  chain' \in Seq(ALink) /\ \A i \in DOMAIN chain' : Carries(chain'[i])
<1>1. Link(at, None) \in ALink /\ Carries(Link(at, None))
  BY DEF Link, ALink, Carries
<1> QED BY <1>1 DEF TypeOK, ALink, Carries

LEMMA PopKeepsType ==
  ASSUME TypeOK, chain # <<>>, Pop
  PROVE  chain' \in Seq(ALink) /\ \A i \in DOMAIN chain' : Carries(chain'[i])
<1>1. chain \in Seq(ALink) /\ \A i \in DOMAIN chain : Carries(chain[i])
  BY DEF TypeOK, ALink, Carries
<1>2. chain' = [i \in 1..(Len(chain) - 1) |-> chain[i]] /\ Len(chain) \in Nat \ {0}
  BY <1>1 DEF Pop, Front
<1>3. chain' \in Seq(ALink)
  BY <1>1, <1>2
<1>4. \A i \in DOMAIN chain' : i \in DOMAIN chain /\ chain'[i] = chain[i]
  BY <1>1, <1>2
<1> QED BY <1>1, <1>3, <1>4

LEMMA BecomeKeepsType ==
  ASSUME TypeOK, chain # <<>>, NEW at \in Links, NEW e \in Described \cup {None},
         e # None <=> at \in Carriers, Become(at, e)
  PROVE  chain' \in Seq(ALink) /\ \A i \in DOMAIN chain' : Carries(chain'[i])
<1>1. Link(at, e) \in ALink /\ Carries(Link(at, e))
  BY DEF Link, ALink, Carries
<1> QED BY <1>1, LastLink DEF TypeOK, ALink, Carries, Become
(* What flies in Ruby is an error; script may throw null besides. *)
LEMMA FlyingTypes ==
  ASSUME TypeOK
  PROVE  /\ flying = Quiet \/ flying.in \in {"ruby", "js"}
         /\ flying.in = "ruby" => flying.error \in Described
         /\ flying.in = "js" => flying.error \in Described \cup {Null}
BY DEF TypeOK, Quiet, None
-----------------------------------------------------------------------------
LEMMA InitInv == Init => Inv
BY ConstantsDiffer DEF Init, Inv, TypeOK, PendingIsInFlight, Quiet

(* What a failing call of the engine does to the fields it touches. *)
LEMMA ThrowTypes ==
  ASSUME TypeOK, NEW e \in Described \cup {Null}, Throw(e)
  PROVE  {pending', ex', left'} \subseteq Described \cup {Null, None} /\ msg' \in Described
BY DEF TypeOK, Throw

LEMMA ReporterTypes ==
  ASSUME TypeOK, NEW e \in Described, report_js_error(e) \/ RunOutOfMemory(e)
  PROVE  {pending', ex', left'} \subseteq Described \cup {Null, None} /\ msg' \in Described
BY DEF TypeOK, report_js_error, RunOutOfMemory

LEMMA TakePendingTypes ==
  ASSUME TypeOK, TakePending
  PROVE  /\ {pending', ex', left'} \subseteq Described \cup {Null, None} /\ pending' = None
         /\ Stored' => ex' \in Described
BY DEF TypeOK, TakePending, Stored

(* Calls begin and end with nothing in flight. *)
LEMMA CallsStep ==
  ASSUME Inv, (\E entry \in Entries : Enter(entry)) \/ Continue \/ Finish
  PROVE  Inv'
<1>1. ASSUME NEW entry \in Entries, Enter(entry) PROVE Inv'
  <2>1. chain' \in Seq(ALink) /\ \A i \in DOMAIN chain' : Carries(chain'[i])
    BY <1>1, PushKeepsType DEF Enter, Push, Links, Entries, Carriers, Inv
  <2>2. TypeOK'
    BY <1>1, <2>1, ConstantsDiffer DEF Inv, Enter, TypeOK, ALink, Carries
  <2>3. PendingIsInFlight'
    BY <1>1 DEF Inv, Enter, PendingIsInFlight
  <2> QED BY <2>2, <2>3 DEF Inv
<1>2. CASE Continue
  <2>1. chain' \in Seq(ALink) /\ \A i \in DOMAIN chain' : Carries(chain'[i])
    <3>1. ASSUME NEW at \in Links, <<Last(chain).at, at>> \in Runs, Push(at)
          PROVE  chain' \in Seq(ALink) /\ \A i \in DOMAIN chain' : Carries(chain'[i])
      <4>1. at \in Links \ Carriers
        BY <3>1 DEF Runs, Carriers
      <4> QED BY <3>1, <4>1, PushKeepsType DEF Push, Inv
    <3>2. ASSUME Innermost({"prepare"}), Become("evaluate", None)
          PROVE  chain' \in Seq(ALink) /\ \A i \in DOMAIN chain' : Carries(chain'[i])
      BY <3>2, BecomeKeepsType DEF Innermost, Links, Carriers, Inv
    <3> QED BY <1>2, <3>1, <3>2 DEF Continue
  <2>2. TypeOK'
    BY <1>2, <2>1 DEF Inv, Continue, TypeOK, ALink, Carries
  <2>3. PendingIsInFlight'
    BY <1>2 DEF Inv, Continue, PendingIsInFlight
  <2> QED BY <2>2, <2>3 DEF Inv
<1>3. CASE Finish
  <2>1. chain' \in Seq(ALink) /\ \A i \in DOMAIN chain' : Carries(chain'[i])
    BY <1>3, PopKeepsType DEF Finish, Innermost, Inv
  <2>2. TypeOK'
    BY <1>3, <2>1 DEF Inv, Finish, TypeOK, ALink, Carries
  <2>3. PendingIsInFlight'
    BY <1>3 DEF Inv, Finish, PendingIsInFlight
  <2> QED BY <2>2, <2>3 DEF Inv
<1> QED BY <1>1, <1>2, <1>3

(* An error that comes up is pending if it is an exception of script. *)
LEMMA ErrorsStep ==
  ASSUME Inv, NEW e \in Values, ScriptThrows(e) \/ RubyRaises(e) \/ EngineFails(e)
  PROVE  Inv'
<1>1. CASE ScriptThrows(e)
  <2>1. TypeOK'
    BY <1>1, ThrowTypes, ConstantsDiffer DEF Inv, TypeOK, ScriptThrows, Fly, Quiet
  <2> QED BY <1>1, <2>1 DEF Inv, ScriptThrows, Throw, PendingIsInFlight
<1>2. CASE RubyRaises(e)
  <2>1. TypeOK'
    BY <1>2, ConstantsDiffer DEF Inv, TypeOK, RubyRaises, Fly, Quiet
  <2>2. PendingIsInFlight'
    BY <1>2 DEF Inv, RubyRaises, PendingIsInFlight, Fly, Quiet, None
  <2> QED BY <2>1, <2>2 DEF Inv
<1>3. CASE EngineFails(e)
  <2>1. TypeOK'
    BY <1>3, ThrowTypes, ReporterTypes, ConstantsDiffer DEF Inv, TypeOK, EngineFails, Fly, Quiet
  <2>2. PendingIsInFlight'
    BY <1>3 DEF Inv, EngineFails, Throw, report_js_error, RunOutOfMemory, PendingIsInFlight,
                Fly, Quiet, None
  <2> QED BY <2>1, <2>2 DEF Inv
<1> QED BY <1>1, <1>2, <1>3

(* What a link has carried is what Ruby raises and the engine reports. *)
LEMMA DescribedStep ==
  ASSUME Inv, Deliver \/ Report
  PROVE  Inv'
<1>1. chain # <<>> /\ Last(chain).error \in Described
  BY LastLink DEF Inv, Deliver, Report, Innermost, Carries, ALink, Carriers
<1>2. chain' \in Seq(ALink) /\ \A i \in DOMAIN chain' : Carries(chain'[i])
  BY <1>1, PopKeepsType DEF Deliver, Report, Inv
<1>3. CASE Deliver
  <2>1. TypeOK'
    BY <1>1, <1>2, <1>3 DEF Inv, TypeOK, Deliver, Fly, Quiet, ALink, Carries
  <2>2. PendingIsInFlight'
    BY <1>3 DEF Inv, Deliver, PendingIsInFlight, Fly, Quiet, None
  <2> QED BY <2>1, <2>2 DEF Inv
<1>4. CASE Report
  <2>1. TypeOK'
    BY <1>1, <1>2, <1>4, ThrowTypes, ReporterTypes
       DEF Inv, TypeOK, Report, Fly, Quiet, ALink, Carries
  <2>2. PendingIsInFlight'
    BY <1>4 DEF Inv, Report, Throw, report_js_error, PendingIsInFlight, Fly, Quiet, None
  <2> QED BY <2>1, <2>2 DEF Inv
<1> QED BY <1>3, <1>4

LEMMA PropagateStep == ASSUME Inv, Propagate PROVE Inv'
<1> USE ConstantsDiffer
<1>1. CASE ScriptUnwinds \/ JumpOn
  <2>1. chain' \in Seq(ALink) /\ \A i \in DOMAIN chain' : Carries(chain'[i])
    BY <1>1, PopKeepsType DEF ScriptUnwinds, JumpOn, Innermost, Inv
  <2>2. TypeOK'
    BY <1>1, <2>1 DEF Inv, ScriptUnwinds, JumpOn, TypeOK, ALink, Carries
  <2>3. PendingIsInFlight'
    BY <1>1 DEF Inv, ScriptUnwinds, JumpOn, PendingIsInFlight
  <2> QED BY <2>2, <2>3 DEF Inv
<1>2. CASE ScriptCatches
  BY <1>2 DEF ScriptCatches, Inv, TypeOK, PendingIsInFlight, Quiet
<1>3. CASE RubyRescues
  BY <1>3 DEF RubyRescues, Inv, TypeOK, PendingIsInFlight, Quiet, Fly
<1>4. CASE raise_js_error_in_ruby \/ RaiseOrGoOn
  <2>1. chain # <<>> /\ TakePending
    BY <1>4 DEF raise_js_error_in_ruby, RaiseOrGoOn, Innermost
  <2>2. chain' \in Seq(ALink) /\ \A i \in DOMAIN chain' : Carries(chain'[i])
    <3>1. CASE Stored'
      BY <1>4, <2>1, <3>1, TakePendingTypes, BecomeKeepsType
         DEF raise_js_error_in_ruby, RaiseOrGoOn, Links, Carriers, Inv
    <3>2. CASE ~Stored'
      BY <1>4, <2>1, <3>2, PopKeepsType DEF raise_js_error_in_ruby, RaiseOrGoOn, Inv
    <3> QED BY <3>1, <3>2
  <2>3. TypeOK'
    BY <1>4, <2>1, <2>2, TakePendingTypes
       DEF Inv, raise_js_error_in_ruby, RaiseOrGoOn, TypeOK, ALink, Carries, Fly, Quiet
  <2>4. PendingIsInFlight'
    BY <2>1 DEF TakePending, PendingIsInFlight
  <2> QED BY <2>3, <2>4 DEF Inv
<1>5. CASE RaiseUnconverted
  <2>1. chain' \in Seq(ALink) /\ \A i \in DOMAIN chain' : Carries(chain'[i])
    BY <1>5, PopKeepsType DEF RaiseUnconverted, Innermost, Inv
  <2>2. TypeOK'
    BY <1>5, <2>1 DEF Inv, RaiseUnconverted, TypeOK, ALink, Carries, Fly, Quiet
  <2>3. PendingIsInFlight'
    BY <1>5 DEF RaiseUnconverted, PendingIsInFlight
  <2> QED BY <2>2, <2>3 DEF Inv
<1>6. CASE report_ruby_error_in_js
  <2>1. chain # <<>> /\ flying.error \in Described
    BY <1>6, FlyingTypes DEF report_ruby_error_in_js, Innermost, Inv
  <2>2. chain' \in Seq(ALink) /\ \A i \in DOMAIN chain' : Carries(chain'[i])
    BY <1>6, <2>1, PopKeepsType, BecomeKeepsType
       DEF report_ruby_error_in_js, Links, Carriers, Inv
  <2>3. TypeOK'
    BY <1>6, <2>2, ThrowTypes, ReporterTypes
       DEF Inv, report_ruby_error_in_js, TypeOK, ALink, Carries, Fly, Quiet
  <2>4. PendingIsInFlight'
    BY <1>6 DEF Inv, report_ruby_error_in_js, Throw, RunOutOfMemory, PendingIsInFlight,
                Fly, Quiet
  <2> QED BY <2>3, <2>4 DEF Inv
<1> QED BY <1>1, <1>2, <1>3, <1>4, <1>5, <1>6 DEF Propagate

LEMMA NextStep == Inv /\ [Next]_vars => Inv'
<1>1. Inv /\ UNCHANGED vars => Inv'
  BY DEF vars, Inv, TypeOK, PendingIsInFlight
<1> QED BY <1>1, CallsStep, ErrorsStep, DescribedStep, PropagateStep DEF Next, Start

LEMMA Invariant == Spec => []Inv
BY InitInv, NextStep, PTL DEF Spec

THEOREM ErrorBridgeTypeCorrect == Spec => []TypeOK
<1>1. Inv => TypeOK
  BY DEF Inv
<1> QED BY Invariant, <1>1, PTL

(* An exception pending on a JSContext is the error script is about to     *)
(* see, or one that a function which could not convert its script left:    *)
(* whatever the code that describes errors does, and however deep it is    *)
(* nested.                                                                 *)
THEOREM NothingElseStaysPending == Spec => []PendingIsInFlight
<1>1. Inv => PendingIsInFlight
  BY DEF Inv
<1> QED BY Invariant, <1>1, PTL
-----------------------------------------------------------------------------
(* The refinement: each step of the bridge as a step of ErrorDelivery.     *)
LEMMA Observed ==
  /\ Side \in Delivery!Sides /\ Side' \in Delivery!Sides
  /\ Framed \in BOOLEAN /\ Framed' \in BOOLEAN
BY DEF Side, Delivery!Sides, Framed

(* What is carried follows the chain. *)
LEMMA CarriedType ==
  ASSUME TypeOK
  PROVE  /\ Carried \in Seq(Described \cup {None}) /\ Len(Carried) = Len(chain)
         /\ chain # <<>> => /\ Carried # <<>>
                           /\ Last(Carried) = Last(chain).error
<1>1. chain \in Seq(ALink)
  BY DEF TypeOK, ALink
<1>2. \A i \in DOMAIN chain : chain[i].error \in Described \cup {None}
  <2>1. \A i \in DOMAIN chain : chain[i] \in ALink
    BY <1>1
  <2> QED BY <2>1 DEF ALink
<1>3. Carried \in Seq(Described \cup {None}) /\ Len(Carried) = Len(chain)
  BY <1>1, <1>2 DEF Carried
<1>4. ASSUME chain # <<>> PROVE Carried # <<>> /\ Last(Carried) = Last(chain).error
  BY <1>1, <1>3, <1>4 DEF Carried, Last
<1> QED BY <1>3, <1>4

LEMMA CarriedPushed ==
  ASSUME TypeOK, NEW at, chain' = Append(chain, Link(at, None))
  PROVE  Carried' = Append(Carried, None)
<1>1. chain \in Seq(ALink)
  BY DEF TypeOK, ALink
<1> QED BY <1>1 DEF Carried, Link

LEMMA CarriedPopped ==
  ASSUME TypeOK, chain # <<>>, Pop
  PROVE  Delivery!Pop
<1>1. chain \in Seq(ALink)
  BY DEF TypeOK, ALink
<1>2. Carried' = Front(Carried)
  BY <1>1 DEF Carried, Pop, Front
<1> QED BY <1>2, CarriedType DEF Delivery!Pop, Delivery!Front, Front

LEMMA CarriedTaken ==
  ASSUME TypeOK, chain # <<>>, Last(chain).error = None, NEW at, NEW e, Become(at, e)
  PROVE  Delivery!Takes(e)
<1>1. chain \in Seq(ALink)
  BY DEF TypeOK, ALink
<1>2. Carried' = [Carried EXCEPT ![Len(Carried)] = e]
  BY <1>1, CarriedType DEF Carried, Become, Link
<1> QED BY <1>2, CarriedType DEF Delivery!Takes, Delivery!Last, Last

LEMMA CarriedKept == UNCHANGED chain => Carried' = Carried
BY DEF Carried

(* What is in flight: all that Ruby raises, and of what script fails with  *)
(* the exception that is pending.                                          *)
LEMMA InFlight ==
  ASSUME TypeOK
  PROVE  /\ Exception \in Described \cup {None}
         /\ flying = Quiet => Exception = None
         /\ flying.in = "ruby" => Exception = flying.error /\ Exception # None
         /\ flying.in = "js" /\ Exception # None => pending = Exception
<1> USE FlyingTypes, ConstantsDiffer DEF Exception
<1>1. CASE flying = Quiet
  BY <1>1 DEF Quiet, None
<1>2. CASE flying.in = "ruby"
  BY <1>2 DEF Quiet, None
<1>3. CASE flying.in = "js"
  BY <1>3 DEF Quiet, None
<1> QED BY <1>1, <1>2, <1>3

InFlightIsTyped == Exception \in Described \cup {None}
LEMMA InFlightNext == TypeOK' => InFlightIsTyped'
<1>1. TypeOK => InFlightIsTyped
  BY InFlight DEF InFlightIsTyped
<1> QED BY <1>1, PTL

(* Every action of ErrorDelivery leaves the observers open. *)
LEMMA IsAStep ==
  ASSUME \/ Delivery!Run \/ Delivery!Occur \/ Delivery!Travel \/ Delivery!Handle
         \/ Delivery!TakeOver \/ Delivery!Deliver \/ Delivery!Fade \/ Delivery!Generalize
  PROVE  Delivery!Next
BY Observed DEF Delivery!Next

(* Calls end with what they have not taken over. *)
LEMMA NotACarrier ==
  ASSUME TypeOK, chain # <<>>, Last(chain).at \notin Carriers
  PROVE  Last(chain).error = None /\ Delivery!Last(Carried) = None
BY LastLink, CarriedType DEF Carries, Delivery!Last, Last
-----------------------------------------------------------------------------
LEMMA DeliveryInit == Init => Delivery!Init
BY DEF Init, Delivery!Init, Exception, Side, RubyActive, Quiet, None, Carried, Framed

(* A call of either side begins or ends. *)
LEMMA CallsDeliver ==
  ASSUME TypeOK, (\E entry \in Entries : Enter(entry)) \/ Continue \/ Finish
  PROVE  Delivery!Next
<1>1. flying = Quiet /\ flying' = flying /\ pending' = pending
  BY DEF Enter, Continue, Finish
<1>2. Exception = None /\ Exception' = None
  BY <1>1, InFlight DEF Exception, Quiet, None
<1>3. ASSUME NEW at \in Links, Push(at) PROVE Delivery!Next
  BY <1>2, <1>3, CarriedPushed, IsAStep DEF Push, Delivery!Run
<1>4. ASSUME Innermost({"prepare"}), Become("evaluate", None) PROVE Delivery!Next
  <2>1. chain # <<>> /\ Last(chain).at \notin Carriers
    BY <1>4 DEF Innermost, Carriers
  <2>2. Delivery!Takes(None)
    BY <1>4, <2>1, NotACarrier, CarriedTaken
  <2>3. Carried' = Carried
    BY <2>1, <2>2, NotACarrier, CarriedType DEF Delivery!Takes, Delivery!Last
  <2> QED BY <1>2, <2>3, IsAStep DEF Delivery!Run
<1>5. ASSUME Finish PROVE Delivery!Next
  <2>1. chain # <<>> /\ Last(chain).at \notin Carriers /\ Pop
    BY <1>5 DEF Finish, Innermost, Carriers
  <2> QED BY <1>2, <2>1, NotACarrier, CarriedPopped, IsAStep DEF Delivery!Run
<1>6. CASE \E entry \in Entries : Enter(entry)
  BY <1>3, <1>6 DEF Enter, Links
<1>7. CASE Continue
  BY <1>3, <1>4, <1>7 DEF Continue
<1> QED BY <1>5, <1>6, <1>7

(* An error comes up where none was in flight. *)
LEMMA ErrorsDeliver ==
  ASSUME TypeOK, TypeOK', NEW e \in Values, ScriptThrows(e) \/ RubyRaises(e) \/ EngineFails(e)
  PROVE  Delivery!Next
<1>1. flying = Quiet /\ UNCHANGED chain
  BY DEF ScriptThrows, RubyRaises, EngineFails
<1>2. Exception = None /\ Carried' = Carried
  BY <1>1, InFlight, CarriedKept
<1>3. Exception' \in Described \cup {None}
  BY InFlightNext DEF InFlightIsTyped
<1> QED BY <1>2, <1>3, IsAStep DEF Delivery!Run, Delivery!Occur

(* What is raised and what is reported is what the link has carried. *)
LEMMA DescribedDelivers ==
  ASSUME TypeOK, TypeOK', Deliver \/ Report
  PROVE  Delivery!Next
<1> DEFINE e == Last(chain).error
<1>1. chain # <<>> /\ flying = Quiet /\ Pop
  BY DEF Deliver, Report, Innermost
<1>2. e \in Described /\ e # Null
  BY <1>1, LastLink, ConstantsDiffer DEF Deliver, Report, Innermost, Carries, ALink, Carriers
<1>3. Exception = None /\ Delivery!Pop /\ Delivery!Last(Carried) = e
  BY <1>1, InFlight, CarriedPopped, CarriedType DEF Delivery!Last, Last
<1>4. CASE Exception' = e
  BY <1>2, <1>3, <1>4, IsAStep DEF Delivery!Deliver
<1>5. CASE Exception' # e
  <2>1. ~Framed /\ Exception' = None
    BY <1>2, <1>5 DEF Deliver, Report, Throw, Exception, Fly
  <2> QED BY <1>2, <1>3, <2>1, IsAStep, ConstantsDiffer DEF Delivery!Fade
<1> QED BY <1>4, <1>5

(* Returns and jumps leave calls with what is in flight. *)
LEMMA UnwindDelivers ==
  ASSUME TypeOK, ScriptUnwinds \/ JumpOn
  PROVE  Delivery!Next
<1>1. chain # <<>> /\ Pop /\ UNCHANGED <<pending, flying>>
  BY DEF ScriptUnwinds, JumpOn, Innermost
<1>2. Exception' = Exception /\ Delivery!Pop
  BY <1>1, CarriedPopped DEF Exception
<1>3. CASE Exception # None
  BY <1>2, <1>3, IsAStep DEF Delivery!Travel
<1>4. CASE Exception = None
  <2>1. Last(chain).at \notin Carriers
    BY <1>4, InFlight DEF ScriptUnwinds, JumpOn, Innermost, Carriers
  <2> QED BY <1>1, <1>2, <1>4, <2>1, NotACarrier, IsAStep DEF Delivery!Run
<1> QED BY <1>3, <1>4

(* An error script or Ruby handles is gone where it was. *)
LEMMA HandledDelivers ==
  ASSUME TypeOK, ScriptCatches \/ RubyRescues
  PROVE  Delivery!Next
<1>1. Side' = Side /\ Side \in {"ruby", "script"} /\ Carried' = Carried
  BY CarriedKept DEF ScriptCatches, RubyRescues, Side, RubyActive, Innermost
<1>2. Exception' = None
  BY DEF ScriptCatches, RubyRescues, Exception, Quiet, None
<1>3. CASE Exception = None
  BY <1>1, <1>2, <1>3, IsAStep DEF Delivery!Run
<1>4. CASE Exception # None
  BY <1>1, <1>2, <1>4, IsAStep DEF Delivery!Handle
<1> QED BY <1>3, <1>4

(* What TakePending stores and its caller describes is the exception that  *)
(* was in flight, if one was.                                              *)
LEMMA TakenDelivers ==
  ASSUME TypeOK, TypeOK', raise_js_error_in_ruby \/ RaiseOrGoOn
  PROVE  Delivery!Next
<1>1. chain # <<>> /\ Last(chain).at \notin Carriers /\ TakePending /\ flying.in = "js"
  BY DEF raise_js_error_in_ruby, RaiseOrGoOn, Innermost, Carriers
<1>2. Exception # None => Stored' /\ ex' = Exception
  BY <1>1, InFlight, ConstantsDiffer DEF TakePending, Stored
<1>3. CASE Stored'
  <2>1. Become("deliver", ex') /\ flying' = Quiet /\ ex' \in Described
    BY <1>1, <1>3, TakePendingTypes DEF raise_js_error_in_ruby, RaiseOrGoOn
  <2>2. Delivery!Takes(ex') /\ Exception' = None
    BY <1>1, <2>1, NotACarrier, CarriedTaken DEF Exception, Quiet, None
  <2>3. CASE Exception = None
    BY <2>1, <2>2, <2>3, IsAStep DEF Delivery!Occur
  <2>4. CASE Exception # None
    BY <1>2, <2>2, <2>4, IsAStep DEF Delivery!TakeOver
  <2> QED BY <2>3, <2>4
<1>4. CASE ~Stored'
  <2>1. Exception = None /\ Delivery!Pop /\ Delivery!Last(Carried) = None
    BY <1>1, <1>2, <1>4, CarriedPopped, NotACarrier DEF raise_js_error_in_ruby, RaiseOrGoOn
  <2>2. Exception' \in Described \cup {None}
    BY InFlightNext DEF InFlightIsTyped
  <2> QED BY <2>1, <2>2, IsAStep DEF Delivery!Run, Delivery!Occur
<1> QED BY <1>3, <1>4

LEMMA UnconvertedDelivers ==
  ASSUME TypeOK, RaiseUnconverted
  PROVE  Delivery!Next
<1>1. chain # <<>> /\ Last(chain).at \notin Carriers /\ Pop /\ Side = "argument"
  BY DEF RaiseUnconverted, Innermost, Carriers, Side, RubyActive
<1>2. Exception' = Unconverted
  BY DEF RaiseUnconverted, Exception, Fly
<1>3. Delivery!Pop /\ Delivery!Last(Carried) = None
  BY <1>1, CarriedPopped, NotACarrier
<1>4. CASE Exception = None
  BY <1>2, <1>3, <1>4, IsAStep, ConstantsDiffer DEF Delivery!Occur
<1>5. CASE Exception # None
  BY <1>1, <1>2, <1>3, <1>5, IsAStep DEF Delivery!Generalize
<1> QED BY <1>4, <1>5

(* What Ruby raised is what inspect is called on; a throw is put aside. *)
LEMMA ReportedDelivers ==
  ASSUME TypeOK, report_ruby_error_in_js
  PROVE  Delivery!Next
<1>1. chain # <<>> /\ Last(chain).at \notin Carriers /\ flying.in = "ruby"
  BY DEF report_ruby_error_in_js, Innermost, Carriers
<1>2. Exception = flying.error /\ Exception # None
  BY <1>1, InFlight
<1>3. CASE flying.error # Longjmp
  <2>1. Become("report", flying.error) /\ flying' = Quiet
    BY <1>3 DEF report_ruby_error_in_js
  <2>2. Delivery!Takes(Exception) /\ Exception' = None
    BY <1>1, <1>2, <2>1, NotACarrier, CarriedTaken DEF Exception, Quiet, None
  <2> QED BY <1>2, <2>2, IsAStep DEF Delivery!TakeOver
<1>4. CASE flying.error = Longjmp
  <2>1. Pop /\ flying' = Fly("js", Longjmp) /\ pending' \in {Longjmp, None}
    BY <1>4 DEF report_ruby_error_in_js, Throw, RunOutOfMemory
  <2>2. Exception' \in {Longjmp, None}
    BY <2>1 DEF Exception, Fly
  <2>3. Delivery!Pop /\ Delivery!Last(Carried) = None
    BY <1>1, <2>1, CarriedPopped, NotACarrier
  <2> QED BY <1>2, <1>4, <2>2, <2>3, IsAStep DEF Delivery!Travel, Delivery!Fade
<1> QED BY <1>3, <1>4

LEMMA DeliveryStep ==
  ASSUME TypeOK, TypeOK', [Next]_vars
  PROVE  [Delivery!Next]_<<Exception, Carried, Side, Framed>>
<1>1. CASE Next
  BY <1>1, CallsDeliver, ErrorsDeliver, DescribedDelivers, UnwindDelivers, HandledDelivers,
     TakenDelivers, UnconvertedDelivers, ReportedDelivers DEF Next, Start, Propagate
<1>2. CASE UNCHANGED vars
  BY <1>2 DEF vars, Exception, Carried, Side, Framed, RubyActive, Innermost
<1> QED BY <1>1, <1>2

(* An error that is an exception of either side, null excepted, is handled *)
(* or described to the other side, and what is raised there is about it,   *)
(* unless the code that describes it fails with an error of its own: the   *)
(* bridge implements ErrorDelivery.                                        *)
THEOREM ErrorsAreDelivered == Spec => ImplementsDelivery
<1>1. TypeOK /\ TypeOK' /\ [Next]_vars => [Delivery!Next]_<<Exception, Carried, Side, Framed>>
  BY DeliveryStep
<1> QED BY DeliveryInit, <1>1, ErrorBridgeTypeCorrect, PTL
        DEF Spec, ImplementsDelivery, Delivery!Spec, Delivery!vars
=============================================================================
