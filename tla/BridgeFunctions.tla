-------------------------- MODULE BridgeFunctions --------------------------
(***************************************************************************)
(* The C functions of ext/spidermonkey that cross between Ruby and         *)
(* JavaScript, reduced to what module Crossing needs of them: which kind   *)
(* they are, how many cleanups they reserve, and the order in which they   *)
(* register roots, call the engine, call Ruby, call each other and leave.  *)
(* A function is [kind, room, todo]: kind "ruby" for PREPARE_RUBY_JROOTS   *)
(* and for functions that raise, "js" for those that return JS_FALSE;      *)
(* room is the number of cleanups its PREPARE reserves; todo is the        *)
(* sequence of its steps.  Conversions of data, lookups that cannot fail,  *)
(* the engine's copy of a JERROR message and johnson_get_current_context   *)
(* (whose context exists once the outermost call has begun, see module     *)
(* Contexts) are left out.                                                 *)
(***************************************************************************)
EXTENDS Sequences

(* Steps on the list of cleanups of the running function. *)
Root(x)    == [do |-> "root", of |-> x]        \* JROOT(x)
Unroot(x)  == [do |-> "unroot", of |-> x]      \* JUNROOT(x)
Cleanup(x) == [do |-> "cleanup", of |-> x]     \* JCLEANUP(.., x)
Release    == [do |-> "remove"]                \* REMOVE_JROOTS

(* Calls whose failure is a false value.  "else" is what the function does *)
(* then, before it goes on; <<>> is the JCHECK of its kind.  A call of the *)
(* engine may allocate: then it may collect, which runs CollectorHandlers. *)
EngineOr(handler)  == [do |-> "engine", else |-> handler]   \* runs no script
ScriptOr(handler)  == [do |-> "script", else |-> handler]   \* may run script
CallOr(f, handler) == [do |-> "call", fn |-> f, else |-> handler]
Engine  == EngineOr(<<>>)
Script  == ScriptOr(<<>>)
Call(f) == CallOr(f, <<>>)
(* Calls of the engine whose NULL result is used without a test. *)
UsesNull == [do |-> "null"]
UncheckedEngine == EngineOr(<<UsesNull>>)
Unchecked       == ScriptOr(<<UsesNull>>)

(* Calls that may end with a Ruby exception. *)
Ruby         == [do |-> "ruby"]                      \* JPROTECT, rb_protect
Protected(f) == [do |-> "protected", fn |-> f]       \* a C function under JPROTECT
Bare         == [do |-> "bare"]                      \* rb_funcall without rb_protect
Direct(f)    == [do |-> "direct", fn |-> f]          \* a C function that may raise
Coerce       == [do |-> "coerce"]                    \* NUM2INT and the like

Raise  == [do |-> "raise"]     \* rb_raise, rb_jump_tag
Fail   == [do |-> "fail"]      \* return JS_FALSE
Return == [do |-> "return"]    \* return
Leave  == [do |-> "leave"]     \* JRETURN, JRETURN_RUBY

Either(branches) == [do |-> "either", of |-> branches]
Maybe(steps)     == Either({steps, <<>>})
Loop(steps)      == [do |-> "loop", of |-> steps]

(* if (p(...)) then; else otherwise, where p asks the object unprotected. *)
IfRuby(then, otherwise) == <<Bare, Either({then, otherwise})>>
ErrorRuby == <<Release, Raise>>    \* JERROR in a function of kind ruby
ErrorJS   == <<Release, Fail>>     \* JERROR in a function of kind js
-----------------------------------------------------------------------------
(* conversions.c: the error bridge.  RAISE_JS_ERROR converts the exception *)
(* and calls Runtime.raise_js_exception, which asks the error for its      *)
(* stack and message and always raises.                                    *)
RaiseJSError == <<Direct("convert_to_ruby"), Bare, Raise>>

raise_js_error_in_ruby == <<Either({RaiseJSError, <<Raise>>})>>

report_ruby_error_in_js == <<Either({<<Bare, Fail>>, <<Fail>>})>>

(* js_land_proxy.c: a call of Ruby for a handler.  call_ruby_from_js_va is *)
(* also call_ruby_from_js2, and call_ruby_from_js without a retval.        *)
call_ruby_from_js_va == [kind |-> "js", room |-> 0, todo |-> <<Ruby, Return>>]

call_ruby_from_js ==
    [kind |-> "js", room |-> 0, todo |-> <<Ruby, Call("convert_to_js"), Return>>]

CallRuby  == <<Call("call_ruby_from_js")>>
CallRuby2 == <<Call("call_ruby_from_js_va")>>

(* conversions.c: Ruby to JavaScript. *)
convert_float_or_bignum_to_js == [kind |-> "js", room |-> 0, todo |-> <<Engine, Return>>]

convert_symbol_to_js ==
    [kind |-> "js", room |-> 2, todo |->
        <<Ruby, Ruby, UncheckedEngine, Root("name"), Script, Root("nsJohnson"), Script, Leave>>]

convert_regexp_to_js ==
    [kind |-> "js", room |-> 0, todo |-> <<Bare, Ruby, Bare, Engine, Leave>>]

convert_to_js ==
    [kind |-> "js", room |-> 0, todo |->
        <<Either({ ErrorJS,
                   <<>>,
                   <<Ruby, Engine>>,
                   <<Call("convert_float_or_bignum_to_js")>>,
                   <<Call("convert_symbol_to_js")>>,
                   <<Call("make_js_land_proxy")>>,
                   <<Call("convert_regexp_to_js")>>,
                   <<Call("unwrap_ruby_land_proxy")>> }),
          Leave>>]

(* conversions.c: JavaScript to Ruby. *)
convert_js_string_to_ruby ==
    [kind |-> "ruby", room |-> 1, todo |-> <<Root("str"), Engine, Coerce, Leave>>]

convert_regexp_to_ruby ==
    [kind |-> "ruby", room |-> 1, todo |->
        <<Root("regexp"), Protected("convert_js_string_to_ruby"), Ruby, Leave>>]

js_value_is_regexp ==
    [kind |-> "js", room |-> 1, todo |-> <<Root("maybe_regexp"), Leave>>]

js_value_is_symbol ==
    [kind |-> "js", room |-> 3, todo |->
        <<Root("maybe_symbol"), Script, Maybe(ErrorJS),
          Root("nsJohnson"), Script, Maybe(ErrorJS),
          Root("cSymbol"), Script, Leave>>]

convert_to_ruby ==
    [kind |-> "ruby", room |-> 1, todo |->
        <<Maybe(<<Return>>),
          Root("js"),
          Either({ <<>>,
                   ErrorRuby,
                   <<Protected("make_ruby_land_proxy")>>,
                   <<Call("js_value_is_symbol"),
                     Either({ <<Unchecked, Ruby>>,
                              <<>>,
                              <<Call("js_value_is_regexp"),
                                Either({<<Protected("convert_regexp_to_ruby")>>,
                                        <<Protected("make_ruby_land_proxy")>>})>> })>>,
                   <<Protected("convert_js_string_to_ruby")>>,
                   <<Ruby>> }),
          Leave>>]
-----------------------------------------------------------------------------
(* ruby_land_proxy.c: methods of RubyLandProxy, called by Ruby. *)
call_js_function_value ==     \* for argc <= 1
    [kind |-> "ruby", room |-> 3, todo |->
        <<Root("target"), Root("function"),
          Maybe(<<Call("convert_to_js"), Root("args[i]")>>),
          Script, Protected("convert_to_ruby"), Leave>>]

(* The three cases of switch(TYPE(name)): Fixnum, Symbol, anything else. *)
ByName == Either({<<Coerce, Script>>, <<Ruby, Ruby, Script>>, <<Ruby, Script>>})

get ==
    [kind |-> "ruby", room |-> 1, todo |->
        <<Root("proxy_value"), ByName, Protected("convert_to_ruby"), Leave>>]

set ==
    [kind |-> "ruby", room |-> 2, todo |->
        <<Root("proxy_value"), Call("convert_to_js"), Root("js_value"), ByName, Leave>>]

function_p == [kind |-> "ruby", room |-> 1, todo |-> <<Root("proxy_value"), Leave>>]

respond_to_p ==
    [kind |-> "ruby", room |-> 2, todo |->
        <<Bare, Maybe(<<Leave>>),
          Root("proxy_value"), Engine, Root("obj"), Script, Maybe(<<Ruby>>), Leave>>]

native_call ==
    [kind |-> "ruby", room |-> 0, todo |->
        <<Direct("function_p"), Maybe(<<Raise>>),
          Call("convert_to_js"), Direct("call_js_function_value"), Return>>]

each ==
    [kind |-> "ruby", room |-> 5, todo |->
        <<Root("proxy_value"), Root("value"),
          Either({ <<Engine, Loop(<<Script, Protected("convert_to_ruby"), Ruby>>)>>,
                   <<Script, Cleanup("ids"),
                     Loop(<<Engine, Root("js_key"), Script, Root("js_value"),
                            Protected("convert_to_ruby"), Protected("convert_to_ruby"), Ruby,
                            Unroot("js_value"), Unroot("js_key")>>)>> }),
          Leave>>]

\* Mutant: length returns false like a handler does.
lengthReturnsFalse ==
    [kind |-> "js", room |-> 2, todo |-> <<Root("proxy_value"), Script, Leave>>]

length ==
    [kind |-> "ruby", room |-> 2, todo |->
        <<Root("proxy_value"), Root("value"), Either({<<Engine>>, <<Script>>}), Leave>>]

function_property_p ==
    [kind |-> "ruby", room |-> 2, todo |->
        <<Maybe(<<Bare>>), Coerce, Root("proxy_value"), Script, Root("js_value"), Leave>>]

call_function_property ==
    [kind |-> "ruby", room |-> 2, todo |->
        <<Maybe(<<Raise>>), Root("proxy_value"), Ruby, Script, Root("function"),
          Maybe(ErrorRuby), Release, Direct("call_js_function_value"), Return>>]

to_s ==
    [kind |-> "ruby", room |-> 1, todo |->
        <<Root("proxy_value"), Unchecked, Protected("convert_js_string_to_ruby"), Leave>>]

unwrap_ruby_land_proxy == [kind |-> "js", room |-> 0, todo |-> <<Leave>>]

make_ruby_land_proxy ==
    [kind |-> "ruby", room |-> 1, todo |->
        <<Maybe(<<Bare, Return>>),
          Root("value"), Engine, Engine, Ruby, Ruby, Leave>>]
-----------------------------------------------------------------------------
(* js_land_proxy.c: handlers of a JSLandProxy, called by script.  The      *)
(* property lookup asks the Ruby object one question after another.        *)
js_get ==
    [kind |-> "js", room |-> 1, todo |->
        <<Root("id"),
          Either({ IfRuby(CallRuby, <<>>),
                   <<Script>>,
                   IfRuby(CallRuby,
                     IfRuby(CallRuby,
                       <<Either({ <<Call("convert_to_js")>>,
                                  IfRuby(CallRuby,
                                    IfRuby(CallRuby,
                                      IfRuby(CallRuby, <<>>))) })>>)) }),
          Leave>>]

get_and_destroy_resolved_property ==
    [kind |-> "js", room |-> 1, todo |-> <<Root("id"), Engine, Call("js_get"), Leave>>]

js_set ==
    [kind |-> "js", room |-> 2, todo |->
        <<Root("id"), Root("value"),
          Either({ IfRuby(<<Protected("convert_to_ruby")>> \o CallRuby2, <<>>),
                   <<Protected("convert_to_ruby"), Protected("convert_to_ruby"), Coerce>>
                     \o CallRuby2 \o CallRuby2
                     \o <<Either({CallRuby2 \o CallRuby2 \o <<Coerce, Maybe(CallRuby2)>>,
                                  CallRuby2})>> }),
          Leave>>]

construct ==
    [kind |-> "js", room |-> 0, todo |->
        <<Protected("convert_to_ruby"), Loop(<<Protected("convert_to_ruby")>>)>>
          \o CallRuby \o <<Leave>>]

resolve ==
    [kind |-> "js", room |-> 1, todo |->
        <<Root("id"), UncheckedEngine,
          Bare, Maybe(<<Bare, Maybe(<<Bare, Maybe(<<Bare, Maybe(<<Bare>>)>>)>>)>>),
          Maybe(<<Engine>>), Leave>>]

to_string == [kind |-> "js", room |-> 0, todo |-> CallRuby \o <<Leave>>]
to_array  == [kind |-> "js", room |-> 0, todo |-> CallRuby \o <<Leave>>]

method_missing ==
    [kind |-> "js", room |-> 0, todo |->
        <<Protected("convert_to_ruby")>> \o CallRuby2 \o CallRuby \o <<Leave>>]

call ==
    [kind |-> "js", room |-> 0, todo |->
        <<Loop(<<Protected("convert_to_ruby")>>)>> \o CallRuby \o <<Leave>>]

finalize == [kind |-> "js", room |-> 0, todo |-> <<Bare, Return>>]

make_js_land_proxy ==     \* SetPrivate and the three DefineFunctions are one step
    [kind |-> "js", room |-> 2, todo |->
        <<Script, Root("johnson"),
          Either({ <<Script>>,
                   <<Maybe(<<Bare>>), Bare, Engine, Root("jsobj"), Engine,
                     Bare, Script, Engine, Script>> }),
          Leave>>]
-----------------------------------------------------------------------------
(* runtime.c, extensions.c, global.c and debugger.c. *)
global == [kind |-> "ruby", room |-> 0, todo |-> <<Direct("convert_to_ruby"), Return>>]

trap_handler == [kind |-> "js", room |-> 0, todo |-> <<Ruby, Return>>]

set_trap ==
    [kind |-> "ruby", room |-> 0, todo |->
        <<CallOr("convert_to_js", <<Raise>>), Coerce, Return>>]
clear_trap == set_trap

(* After a failure with neither a pending exception nor a stored one, both *)
(* functions go on as if the script had succeeded.  Compiling may call the *)
(* debugger; a script object that is NULL becomes a proxy of null.         *)
native_compile ==
    [kind |-> "ruby", room |-> 0, todo |->
        <<Coerce, ScriptOr(<<Maybe(RaiseJSError)>>),
          EngineOr(<<Direct("make_ruby_land_proxy"), Return>>),
          Direct("make_ruby_land_proxy"), Return>>]

evaluate_compiled_script ==
    [kind |-> "ruby", room |-> 0, todo |->
        <<Maybe(<<Raise>>), CallOr("convert_to_js", <<Raise>>),
          ScriptOr(<<Maybe(RaiseJSError)>>), Direct("convert_to_ruby"), Return>>]

gc_callback == [kind |-> "js", room |-> 0, todo |-> <<Bare, Return>>]

init_spidermonkey_extensions ==
    [kind |-> "ruby", room |-> 1, todo |->
        <<Engine, Root("Object"), Engine, Engine, Engine, Engine, Leave>>]

define_property == [kind |-> "js", room |-> 0, todo |-> <<Engine, Return>>]

global_resolve == [kind |-> "js", room |-> 0, todo |-> <<Maybe(<<Engine>>), Return>>]

(* The ten hooks of Johnson::SpiderMonkey::Debugger have one shape. *)
debugger_hook == [kind |-> "js", room |-> 0, todo |-> <<Bare, Coerce, Return>>]
-----------------------------------------------------------------------------
Body ==
    [convert_float_or_bignum_to_js |-> convert_float_or_bignum_to_js,
     convert_symbol_to_js |-> convert_symbol_to_js,
     convert_regexp_to_js |-> convert_regexp_to_js,
     convert_to_js |-> convert_to_js,
     convert_js_string_to_ruby |-> convert_js_string_to_ruby,
     convert_regexp_to_ruby |-> convert_regexp_to_ruby,
     js_value_is_regexp |-> js_value_is_regexp,
     js_value_is_symbol |-> js_value_is_symbol,
     convert_to_ruby |-> convert_to_ruby,
     call_ruby_from_js_va |-> call_ruby_from_js_va, call_ruby_from_js |-> call_ruby_from_js,
     call_js_function_value |-> call_js_function_value, get |-> get,
     set |-> set, function_p |-> function_p,
     respond_to_p |-> respond_to_p, native_call |-> native_call,
     each |-> each, length |-> length,
     function_property_p |-> function_property_p,
     call_function_property |-> call_function_property, to_s |-> to_s,
     unwrap_ruby_land_proxy |-> unwrap_ruby_land_proxy,
     make_ruby_land_proxy |-> make_ruby_land_proxy, js_get |-> js_get,
     get_and_destroy_resolved_property |-> get_and_destroy_resolved_property,
     js_set |-> js_set, construct |-> construct, resolve |-> resolve,
     to_string |-> to_string, to_array |-> to_array,
     method_missing |-> method_missing, call |-> call,
     finalize |-> finalize, make_js_land_proxy |-> make_js_land_proxy,
     global |-> global, trap_handler |-> trap_handler,
     set_trap |-> set_trap, clear_trap |-> clear_trap,
     native_compile |-> native_compile,
     evaluate_compiled_script |-> evaluate_compiled_script,
     gc_callback |-> gc_callback,
     init_spidermonkey_extensions |-> init_spidermonkey_extensions,
     define_property |-> define_property,
     global_resolve |-> global_resolve, debugger_hook |-> debugger_hook]

Functions == DOMAIN Body

(* What Ruby code can call, what the engine calls while script runs, and   *)
(* what it calls when it collects.                                         *)
RubyMethods ==
    {"get", "set", "function_p", "respond_to_p", "native_call", "each", "length",
     "function_property_p", "call_function_property", "to_s", "global", "set_trap",
     "clear_trap", "native_compile", "evaluate_compiled_script",
     "init_spidermonkey_extensions"}

ScriptHandlers ==
    {"js_get", "get_and_destroy_resolved_property", "js_set", "construct", "resolve",
     "to_string", "to_array", "method_missing", "call", "finalize", "trap_handler",
     "gc_callback", "define_property", "global_resolve", "debugger_hook"}

CollectorHandlers == {"finalize", "gc_callback"}
=============================================================================
