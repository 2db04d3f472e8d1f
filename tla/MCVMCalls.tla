----------------------------- MODULE MCVMCalls -----------------------------
(***************************************************************************)
(* Programs for the VM, written with the operators of CodeGen.  Chunk 1 is *)
(* the main chunk, 2 and up are its functions and lambdas; NativeChunk is  *)
(* the trampoline of print.                                                *)
(***************************************************************************)
EXTENDS VMCalls, CodeGen

NativeChunk == 4

call(chunk) == do_expr_stmt(do_call(FunctionId(chunk), <<>>))
print == do_expr_stmt(do_call(FunctionId(NativeChunk), <<Boolean(TRUE)>>))
throw == do_throw(Constant(7))
assert == do_assert(Boolean(FALSE), Constant(8))
answer == do_ret(Constant(9))

TryCatches(stmts, handlers) ==
  {do_try_catch(<<body>>, <<handler>>) : body \in stmts, handler \in handlers}

NestedTries ==
  {do_try_catch(<<inner, after>>, <<handler>>) :
     inner \in TryCatches({throw, print}, {throw, print}),
     after \in {throw, print, call(2)}, handler \in {throw, print}}

Stmts(chunk) == {throw, assert, print, call(chunk)}

\* main, f and g: main calls f, f calls g.
Mains == {do_source(0, <<first, second, answer>>) :
            first \in TryCatches(Stmts(2), Stmts(2)) \cup NestedTries
                        \cup {call(2), do_ifs_else(Boolean(FALSE), <<throw>>, call(2))},
            second \in TryCatches({throw, print}, {throw, print}) \cup {throw, call(2)}}

Callees(chunk) ==
  {do_func(0, 0, <<stmt>>) : stmt \in Stmts(chunk)}
    \cup {do_func(0, 0, <<stmt, throw>>) :
            stmt \in TryCatches({throw, call(chunk)}, {throw, print})}
    \cup {do_func(0, 0, <<do_try_catch(<<answer>>, <<throw>>)>>)}

Leaves == {do_func(0, 0, <<throw>>), do_func(0, 1, <<do_vars(1, Constant(5)), answer>>)}

CallPrograms ==
  {<<main, f, g, map_native(0)>> : main \in Mains, f \in Callees(3), g \in Leaves}

(***************************************************************************)
(* Closures: mk(a) returns a lambda that captures a; main binds mk(5), or  *)
(* a plain lambda, or nil, to local 1 and uses it.                         *)
(***************************************************************************)
use == do_expr_stmt(do_call(Local(1), <<Constant(3)>>))
mk(lambda) == do_func(1, 1, <<do_ret(do_lambda(lambda, <<1>>))>>)
update == assign_upval(0, Local(1))
recall == do_ret(Upval(0))

Lambdas ==
  {do_func(1, 1, stmts) : stmts \in
     {<<recall>>, <<update, recall>>, <<do_throw(Upval(0))>>, <<assert>>,
      <<do_try_catch(<<throw>>, <<recall>>)>>,
      <<do_ifs(Upval(0), <<recall>>), throw>>}}

Uses == {use, do_try_catch(<<use>>, <<use>>),
         do_ifs(do_or(Local(1), Boolean(TRUE)), <<use>>),
         do_ifs_else(do_and(Boolean(FALSE), Local(1)), <<print>>, use),
         do_ifs(do_and(Boolean(TRUE), Local(1)), <<use>>),
         do_vars(2, do_or(Boolean(FALSE), None)),
         do_vars(2, Boolean(TRUE)) \o do_while(Local(2), <<use, assign_local(2, None)>>)}

LeafPrograms ==
  {<<do_source(2, <<do_vars(1, init), first, second, do_ret(Local(1))>>),
     mk(3), lambda, map_native(0)>> :
     init \in {do_call(FunctionId(2), <<Constant(5)>>), do_lambda(3, <<>>), None},
     first \in Uses, second \in Uses, lambda \in Lambdas}

(***************************************************************************)
(* Calls that nest deeper than a small DepthModulus: 1, 2, 3, 5, and 4 or  *)
(* 6; and a function that calls itself for ever.                           *)
(***************************************************************************)
DeepPrograms ==
  {<<do_source(0, <<first, second, answer>>), do_func(0, 0, <<call(3), middle>>),
     do_func(0, 0, <<call(5)>>), map_native(0), do_func(0, 0, <<last>>), do_func(0, 0, <<answer>>)>> :
     first \in {call(2), print}, middle \in {print, throw, call(3)},
     last \in {print, throw, assert, call(5), call(6)},
     second \in TryCatches({throw, call(2), call(5)}, {print, call(2)})}

(***************************************************************************)
(* Conditions with AND and OR in a function without locals: two values     *)
(* popped twice, and the next one lands on the local of its caller.        *)
(***************************************************************************)
Conditions ==
  {do_and(Boolean(left), Boolean(TRUE)) : left \in BOOLEAN}
    \cup {do_or(left, Boolean(TRUE)) : left \in {Boolean(FALSE), do_lambda(3, <<>>)}}

ConditionPrograms ==
  {<<do_source(1, <<do_vars(1, Constant(5)), call(2), do_ret(Local(1))>>),
     do_func(0, 0, <<do_ifs(first, <<>>), do_ifs(second, <<print>>), third>>),
     do_func(0, 0, <<answer>>), map_native(0)>> :
     first \in Conditions, second \in Conditions, third \in {print, throw, call(3)}}

AllPrograms == CallPrograms \cup LeafPrograms \cup DeepPrograms \cup ConditionPrograms

(***************************************************************************)
(* One LET of a conjunction or disjunction of booleans.                    *)
(***************************************************************************)
LogicPrograms ==
  {<<do_source(1, <<do_vars(1, expr), do_vars(1, None), answer>>)>> :
     expr \in {Boolean(TRUE), do_or(Boolean(TRUE), Boolean(FALSE)),
               do_or(Boolean(FALSE), Boolean(TRUE)),
               do_and(Boolean(FALSE), Boolean(TRUE)),
               do_and(Boolean(TRUE), Boolean(FALSE))}}
=============================================================================
