------------------------------ MODULE VMCalls ------------------------------
(***************************************************************************)
(* Calls, returns, exceptions and aborts in the VM: the control part of    *)
(* src/src/vm.c, closure_invoke_fn of obj_closure.c, and a host that       *)
(* invokes the program again (tbasic_invoke in tb_api.h).                  *)
(*                                                                         *)
(* A handler of an instruction ends by calling the handler of the next one *)
(* through the pointer `dispatcher`, and a called function runs inside the *)
(* handler of its CALL.  The activations waiting on the C stack are        *)
(* `frames`; while a handler's result travels back to the caller,          *)
(* `returned` holds it.  A step is the handler of an instruction, or what  *)
(* is left of the handler of a CALL once its callee has returned.          *)
(***************************************************************************)
EXTENDS Integers, SequencesExt

CONSTANTS
  Programs,       \* the programs to run: functions from chunk ids to code
  Entry,          \* the id of the main chunk
  DepthModulus,   \* values of the depth counter, a uint8_t (256)
  StackCapacity,  \* values in the stack (16384)
  MaxRuns         \* bounds the number of invocations

ASSUME DepthAssumption == DepthModulus \in Nat /\ DepthModulus > 1
ASSUME CallsAssumption ==
  /\ StackCapacity \in Nat \ {0} /\ MaxRuns \in Nat \ {0}
  /\ \A code \in Programs : Entry \in DOMAIN code

ReturnMarkLast == 15   \* TBASIC_RET_MARK_LAST

(***************************************************************************)
(* What the VM takes for granted of a chunk, and compiler.c provides: a    *)
(* jump lands in the chunk, the last instruction is a RET, and it is       *)
(* marked as the last one unless the chunk neither calls nor throws (the   *)
(* trampoline of a native).                                                *)
(***************************************************************************)
Instructions == [op : STRING, flag : Nat, wide : Nat]
Marked(code) == code[Len(code)].flag = ReturnMarkLast

WellFormed(code) ==
  /\ code \in Seq(Instructions) /\ Len(code) >= 1 /\ code[Len(code)].op = "ret"
  /\ \A pos \in 1 .. Len(code) :
       LET instr == code[pos] IN
       /\ instr.op = "jmp" =>
            IF instr.flag # 0 THEN pos - instr.wide >= 1 ELSE pos + instr.wide <= Len(code)
       /\ instr.op \in {"jmp_false", "jmp_if"} => pos + instr.wide <= Len(code)
       /\ instr.op \in {"call", "raise_err"} => Marked(code)

\* The main chunk starts with its RESERVE, and no CALL can come next.
ASSUME CodeAssumption ==
  \A chunks \in Programs :
    /\ \A chunk \in DOMAIN chunks : WellFormed(chunks[chunk])
    /\ LET main == chunks[Entry]
       IN  /\ Marked(main) /\ Len(main) >= 2
           /\ main[1].op = "reserve" /\ main[2].op \notin {"reserve", "call"}

VARIABLES
  program,        \* the program of this behaviour
  chunk_id, ip,   \* the instruction to handle next
  frames,         \* the callers waiting in fn_call or closure_invoke_fn
  sp, bp, stack,
  upvals,         \* which closure's captures are visible, or NULL
  closures,       \* the closures made: their chunk and their captures
  depth, status, trying_except, dispatcher,
  returned,       \* the result on its way to the caller, or Running
  crashed,        \* an access out of bounds or through a null pointer
  runs,           \* bound and history: invocations begun
  leaked,         \* history: handlers of this run that returned without a RET
  wrapped,        \* history: depth has come round to 0 in a call
  outcomes        \* history: how the earlier runs ended

codeVars == <<chunk_id, ip, frames>>
slotVars == <<sp, bp, stack>>
closureVars == <<upvals, closures>>
statusVars == <<depth, status, trying_except, dispatcher, returned>>
historyVars == <<runs, leaked, wrapped, outcomes>>
vars == <<program, codeVars, slotVars, closureVars, statusVars, crashed, historyVars>>

(***************************************************************************)
(* Values are nil, booleans, integers (chunk ids among them) and closures. *)
(***************************************************************************)
Nil == [tag |-> "nil", n |-> 0]
Bool(n) == [tag |-> "bool", n |-> n]
Integer(n) == [tag |-> "int", n |-> n]
Closure(n) == [tag |-> "obj", n |-> n]

\* What JMP_FALSE takes for true; every object here is a closure.
Truthy(value) ==
  \/ value.tag = "obj"
  \/ value.tag \in {"bool", "int"} /\ value.n # 0

NULL == 0
Running == "running"
Slots == 0 .. StackCapacity - 1

Code == program[chunk_id]
Instr == Code[ip]
Top == stack[sp]
Alive == ~ crashed
Executing == Alive /\ returned = Running
Ended == Alive /\ returned # Running /\ frames = <<>>

(***************************************************************************)
(* vm_locally_propagate_error: from an instruction on, the first CATCH     *)
(* that brings the count of open TRYs to zero, or the last RET of the      *)
(* chunk.  The count is a size_t: 0 - 1 is not <= 0, so that only an exact *)
(* zero stops the search.                                                  *)
(***************************************************************************)
CountOf(op, code, first, last) ==
  Len(SelectSeq(SubSeq(code, first, last), LAMBDA instr : instr.op = op))

StopsSearch(code, from, trying, pos) ==
  \/ /\ code[pos].op = "catch_err"
     /\ trying + CountOf("try", code, from, pos) = CountOf("catch_err", code, from, pos)
  \/ code[pos].op = "ret" /\ code[pos].flag = ReturnMarkLast

\* Mutant: the count ignores that a TRY is open.
vm_locally_propagate_error_Zero(code, from, trying) ==
  CHOOSE pos \in from .. Len(code) :
    /\ StopsSearch(code, from, 0, pos)
    /\ \A before \in from .. pos - 1 : ~ StopsSearch(code, from, 0, before)

\* Mutant: the search ends one instruction too far.
vm_locally_propagate_error_Past(code, from, trying) ==
  1 + CHOOSE pos \in from .. Len(code) :
        /\ StopsSearch(code, from, trying, pos)
        /\ \A before \in from .. pos - 1 : ~ StopsSearch(code, from, trying, before)

vm_locally_propagate_error(code, from, trying) ==
  CHOOSE pos \in from .. Len(code) :
    /\ StopsSearch(code, from, trying, pos)
    /\ \A before \in from .. pos - 1 : ~ StopsSearch(code, from, trying, before)

(***************************************************************************)
(* The tail of a handler: on through `dispatcher`.  vm_seek_catch moves    *)
(* the instruction pointer first and hands back to vm_dispatch.            *)
(***************************************************************************)
Dispatch(code, target) ==
  /\ ip' = IF dispatcher = "vm_seek_catch"
           THEN vm_locally_propagate_error(code, target, trying_except')
           ELSE target
  /\ dispatcher' = "vm_dispatch"

(***************************************************************************)
(* The slots the handler of an instruction reads or writes; whether it     *)
(* reads a capture that is not there, through the null pointer `upvals` or *)
(* beyond the end; and whether it calls what is no chunk.  After a return  *)
(* the caller's handler reads the slot at the top.                         *)
(***************************************************************************)
Touched(instr) ==
  CASE instr.op \in {"put_none", "put_bool", "put_k", "load_imm_gid", "get_upv",
                     "native_call"} -> {sp + 1}
    [] instr.op \in {"jmp_false", "jmp_if", "set_upv", "raise_err"} -> {sp}
    [] instr.op = "load_local" -> {sp + 1, bp + instr.wide}
    [] instr.op = "store_local" -> {sp, bp + instr.wide}
    [] instr.op = "abort_if" -> {sp - 1, sp}
    [] instr.op = "mk_closure" -> sp - instr.wide .. sp
    [] instr.op = "call" -> {sp - instr.wide}
    [] instr.op = "ret" -> IF status = "err_throw" /\ depth # 1 THEN {sp + 1} ELSE {sp}
    [] OTHER -> {}

Captured(instr) == upvals # NULL /\ instr.wide + 1 \in DOMAIN closures[upvals].upvals

\* The chunk that a CALL of a value enters.
ChunkOf(value) == IF value.tag = "obj" THEN closures[value.n].cid ELSE value.n

Faulty ==
  \/ ~ Touched(Instr) \subseteq Slots
  \/ Instr.op \in {"get_upv", "set_upv"} /\ ~ Captured(Instr)
  \/ /\ Instr.op = "call"
     /\ stack[sp - Instr.wide].tag \in {"int", "obj"}
     /\ ChunkOf(stack[sp - Instr.wide]) \notin DOMAIN program

\* A caller is to go on.
Resuming == Alive /\ returned # Running /\ frames # <<>>

Handle(op) == Executing /\ Instr.op = op /\ ~ Faulty

\* What a handler leaves alone that neither calls nor returns.
StayInActivation ==
  UNCHANGED <<program, chunk_id, frames, bp, upvals, depth, returned, crashed,
              historyVars>>

Init ==
  /\ program \in Programs
  /\ chunk_id = Entry /\ ip = 1 /\ frames = <<>>
  /\ sp = 0 /\ bp = 0 /\ stack = [slot \in Slots |-> Nil]
  /\ upvals = NULL /\ closures = <<>>
  /\ depth = 1 /\ status = "pending" /\ trying_except = 0
  /\ dispatcher = "vm_dispatch" /\ returned = Running
  /\ crashed = FALSE
  /\ runs = 1 /\ leaked = 0 /\ wrapped = FALSE /\ outcomes = <<>>
-----------------------------------------------------------------------------
(***************************************************************************)
(* Values and jumps.                                                       *)
(***************************************************************************)
SameValues == UNCHANGED <<sp, stack, closures>>
SameStatus == UNCHANGED <<status, trying_except>>

Put(op, value) ==
  /\ Handle(op)
  /\ sp' = sp + 1
  /\ stack' = [stack EXCEPT ![sp + 1] = value]
  /\ SameStatus /\ Dispatch(Code, ip + 1)
  /\ StayInActivation /\ UNCHANGED closures

fn_put_none == Put("put_none", Nil)
fn_put_bool == Put("put_bool", Bool(Instr.flag % 2))
fn_put_k == Put("put_k", Integer(Instr.wide))   \* a constant is known by its index
fn_load_imm_gid == Put("load_imm_gid", Integer(Instr.wide))
fn_load_local == Put("load_local", stack[bp + Instr.wide])
fn_get_upv == Put("get_upv", closures[upvals].upvals[Instr.wide + 1])

\* The slots of the locals keep what was in them; the handler goes on through
\* vm_dispatch, whatever `dispatcher` says.
fn_reserve ==
  /\ Handle("reserve")
  /\ sp' = sp + Instr.wide
  /\ ip' = ip + 1
  /\ StayInActivation /\ SameStatus /\ UNCHANGED <<stack, closures, dispatcher>>

fn_store_local ==
  /\ Handle("store_local")
  /\ stack' = [stack EXCEPT ![bp + Instr.wide] = Top]
  /\ sp' = sp - 1
  /\ SameStatus /\ Dispatch(Code, ip + 1)
  /\ StayInActivation /\ UNCHANGED closures

fn_set_upv ==
  /\ Handle("set_upv")
  /\ closures' = [closures EXCEPT ![upvals].upvals[Instr.wide + 1] = Top]
  /\ sp' = sp - 1
  /\ SameStatus /\ Dispatch(Code, ip + 1)
  /\ StayInActivation /\ UNCHANGED stack

fn_pop ==
  /\ Handle("pop")
  /\ sp' = sp - Instr.flag
  /\ SameStatus /\ Dispatch(Code, ip + 1)
  /\ StayInActivation /\ UNCHANGED <<stack, closures>>

fn_nop ==
  /\ Handle("nop")
  /\ SameStatus /\ Dispatch(Code, ip + 1)
  /\ StayInActivation /\ SameValues

fn_jmp ==
  /\ Handle("jmp")
  /\ SameStatus
  /\ Dispatch(Code, IF Instr.flag # 0 THEN ip - Instr.wide ELSE ip + Instr.wide)
  /\ StayInActivation /\ SameValues

\* A truthy value is popped, a falsy one stays.
fn_jmp_false ==
  /\ Handle("jmp_false")
  /\ SameStatus
  /\ IF Truthy(Top)
     THEN sp' = sp - 1 /\ Dispatch(Code, ip + 1)
     ELSE sp' = sp /\ Dispatch(Code, ip + Instr.wide)
  /\ StayInActivation /\ UNCHANGED <<stack, closures>>

\* The value stays, unless it is an object: that is popped, and no jump made.
fn_jmp_if ==
  /\ Handle("jmp_if")
  /\ SameStatus
  /\ sp' = IF Top.tag = "obj" THEN sp - 1 ELSE sp
  /\ Dispatch(Code, IF Top.tag # "obj" /\ Truthy(Top) THEN ip + Instr.wide ELSE ip + 1)
  /\ StayInActivation /\ UNCHANGED <<stack, closures>>

\* fn_mk_closure and alloc_closure copy the captures off the stack.
fn_mk_closure ==
  /\ Handle("mk_closure")
  /\ LET base == sp - Instr.wide
     IN  /\ sp' = base
         /\ IF stack[base].tag = "int"
            THEN /\ closures' = Append(closures,
                      [cid |-> stack[base].n,
                       upvals |-> [n \in 1 .. Instr.wide |-> stack[base + n]]])
                 /\ stack' = [stack EXCEPT ![base] = Closure(Len(closures) + 1)]
                 /\ SameStatus /\ Dispatch(Code, ip + 1) /\ StayInActivation
            ELSE /\ status' = "err_bad_call" /\ returned' = "err_bad_call"
                 /\ leaked' = leaked + 1
                 /\ UNCHANGED <<program, codeVars, bp, stack, closureVars, depth,
                                trying_except, dispatcher, crashed, runs, wrapped, outcomes>>
-----------------------------------------------------------------------------
(***************************************************************************)
(* fn_call: the callee is a chunk id or a closure.  Nothing compares depth *)
(* with a limit.                                                           *)
(***************************************************************************)
\* Mutant: the CALL does not count.
DepthInCall_Same == depth

DepthInCall == (depth + 1) % DepthModulus

CalleeBp == sp - Instr.wide
Callee == stack[CalleeBp]

Activate(closure) ==
  /\ frames' = Append(frames, [chunk |-> chunk_id, ip |-> ip + 1, bp |-> bp,
                               callee_bp |-> CalleeBp, closure |-> closure])
  /\ chunk_id' = ChunkOf(Callee)
  /\ bp' = CalleeBp
  /\ depth' = DepthInCall
  /\ wrapped' = (wrapped \/ DepthInCall = 0)
  /\ UNCHANGED <<program, sp, stack, closures, status, trying_except,
                 returned, crashed, runs, leaked, outcomes>>

\* The first instruction of the chunk is reached through `dispatcher` ...
call_chunk ==
  /\ Handle("call") /\ Callee.tag = "int"
  /\ Activate(NULL) /\ Dispatch(program[Callee.n], 1) /\ UNCHANGED upvals

\* Mutant: the captures of the closure are not brought in.
call_closure_Forget ==
  /\ Handle("call") /\ Callee.tag = "obj"
  /\ Activate(Callee.n) /\ ip' = 1
  /\ UNCHANGED <<upvals, dispatcher>>

\* ... and that of a closure through vm_dispatch: closure_invoke_fn.
call_closure ==
  /\ Handle("call") /\ Callee.tag = "obj"
  /\ Activate(Callee.n) /\ ip' = 1
  /\ upvals' = Callee.n /\ UNCHANGED dispatcher

\* The handler returns, and leaves `status` as it was.
call_nothing ==
  /\ Handle("call") /\ Callee.tag \notin {"int", "obj"}
  /\ returned' = "err_bad_call"
  /\ leaked' = leaked + 1
  /\ UNCHANGED <<program, codeVars, slotVars, closureVars, depth, status,
                 trying_except, dispatcher, crashed, runs, wrapped, outcomes>>

\* Mutant: the result goes one slot too low.
ResultSlot_Low(frame) == frame.callee_bp - 1

\* The result goes where the callee was.
ResultSlot(frame) == frame.callee_bp

AfterCall(frame) ==
  /\ stack' = [stack EXCEPT ![ResultSlot(frame)] = Top]
  /\ sp' = frame.callee_bp
  /\ bp' = frame.bp
  /\ chunk_id' = frame.chunk
  /\ frames' = Front(frames)

(***************************************************************************)
(* The rest of fn_call: the result of the callee's handlers is ignored; at *)
(* depth 0 the caller's activation is over as well.                        *)
(***************************************************************************)
resume_after_chunk ==
  /\ Resuming /\ sp \in Slots
  /\ LET frame == Last(frames)
     IN  /\ frame.closure = NULL
         /\ AfterCall(frame)
         /\ UNCHANGED <<program, closureVars, depth, status, trying_except,
                        crashed, runs, wrapped, outcomes>>
         /\ \/ /\ depth = 0
               /\ returned' = status
               /\ leaked' = leaked + 1
               /\ UNCHANGED <<ip, dispatcher>>
            \/ /\ depth # 0
               /\ returned' = Running
               /\ Dispatch(program[frame.chunk], frame.ip)
               /\ UNCHANGED leaked

StatusAfterClosure == IF depth = 0 THEN status ELSE returned

\* The rest of closure_invoke_fn and of fn_call's first case, which goes on
\* whatever the depth.
resume_after_closure ==
  /\ Resuming /\ sp \in Slots
  /\ LET frame == Last(frames)
     IN  /\ frame.closure # NULL
         /\ AfterCall(frame)
         /\ upvals' = NULL
         /\ status' = StatusAfterClosure
         /\ returned' = Running
         /\ UNCHANGED trying_except /\ Dispatch(program[frame.chunk], frame.ip)
         /\ UNCHANGED <<program, closures, depth, crashed, historyVars>>

\* A native that pushes its result, as print does, and says `pending`.
fn_native_call ==
  /\ Handle("native_call")
  /\ sp' = sp + 1
  /\ stack' = [stack EXCEPT ![sp + 1] = Nil]
  /\ status' = "pending"
  /\ UNCHANGED trying_except /\ Dispatch(Code, ip + 1)
  /\ StayInActivation /\ UNCHANGED closures
-----------------------------------------------------------------------------
(***************************************************************************)
(* fn_ret.                                                                 *)
(***************************************************************************)
\* Mutant: the last RET reports success whatever happened.
FinalStatus_Ok == "ok"

FinalStatus == IF status = "pending" THEN "ok" ELSE status

\* Mutant: a RET does not count down.
DepthAfterRet_Same == depth

DepthAfterRet == (depth + DepthModulus - 1) % DepthModulus

fn_ret ==
  /\ Handle("ret")
  /\ depth' = DepthAfterRet
  /\ \/ /\ depth' < 1
        /\ status' = FinalStatus
        /\ stack' = [stack EXCEPT ![0] = Top]
        /\ sp' = 0 /\ bp' = 0
        /\ UNCHANGED dispatcher
     \/ /\ depth' >= 1 /\ status = "err_throw"
        /\ sp' = sp + 1
        /\ stack' = [stack EXCEPT ![sp + 1] = Nil]
        /\ dispatcher' = "vm_seek_catch"
        /\ UNCHANGED <<bp, status>>
     \/ /\ depth' >= 1 /\ status # "err_throw"
        /\ UNCHANGED <<slotVars, status, dispatcher>>
  /\ returned' = status'
  /\ UNCHANGED <<program, codeVars, closureVars, trying_except, crashed, historyVars>>

(***************************************************************************)
(* TRY, RAISE_ERR and CATCH_ERR.                                           *)
(***************************************************************************)
fn_try ==
  /\ Handle("try")
  /\ trying_except' = 1
  /\ UNCHANGED status /\ Dispatch(Code, ip + 1)
  /\ StayInActivation /\ SameValues

fn_raise_err ==
  /\ Handle("raise_err")
  /\ status' = "err_throw"
  /\ sp' = sp - 1
  /\ ip' = vm_locally_propagate_error(Code, ip, trying_except)
  /\ dispatcher' = "vm_dispatch"
  /\ StayInActivation /\ UNCHANGED <<stack, closures, trying_except>>

\* Mutant: the handler does not move on.
fn_catch_err_Again ==
  /\ Handle("catch_err")
  /\ status' = "pending" /\ trying_except' = 0 /\ dispatcher' = "vm_dispatch"
  /\ StayInActivation /\ SameValues /\ UNCHANGED ip

fn_catch_err ==
  /\ Handle("catch_err")
  /\ status' = "pending"
  /\ trying_except' = 0
  /\ dispatcher' = "vm_dispatch"
  /\ ip' = ip + 1
  /\ StayInActivation /\ SameValues

(***************************************************************************)
(* fn_abort_if, the code of ASSERT: the tested value is below the message. *)
(* An abort returns from the handler, but only from this activation's.     *)
(***************************************************************************)
Passes(value) == value.tag \in {"bool", "int"} /\ value.n # 0

fn_abort_if ==
  /\ Handle("abort_if")
  /\ \/ /\ Passes(stack[sp - 1])
        /\ sp' = sp - 2
        /\ SameStatus /\ Dispatch(Code, ip + 1)
        /\ StayInActivation
     \/ /\ ~ Passes(stack[sp - 1])
        /\ sp' = sp - 1
        /\ status' = "err_abort" /\ returned' = "err_abort"
        /\ leaked' = leaked + 1
        /\ UNCHANGED <<program, codeVars, bp, upvals, depth, trying_except,
                       dispatcher, crashed, runs, wrapped, outcomes>>
  /\ UNCHANGED <<stack, closures>>

\* What a bad access does to the process is not modelled any further.
BadAccess == (Executing /\ Faulty) \/ (Resuming /\ sp \notin Slots)

fault ==
  /\ BadAccess
  /\ crashed' = TRUE
  /\ UNCHANGED <<program, codeVars, slotVars, closureVars, statusVars, historyVars>>

(***************************************************************************)
(* tbasic_invoke without arguments, on the driver of an ended run:         *)
(* restart_vm, then vm_run, whose first dispatch is vm_dispatch.           *)
(***************************************************************************)
Denoted(value) == IF value.tag = "obj" THEN closures[value.n] ELSE value

Outcome == <<status, Denoted(IF status = "ok" THEN stack[0] ELSE Nil)>>

\* Mutant: restart_vm forgets the depth.
tbasic_invoke_KeepDepth ==
  /\ Ended /\ runs < MaxRuns
  /\ sp' = 0 /\ bp' = 0
  /\ status' = "pending"
  /\ chunk_id' = Entry /\ ip' = 1
  /\ returned' = Running
  /\ runs' = runs + 1 /\ leaked' = 0 /\ outcomes' = Append(outcomes, Outcome)
  /\ UNCHANGED <<program, frames, stack, closureVars, depth, trying_except, dispatcher, crashed,
                 wrapped>>

tbasic_invoke ==
  /\ Ended /\ runs < MaxRuns
  /\ sp' = 0 /\ bp' = 0
  /\ depth' = 1 /\ status' = "pending"
  /\ chunk_id' = Entry /\ ip' = 1
  /\ returned' = Running
  /\ runs' = runs + 1 /\ leaked' = 0 /\ outcomes' = Append(outcomes, Outcome)
  /\ UNCHANGED <<program, frames, stack, closureVars, trying_except, dispatcher, crashed,
                 wrapped>>

ValueStep ==
  \/ fn_put_none \/ fn_put_bool \/ fn_put_k \/ fn_load_imm_gid \/ fn_load_local
  \/ fn_get_upv \/ fn_reserve \/ fn_store_local \/ fn_set_upv
  \/ fn_pop \/ fn_nop \/ fn_jmp \/ fn_jmp_false \/ fn_jmp_if \/ fn_mk_closure

CallStep ==
  \/ call_chunk \/ call_closure \/ call_nothing
  \/ resume_after_chunk \/ resume_after_closure \/ fn_native_call \/ fn_ret

ExceptionStep == fn_try \/ fn_raise_err \/ fn_catch_err \/ fn_abort_if

VMStep == ValueStep \/ CallStep \/ ExceptionStep \/ fault

Next == VMStep \/ tbasic_invoke

Spec == Init /\ [][Next]_vars

\* The VM is one thread that goes on executing; a host need not call again.
FairSpec == Spec /\ WF_vars(VMStep)
-----------------------------------------------------------------------------
(***************************************************************************)
(* Properties.                                                             *)
(***************************************************************************)
VMStatuses == {"ok", "pending", "err_bad_op", "err_bad_call", "err_abort", "err_throw"}

\* An activation that ends at depth 0 leaves its callee's instruction behind,
\* and no handler will be called with it.
VMTypeOK ==
  /\ chunk_id \in DOMAIN program /\ (returned = Running => ip \in DOMAIN Code)
  /\ \A frame \in ToSet(frames) :
       /\ frame.chunk \in DOMAIN program /\ frame.ip \in DOMAIN program[frame.chunk]
       /\ {frame.bp, frame.callee_bp} \subseteq Slots
       /\ frame.closure \in 0 .. Len(closures)
  /\ sp \in Int /\ bp \in Slots
  /\ DOMAIN stack = Slots
  /\ upvals \in 0 .. Len(closures)
  /\ depth \in 0 .. DepthModulus - 1
  /\ status \in VMStatuses /\ returned \in VMStatuses \cup {Running}
  /\ trying_except \in {0, 1}
  /\ dispatcher \in {"vm_dispatch", "vm_seek_catch"}
  /\ crashed \in BOOLEAN /\ runs \in 1 .. MaxRuns /\ leaked \in Nat /\ wrapped \in BOOLEAN

(***************************************************************************)
(* Which CATCH an instruction belongs to, read off the code: a TRY's CATCH *)
(* balances it, and its body is what lies between.                         *)
(***************************************************************************)
CatchOf(code, try) ==
  CHOOSE pos \in try .. Len(code) :
    /\ code[pos].op = "catch_err"
    /\ CountOf("try", code, try, pos) = CountOf("catch_err", code, try, pos)
    /\ \A before \in try .. pos - 1 :
         CountOf("try", code, try, before) # CountOf("catch_err", code, try, before)

TriesAround(code, pos) ==
  {try \in 1 .. pos - 1 : code[try].op = "try" /\ pos < CatchOf(code, try)}

\* Where an exception at pos must go on: the CATCH of the innermost TRY around
\* it, or the last RET of the chunk.
TargetOf(code, pos) ==
  IF TriesAround(code, pos) = {} THEN Len(code)
  ELSE CatchOf(code, CHOOSE try \in TriesAround(code, pos) :
                       \A other \in TriesAround(code, pos) : other <= try)

(***************************************************************************)
(* What trying_except, one bit for the whole VM, can cope with: no TRY in  *)
(* the body of a TRY; calls in the body of a TRY only when nobody but the  *)
(* main chunk catches; and outside of TRY bodies nothing that may throw    *)
(* ahead of a TRY.                                                         *)
(***************************************************************************)
Disciplined ==
  \A chunk \in DOMAIN program : \A pos \in DOMAIN program[chunk] :
    LET code == program[chunk]
        guarded == TriesAround(code, pos) # {}
        op == code[pos].op
    IN  /\ guarded => op # "try"
        /\ guarded /\ op = "call" =>
             \A other \in DOMAIN program \ {Entry} :
               CountOf("try", program[other], 1, Len(program[other])) = 0
        /\ ~ guarded /\ op \in {"raise_err", "call"} =>
             CountOf("try", code, pos, Len(code)) = 0

\* An exception raised here, or by the callee that just returned, goes on at
\* the place its TRYs say (fn_raise_err, vm_seek_catch).
RaisesLand ==
  Handle("raise_err") => ip' = TargetOf(Code, ip)

CallersResume ==
  /\ returned # Running /\ returned' = Running /\ frames # <<>>
  /\ dispatcher = "vm_seek_catch"
  => LET frame == Last(frames)
     IN  ip' = TargetOf(program[frame.chunk], frame.ip)

\* In a disciplined program every exception is caught by the innermost TRY
\* around the place where it was raised or came out of a call.
InnermostCatch == [][Disciplined => RaisesLand /\ CallersResume]_vars

\* docs/README.md:80 asks that no exception in a TRY be "falsely uncaught": a
\* THROW in the body of a TRY lands on the CATCH of the innermost one.
ThrowsAreCaught == [][TriesAround(Code, ip) # {} => RaisesLand]_vars

\* Once raised, an exception stays the status of the VM through every return
\* until a CATCH is executed or the host starts over, unless the counter has
\* come round: at a depth of 0 the caller of a closure goes on all the same.
NoExceptionLost ==
  [][status = "err_throw" /\ ~ wrapped =>
       status' = "err_throw" \/ Handle("catch_err") \/ runs' # runs]_vars

(***************************************************************************)
(* No AND and no OR: their POP (compiler.c:1127, 1155) follows a jump that *)
(* may have popped the left side already, JMP_FALSE a true one (vm.c:813), *)
(* JMP_IF an object (vm.c:840).  Each time, the stack is one value short.  *)
(***************************************************************************)
WithoutLogic ==
  \A chunk \in DOMAIN program : \A pos \in DOMAIN program[chunk] :
    program[chunk][pos].op \in {"jmp_false", "jmp_if"} => program[chunk][pos + 1].op # "pop"

\* In a program without AND and OR, and until the counter comes round, a function
\* does not change the slots of its callers: only its result slot, the one that
\* held the callee, and slots above it.  With a value popped twice it does, and at
\* a wrapped depth the RET of an inner activation writes slot 0 (vm.c:921).
CallersSlotsStay ==
  [][WithoutLogic /\ ~ wrapped =>
       \A slot \in Slots : slot < bp => stack'[slot] = stack[slot]]_vars

\* vm.c:877, "use the native stack to track recursion": the status is ok only
\* when the main chunk has executed a RET, unless the counter has come round.
OkMeansMainReturned ==
  status = "ok" /\ ~ wrapped => returned = "ok" /\ frames = <<>>

\* The depth counter is the number of activations, modulo its width: those on
\* the C stack, the one executing, and those that ended without a RET.
DepthCounts ==
  depth = (Len(frames) + leaked + (IF returned = Running THEN 1 ELSE 0)) % DepthModulus

\* A captured value is read and written in the captures of the closure that
\* is executing.
CapturesAreMine ==
  Executing /\ Instr.op \in {"get_upv", "set_upv"} =>
    frames # <<>> /\ upvals = Last(frames).closure

\* True of the programs whose closures call nothing.
LeafCapturesAreMine ==
  (\A chunk \in DOMAIN program : \A pos, other \in DOMAIN program[chunk] :
     program[chunk][pos].op \in {"get_upv", "set_upv"} => program[chunk][other].op # "call")
  => CapturesAreMine

\* A program without input ends the same way whenever it is invoked.
SameOutcome == Ended /\ outcomes # <<>> => Outcome = Head(outcomes)

\* tb_api.h:222, "Invokes the TBasic interpreter in a reusable manner": true of
\* disciplined programs without ASSERT that do not call too deep.
DisciplinedSameOutcome ==
  ~ wrapped /\ Disciplined /\ (\A chunk \in DOMAIN program :
    CountOf("abort_if", program[chunk], 1, Len(program[chunk])) = 0) => SameOutcome

\* compiler.c:1127, "our VM's single result value invariant": in a chunk that
\* only initialises locals, a STORE_LOCAL finds one value above them.
OneResultValue ==
  Executing /\ Instr.op = "store_local" => sp = bp + Code[1].wide + 1

\* Every run ends, or the process does: no handler keeps the VM where it is.
RunsEnd == \A n \in 1 .. MaxRuns : runs = n ~> (Ended \/ crashed)
=============================================================================
