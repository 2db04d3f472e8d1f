--------------------------- MODULE VMCallsProofs ---------------------------
(***************************************************************************)
(* Proofs about VMCalls, for every set of programs, every width of the     *)
(* depth counter and every size of the stack.                              *)
(***************************************************************************)
EXTENDS VMCalls, SequenceTheorems, Recursion

\* A quotient and a remainder are determined by the number they make up.
LEMMA QuotientUnique ==
  ASSUME NEW m \in Nat, m > 0, NEW p \in Int, NEW q \in Int,
         NEW r \in 0 .. m - 1, NEW s \in 0 .. m - 1, m * p + r = m * q + s
  PROVE  p = q /\ r = s
<1>1. m * (p - q) = s - r  OBVIOUS
<1>2. s - r < m /\ s - r > -m OBVIOUS
<1>3. CASE p - q >= 1
  <2>1. m * (p - q) >= m BY <1>3
  <2> QED BY <2>1, <1>1, <1>2
<1>4. CASE p - q <= -1
  <2>1. m * (p - q) <= -m BY <1>4
  <2> QED BY <2>1, <1>1, <1>2
<1>5. CASE p = q BY <1>5
<1> QED BY <1>3, <1>4, <1>5

\* What div and mod promise.
LEMMA QuotientRemainder ==
  ASSUME NEW m \in Nat, m > 0, NEW a \in Int
  PROVE  a \div m \in Int /\ a % m \in 0 .. m - 1 /\ a = m * (a \div m) + (a % m)
OBVIOUS

\* To know a remainder it is enough to exhibit the quotient.
LEMMA RemainderIs ==
  ASSUME NEW m \in Nat, m > 0, NEW a \in Int, NEW q \in Int, NEW r \in 0 .. m - 1,
         a = m * q + r
  PROVE  a % m = r
BY QuotientRemainder, QuotientUnique

\* A counter of width m counts up modulo m ...
LEMMA CountUp ==
  ASSUME NEW m \in Nat, m > 1, NEW a \in Int
  PROVE  ((a % m) + 1) % m = (a + 1) % m
<1>1. PICK q \in Int, r \in 0 .. m - 1 : a = m * q + r /\ a % m = r
  BY QuotientRemainder
<1>2. CASE r + 1 < m
  <2>1. a + 1 = m * q + (r + 1) /\ r + 1 = m * 0 + (r + 1) BY <1>1
  <2>2. r + 1 \in 0 .. m - 1 BY <1>2
  <2>3. (a + 1) % m = r + 1
    <3> DEFINE b == a + 1
               t == r + 1
    <3>1. b \in Int /\ t \in 0 .. m - 1 /\ b = m * q + t BY <1>1, <2>1, <2>2
    <3> HIDE DEF b, t
    <3>2. b % m = t BY <3>1, RemainderIs
    <3> QED BY <3>2 DEF b, t
  <2>4. (r + 1) % m = r + 1 BY <2>1, <2>2, RemainderIs
  <2> QED BY <1>1, <2>3, <2>4
<1>3. CASE r + 1 = m
  <2>1. a + 1 = m * (q + 1) + 0 /\ r + 1 = m * 1 + 0 BY <1>1, <1>3
  <2>2. 0 \in 0 .. m - 1 OBVIOUS
  <2>3. (a + 1) % m = 0
    <3> DEFINE b == a + 1
               t == 0
    <3>1. b \in Int /\ t \in 0 .. m - 1 /\ b = m * (q + 1) + t BY <1>1, <2>1, <2>2
    <3> HIDE DEF b, t
    <3>2. b % m = t BY <3>1, RemainderIs
    <3> QED BY <3>2 DEF b, t
  <2>4. (r + 1) % m = 0 BY <2>1, <2>2, RemainderIs
  <2> QED BY <1>1, <2>3, <2>4
<1> QED BY <1>2, <1>3

\* ... and down: m - 1 is what -1 is in an unsigned type.
LEMMA CountDown ==
  ASSUME NEW m \in Nat, m > 1, NEW a \in Int
  PROVE  ((a % m) + m - 1) % m = (a - 1) % m
<1>1. PICK q \in Int, r \in 0 .. m - 1 : a = m * q + r /\ a % m = r
  BY QuotientRemainder
<1>2. CASE r > 0
  <2>1. a - 1 = m * q + (r - 1) /\ r + m - 1 = m * 1 + (r - 1) BY <1>1
  <2>2. r - 1 \in 0 .. m - 1 BY <1>2
  <2>3. (a - 1) % m = r - 1
    <3> DEFINE b == a - 1
               t == r - 1
    <3>1. b \in Int /\ t \in 0 .. m - 1 /\ b = m * q + t BY <1>1, <2>1, <2>2
    <3> HIDE DEF b, t
    <3>2. b % m = t BY <3>1, RemainderIs
    <3> QED BY <3>2 DEF b, t
  <2>4. (r + m - 1) % m = r - 1 BY <2>1, <2>2, RemainderIs
  <2> QED BY <1>1, <2>3, <2>4
<1>3. CASE r = 0
  <2>1. a - 1 = m * (q - 1) + (m - 1) /\ r + m - 1 = m * 0 + (m - 1) BY <1>1, <1>3
  <2>2. m - 1 \in 0 .. m - 1 OBVIOUS
  <2>3. (a - 1) % m = m - 1
    <3> DEFINE b == a - 1
               t == m - 1
    <3>1. b \in Int /\ t \in 0 .. m - 1 /\ b = m * (q - 1) + t BY <1>1, <2>1, <2>2
    <3> HIDE DEF b, t
    <3>2. b % m = t BY <3>1, RemainderIs
    <3> QED BY <3>2 DEF b, t
  <2>4. (r + m - 1) % m = m - 1 BY <2>1, <2>2, RemainderIs
  <2> QED BY <1>1, <2>3, <2>4
<1> QED BY <1>2, <1>3

(***************************************************************************)
(* The depth counter.                                                      *)
(***************************************************************************)
Activations == Len(frames) + leaked + (IF returned = Running THEN 1 ELSE 0)

DepthInv ==
  /\ \E S : frames \in Seq(S)
  /\ leaked \in Nat
  /\ depth = Activations % DepthModulus
  /\ status # Running

\* The strings that handlers return are not the mark of a running handler.
LEMMA StatusesAreNotRunning ==
  Running \notin {"ok", "pending", "err_bad_call", "err_abort", "err_throw"}
BY DEF Running

\* The first activation is the main chunk's.
LEMMA DepthInit == Init => DepthInv
<1> SUFFICES ASSUME Init PROVE DepthInv
  OBVIOUS
<1>1. frames \in Seq({})
  BY DEF Init
<1>2. Len(frames) = 0 /\ Activations = 1
  BY DEF Init, Activations
<1>3. 1 = DepthModulus * 0 + 1 /\ 1 \in 0 .. DepthModulus - 1
  BY DepthAssumption
<1>4. 1 % DepthModulus = 1
  BY <1>3, DepthAssumption, RemainderIs
<1> QED
  BY <1>1, <1>2, <1>4, StatusesAreNotRunning DEF Init, DepthInv

\* A handler that stays in its activation does not count.
LEMMA StayingKeepsDepth ==
  ASSUME DepthInv, UNCHANGED <<frames, depth, returned, leaked>>, status' # Running
  PROVE  DepthInv'
BY DEF DepthInv, Activations

\* A handler that returns without a RET leaves its activation counted.
LEMMA LeakingKeepsDepth ==
  ASSUME DepthInv, UNCHANGED <<frames, depth>>,
         returned = Running, returned' # Running, leaked' = leaked + 1,
         status' # Running
  PROVE  DepthInv'
<1>1. PICK S : frames \in Seq(S)
  BY DEF DepthInv
<1>2. Len(frames) \in Nat
  BY <1>1
<1>3. Activations' = Activations /\ leaked' \in Nat
  BY <1>2 DEF Activations, DepthInv
<1> QED
  BY <1>1, <1>3 DEF DepthInv

\* A call adds an activation and counts up.
LEMMA CallKeepsDepth ==
  ASSUME DepthInv, NEW closure, Activate(closure)
  PROVE  DepthInv'
<1>1. PICK S : frames \in Seq(S)
  BY DEF DepthInv
<1>2. PICK frame : frames' = Append(frames, frame)
  BY DEF Activate
<1>3. frames \in Seq(S \cup {frame})
  BY <1>1
<1>4. frames' \in Seq(S \cup {frame}) /\ Len(frames') = Len(frames) + 1 /\ Len(frames) \in Nat
  BY <1>2, <1>3
<1>5. leaked' = leaked /\ returned' = returned /\ status' = status
  BY DEF Activate, historyVars
<1>6. Activations \in Int /\ Activations' = Activations + 1
  BY <1>4, <1>5 DEF Activations, DepthInv
<1>7. depth' = (Activations + 1) % DepthModulus
  BY <1>6, CountUp, DepthAssumption DEF Activate, DepthInCall, DepthInv
<1> QED
  BY <1>4, <1>5, <1>6, <1>7 DEF DepthInv

\* A RET takes its own activation off, and counts down.
LEMMA RetKeepsDepth ==
  ASSUME DepthInv, fn_ret
  PROVE  DepthInv'
<1>0. status' # Running /\ returned' # Running
  BY StatusesAreNotRunning DEF fn_ret, FinalStatus, DepthInv
<1>1. PICK S : frames \in Seq(S)
  BY DEF DepthInv
<1>2. returned = Running /\ frames' = frames /\ leaked' = leaked
  BY DEF fn_ret, Handle, Executing, codeVars, historyVars
<1>3. Len(frames) \in Nat
  BY <1>1
<1>4. Activations \in Int /\ Activations' = Activations - 1
  BY <1>0, <1>2, <1>3 DEF Activations, DepthInv
<1>5. depth' = ((Activations % DepthModulus) + DepthModulus - 1) % DepthModulus
  BY DEF fn_ret, DepthAfterRet, DepthInv
<1>6. depth' = (Activations - 1) % DepthModulus
  BY <1>4, <1>5, CountDown, DepthAssumption
<1> QED
  BY <1>0, <1>1, <1>2, <1>4, <1>6 DEF DepthInv

\* The frame of the call goes, and what was returned becomes the running
\* activation again; at depth 0 after fn_call that one returns at once.
LEMMA ResumeKeepsDepth ==
  ASSUME DepthInv, resume_after_chunk \/ resume_after_closure
  PROVE  DepthInv'
<1>1. PICK S : frames \in Seq(S)
  BY DEF DepthInv
<1>2. returned # Running /\ frames # <<>> /\ frames' = Front(frames) /\ depth' = depth
  BY DEF resume_after_chunk, resume_after_closure, AfterCall, Resuming
<1>3. /\ Len(frames) \in Nat \ {0}
      /\ frames' \in Seq(S) /\ Len(frames') = Len(frames) - 1
  <2>1. Len(frames) \in Nat \ {0} /\ \A pos \in 1 .. Len(frames) : frames[pos] \in S
    BY <1>1, <1>2
  <2>2. PICK n \in Nat : n = Len(frames) - 1
    BY <2>1
  <2>3. frames' = SubSeq(frames, 1, n) /\ \A pos \in 1 .. n : frames[pos] \in S
    BY <1>2, <2>1, <2>2 DEF Front
  <2>4. frames' \in Seq(S) /\ Len(frames') = IF 1 <= n THEN n - 1 + 1 ELSE 0
    BY <2>3, SubSeqProperties
  <2> QED
    BY <2>1, <2>2, <2>4
<1>4. status' # Running
  BY DEF resume_after_chunk, resume_after_closure, StatusAfterClosure, DepthInv, Resuming
<1>5. \/ returned' = Running /\ leaked' = leaked
      \/ returned' # Running /\ leaked' = leaked + 1
  BY DEF resume_after_chunk, resume_after_closure, historyVars, DepthInv
<1>6. leaked' \in Nat /\ Activations' = Activations
  BY <1>2, <1>3, <1>5 DEF Activations, DepthInv
<1> QED
  BY <1>2, <1>3, <1>4, <1>6 DEF DepthInv

\* A new run starts with one activation.
LEMMA InvokeKeepsDepth ==
  ASSUME DepthInv, tbasic_invoke
  PROVE  DepthInv'
<1>1. frames = <<>> /\ frames' = <<>> /\ leaked' = 0 /\ returned' = Running /\ depth' = 1
  BY DEF tbasic_invoke, Ended
<1>2. frames' \in Seq({}) /\ Activations' = 1
  BY <1>1 DEF Activations
<1>3. 1 = DepthModulus * 0 + 1 /\ 1 \in 0 .. DepthModulus - 1
  BY DepthAssumption
<1>4. 1 % DepthModulus = 1
  BY <1>3, DepthAssumption, RemainderIs
<1>5. status' # Running
  BY StatusesAreNotRunning DEF tbasic_invoke
<1> QED
  BY <1>1, <1>2, <1>4, <1>5 DEF DepthInv

\* The handlers that only move values and jump.
LEMMA ValueStepKeepsDepth ==
  ASSUME DepthInv, ValueStep
  PROVE  DepthInv'
<1>1. CASE fn_mk_closure
  <2>1. UNCHANGED <<frames, depth>> /\ returned = Running
    BY <1>1 DEF fn_mk_closure, StayInActivation, Handle, Executing, codeVars
  <2>2. \/ UNCHANGED <<returned, leaked, status>>
        \/ returned' = "err_bad_call" /\ leaked' = leaked + 1 /\ status' = "err_bad_call"
    BY <1>1 DEF fn_mk_closure, StayInActivation, SameStatus, historyVars
  <2> QED
    BY <2>1, <2>2, StayingKeepsDepth, LeakingKeepsDepth, StatusesAreNotRunning DEF DepthInv
<1>2. CASE ~ fn_mk_closure
  <2>1. UNCHANGED <<frames, depth, returned, leaked, status>>
    BY <1>2 DEF ValueStep, fn_put_none, fn_put_bool, fn_put_k, fn_load_imm_gid,
       fn_load_local, fn_get_upv, fn_reserve, fn_store_local, fn_set_upv, fn_pop,
       fn_nop, fn_jmp, fn_jmp_false, fn_jmp_if, Put, StayInActivation, SameStatus,
       historyVars
  <2> QED
    BY <2>1, StayingKeepsDepth DEF DepthInv
<1> QED
  BY <1>1, <1>2

LEMMA CallStepKeepsDepth ==
  ASSUME DepthInv, CallStep
  PROVE  DepthInv'
<1>1. CASE call_chunk \/ call_closure
  BY <1>1, CallKeepsDepth DEF call_chunk, call_closure
<1>2. CASE call_nothing
  <2>1. /\ UNCHANGED <<frames, depth, status>> /\ returned = Running
        /\ returned' = "err_bad_call" /\ leaked' = leaked + 1
    BY <1>2 DEF call_nothing, Handle, Executing, codeVars
  <2> QED
    BY <2>1, LeakingKeepsDepth, StatusesAreNotRunning DEF DepthInv
<1>3. CASE resume_after_chunk \/ resume_after_closure
  BY <1>3, ResumeKeepsDepth
<1>4. CASE fn_native_call
  <2>1. UNCHANGED <<frames, depth, returned, leaked>> /\ status' = "pending"
    BY <1>4 DEF fn_native_call, StayInActivation, historyVars
  <2> QED
    BY <2>1, StayingKeepsDepth, StatusesAreNotRunning
<1>5. CASE fn_ret
  BY <1>5, RetKeepsDepth
<1> QED
  BY <1>1, <1>2, <1>3, <1>4, <1>5 DEF CallStep

LEMMA ExceptionStepKeepsDepth ==
  ASSUME DepthInv, ExceptionStep
  PROVE  DepthInv'
<1>1. CASE fn_try \/ fn_raise_err \/ fn_catch_err
  <2>1. /\ UNCHANGED <<frames, depth, returned, leaked>>
        /\ status' \in {status, "err_throw", "pending"}
    BY <1>1 DEF fn_try, fn_raise_err, fn_catch_err, StayInActivation, historyVars
  <2> QED
    BY <2>1, StayingKeepsDepth, StatusesAreNotRunning DEF DepthInv
<1>2. CASE fn_abort_if
  <2>1. UNCHANGED <<frames, depth>> /\ returned = Running
    BY <1>2 DEF fn_abort_if, StayInActivation, Handle, Executing, codeVars
  <2>2. \/ UNCHANGED <<returned, leaked, status>>
        \/ returned' = "err_abort" /\ leaked' = leaked + 1 /\ status' = "err_abort"
    BY <1>2 DEF fn_abort_if, StayInActivation, SameStatus, historyVars
  <2> QED
    BY <2>1, <2>2, StayingKeepsDepth, LeakingKeepsDepth, StatusesAreNotRunning DEF DepthInv
<1> QED
  BY <1>1, <1>2 DEF ExceptionStep

LEMMA StepKeepsDepth == DepthInv /\ [Next]_vars => DepthInv'
<1> SUFFICES ASSUME DepthInv, [Next]_vars PROVE DepthInv'
  OBVIOUS
<1>1. CASE fault \/ UNCHANGED vars
  <2>1. UNCHANGED <<frames, depth, returned, leaked, status>>
    BY <1>1 DEF fault, vars, codeVars, statusVars, historyVars
  <2> QED
    BY <2>1, StayingKeepsDepth DEF DepthInv
<1> QED
  BY <1>1, ValueStepKeepsDepth, CallStepKeepsDepth, ExceptionStepKeepsDepth,
     InvokeKeepsDepth DEF Next, VMStep

\* However calls, returns, exceptions, aborts and invocations follow each other,
\* and however often the counter wraps around: VMState.depth is the number of
\* activations on the C stack, the one executing and the abandoned ones,
\* modulo 256.
THEOREM DepthIsCounted == Spec => []DepthCounts
<1>1. DepthInv => DepthCounts
  BY DEF DepthInv, DepthCounts, Activations
<1> QED
  BY <1>1, DepthInit, StepKeepsDepth, PTL DEF Spec

-----------------------------------------------------------------------------
(***************************************************************************)
(* Where the VM is in the code, and what its slots hold.                   *)
(***************************************************************************)
Values == [tag : {"nil", "bool", "int", "obj"}, n : Int]
Closures == [cid : Int, upvals : Seq(Values)]

WellTagged(value) == value.tag = "obj" => value.n \in 1 .. Len(closures)

DataInv ==
  /\ stack \in [Slots -> Values] /\ sp \in Int /\ bp \in Slots
  /\ closures \in Seq(Closures) /\ upvals \in 0 .. Len(closures)
  /\ \A slot \in Slots : WellTagged(stack[slot])
  /\ \A n \in 1 .. Len(closures) : \A m \in 1 .. Len(closures[n].upvals) :
       WellTagged(closures[n].upvals[m])

FrameOK(frame) ==
  /\ frame.chunk \in DOMAIN program
  /\ frame.ip \in 2 .. Len(program[frame.chunk])
  /\ program[frame.chunk][frame.ip - 1].op = "call"
  /\ frame.bp \in Slots /\ frame.callee_bp \in Slots
  /\ frame.closure \in 0 .. Len(closures)

CodeInv ==
  /\ program \in Programs
  /\ chunk_id \in DOMAIN program /\ (returned = Running => ip \in 1 .. Len(Code))
  /\ \A n \in 1 .. Len(frames) : FrameOK(frames[n])
  /\ dispatcher \in {"vm_dispatch", "vm_seek_catch"}
  /\ Executing /\ dispatcher = "vm_seek_catch" => chunk_id = Entry /\ ip \in {1, 2}

ExactDepth == ~ wrapped => depth = Activations

OkInv ==
  ~ wrapped /\ "ok" \in {status, returned} => frames = <<>> /\ returned = "ok"

ThrowInv ==
  ~ wrapped =>
    /\ Executing /\ status = "err_throw" => Instr.op \in {"catch_err", "ret"}
    /\ Resuming /\ "err_throw" \in {status, returned} =>
         status = returned /\ dispatcher = "vm_seek_catch"

LEMMA InstrTyped ==
  ASSUME CodeInv, Executing
  PROVE  /\ Code = program[chunk_id] /\ WellFormed(Code) /\ Len(Code) \in Nat
         /\ Instr = Code[ip] /\ Instr \in Instructions
         /\ ip \in 1 .. Len(Code)
BY CodeAssumption DEF CodeInv, Code, Instr, WellFormed, Executing

LEMMA TouchedIs ==
  ASSUME NEW instr
  PROVE  /\ instr.op \in {"put_none", "put_bool", "put_k", "load_imm_gid", "get_upv", "native_call"}
              => Touched(instr) = {sp + 1}
         /\ instr.op \in {"jmp_false", "jmp_if", "set_upv", "raise_err"} => Touched(instr) = {sp}
         /\ instr.op = "load_local" => Touched(instr) = {sp + 1, bp + instr.wide}
         /\ instr.op = "store_local" => Touched(instr) = {sp, bp + instr.wide}
         /\ instr.op = "abort_if" => Touched(instr) = {sp - 1, sp}
         /\ instr.op = "mk_closure" => Touched(instr) = sp - instr.wide .. sp
         /\ instr.op = "call" => Touched(instr) = {sp - instr.wide}
         /\ instr.op = "ret" =>
              Touched(instr) = IF status = "err_throw" /\ depth # 1 THEN {sp + 1} ELSE {sp}
BY DEF Touched

\* The search for a CATCH ends in a chunk whose last RET is marked.
LEMMA SearchLands ==
  ASSUME NEW code, WellFormed(code), Marked(code), NEW from \in 1 .. Len(code), NEW trying
  PROVE  /\ vm_locally_propagate_error(code, from, trying) \in from .. Len(code)
         /\ code[vm_locally_propagate_error(code, from, trying)].op \in {"catch_err", "ret"}
<1> DEFINE Stop(pos) == StopsSearch(code, from, trying, pos)
           stops == {pos \in from .. Len(code) : Stop(pos)}
           Lands(pos) == Stop(pos) /\ \A before \in from .. pos - 1 : ~ Stop(before)
<1>0. Len(code) \in Nat
  BY DEF WellFormed
<1>1. Stop(Len(code))
  BY DEF StopsSearch, WellFormed, Marked
<1>2. stops \in SUBSET Nat /\ stops # {}
  <2>1. Len(code) \in stops
    BY <1>0, <1>1
  <2> QED BY <1>0, <2>1
<1>3. PICK pos \in stops : \A other \in stops : pos <= other
  <2> HIDE DEF stops
  <2> QED BY <1>2, LeastNumber
<1>4. \E p \in from .. Len(code) : Lands(p)
  <2>1. pos \in from .. Len(code) /\ Stop(pos)
    BY <1>3
  <2>2. ASSUME NEW before \in from .. pos - 1 PROVE ~ Stop(before)
    <3>1. before \in from .. Len(code) /\ before < pos
      BY <1>0, <2>1
    <3>2. before \notin stops
      BY <1>0, <1>3, <3>1
    <3> QED BY <3>1, <3>2
  <2> QED BY <2>1, <2>2
<1>5. vm_locally_propagate_error(code, from, trying) = CHOOSE p \in from .. Len(code) : Lands(p)
  BY DEF vm_locally_propagate_error
<1> HIDE DEF Lands
<1>6. PICK p \in from .. Len(code) : p = vm_locally_propagate_error(code, from, trying) /\ Lands(p)
  BY <1>4, <1>5
<1> QED BY <1>6 DEF Lands, StopsSearch

\* A handler goes on in its chunk, or after a search in it.
LEMMA DispatchLands ==
  ASSUME NEW code, WellFormed(code), NEW target \in 1 .. Len(code), Dispatch(code, target),
         dispatcher = "vm_seek_catch" => Marked(code)
  PROVE  /\ ip' \in 1 .. Len(code) /\ dispatcher' = "vm_dispatch"
         /\ dispatcher = "vm_seek_catch" => code[ip'].op \in {"catch_err", "ret"}
         /\ dispatcher # "vm_seek_catch" => ip' = target
<1>1. CASE dispatcher = "vm_seek_catch"
  <2>1. ip' = vm_locally_propagate_error(code, target, trying_except') /\ dispatcher' = "vm_dispatch"
    BY <1>1 DEF Dispatch
  <2>2. ip' \in target .. Len(code) /\ code[ip'].op \in {"catch_err", "ret"}
    BY <1>1, <2>1, SearchLands
  <2>3. Len(code) \in Nat
    BY DEF WellFormed
  <2> QED BY <1>1, <2>1, <2>2, <2>3
<1>2. CASE dispatcher # "vm_seek_catch"
  BY <1>2 DEF Dispatch
<1> QED BY <1>1, <1>2

\* A handler of an instruction that does not leave its activation.
StayStep ==
  \/ fn_put_none \/ fn_put_bool \/ fn_put_k \/ fn_load_imm_gid \/ fn_load_local
  \/ fn_get_upv \/ fn_reserve \/ fn_store_local \/ fn_set_upv
  \/ fn_pop \/ fn_nop \/ fn_jmp \/ fn_jmp_false \/ fn_jmp_if \/ fn_native_call
  \/ fn_mk_closure /\ returned' = Running
  \/ fn_try \/ fn_raise_err \/ fn_catch_err
  \/ fn_abort_if /\ returned' = Running

\* A handler that returns an error of its own.
FailStep ==
  \/ fn_mk_closure /\ returned' # Running
  \/ call_nothing
  \/ fn_abort_if /\ returned' # Running

\* Only a RET ends a chunk.
LEMMA NotTheLast ==
  ASSUME CodeInv, Executing, Instr.op # "ret"
  PROVE  ip + 1 \in 1 .. Len(Code)
<1>1. Code[Len(Code)].op = "ret" /\ Len(Code) \in Nat
  BY InstrTyped DEF WellFormed
<1>2. ip # Len(Code) /\ ip \in 1 .. Len(Code)
  BY <1>1, InstrTyped DEF CodeInv
<1> QED BY <1>1, <1>2

LEMMA JumpsLand ==
  ASSUME CodeInv, Executing
  PROVE  /\ Instr.op = "jmp" =>
              (IF Instr.flag # 0 THEN ip - Instr.wide ELSE ip + Instr.wide) \in 1 .. Len(Code)
         /\ Instr.op \in {"jmp_false", "jmp_if"} => ip + Instr.wide \in 1 .. Len(Code)
         /\ Instr.op \in {"call", "raise_err"} => Marked(Code)
<1>1. /\ WellFormed(Code) /\ ip \in 1 .. Len(Code) /\ Len(Code) \in Nat
      /\ Instr = Code[ip] /\ Instr.wide \in Nat
  BY InstrTyped DEF CodeInv, Instructions
<1> QED BY <1>1 DEF WellFormed

\* When `dispatcher` is to search for a CATCH, a run has just begun again.
LEMMA SeekingAtStart ==
  ASSUME CodeInv, Executing, dispatcher = "vm_seek_catch"
  PROVE  Marked(Code) /\ Instr.op # "call" /\ (Instr.op = "reserve" => ip = 1 /\ chunk_id = Entry)
<1>1. chunk_id = Entry /\ ip \in {1, 2} /\ Code = program[Entry] /\ Instr = Code[ip]
  BY InstrTyped DEF CodeInv
<1>2. Marked(Code) /\ Code[1].op = "reserve" /\ Code[2].op \notin {"reserve", "call"}
  BY <1>1, CodeAssumption DEF CodeInv
<1> QED BY <1>1, <1>2

GoesOn ==
  /\ ip' \in 1 .. Len(Code)
  /\ \/ dispatcher' = "vm_dispatch"
     \/ dispatcher' = "vm_seek_catch" /\ chunk_id = Entry /\ ip' = 2

LEMMA DispatchGoesOn ==
  ASSUME CodeInv, Executing, NEW target \in 1 .. Len(Code), Dispatch(Code, target)
  PROVE  GoesOn
BY InstrTyped, SeekingAtStart, DispatchLands DEF GoesOn

LEMMA StayStepsGoOn ==
  ASSUME CodeInv, StayStep
  PROVE  /\ GoesOn /\ Executing
         /\ UNCHANGED <<program, chunk_id, frames, bp, upvals, depth, returned, crashed,
                        runs, leaked, wrapped>>
<1>0. Executing
  BY DEF StayStep, fn_put_none, fn_put_bool, fn_put_k, fn_load_imm_gid, fn_load_local,
     fn_get_upv, fn_reserve, fn_store_local, fn_set_upv, fn_pop, fn_nop, fn_jmp, fn_jmp_false,
     fn_jmp_if, fn_native_call, fn_mk_closure, fn_try, fn_raise_err, fn_catch_err, fn_abort_if,
     Put, Handle
<1>1. UNCHANGED <<program, chunk_id, frames, bp, upvals, depth, returned, crashed,
                  runs, leaked, wrapped>>
  BY DEF StayStep, fn_put_none, fn_put_bool, fn_put_k, fn_load_imm_gid, fn_load_local,
     fn_get_upv, fn_reserve, fn_store_local, fn_set_upv, fn_pop, fn_nop, fn_jmp, fn_jmp_false,
     fn_jmp_if, fn_native_call, fn_mk_closure, fn_try, fn_raise_err, fn_catch_err, fn_abort_if,
     Put, StayInActivation, historyVars, Running
<1>2. GoesOn
  <2>1. CASE fn_put_none \/ fn_put_bool \/ fn_put_k \/ fn_load_imm_gid \/ fn_load_local
             \/ fn_get_upv \/ fn_store_local \/ fn_set_upv \/ fn_pop \/ fn_nop \/ fn_native_call
             \/ fn_try \/ (fn_mk_closure /\ returned' = Running)
             \/ (fn_abort_if /\ returned' = Running)
    <3>1. Instr.op # "ret" /\ Dispatch(Code, ip + 1)
      BY <2>1 DEF fn_put_none, fn_put_bool, fn_put_k, fn_load_imm_gid, fn_load_local,
         fn_get_upv, fn_store_local, fn_set_upv, fn_pop, fn_nop, fn_native_call, fn_try,
         fn_mk_closure, fn_abort_if, Put, Handle, Running
    <3> QED BY <1>0, <3>1, NotTheLast, DispatchGoesOn
  <2>2. CASE fn_jmp
    BY <1>0, <2>2, JumpsLand, DispatchGoesOn DEF fn_jmp, Handle
  <2>3. CASE fn_jmp_false
    <3>1. Instr.op = "jmp_false" /\ (Dispatch(Code, ip + 1) \/ Dispatch(Code, ip + Instr.wide))
      BY <2>3 DEF fn_jmp_false, Handle
    <3> QED BY <1>0, <3>1, NotTheLast, JumpsLand, DispatchGoesOn
  <2>4. CASE fn_jmp_if
    <3>1. Instr.op = "jmp_if" /\ (Dispatch(Code, ip + 1) \/ Dispatch(Code, ip + Instr.wide))
      BY <2>4 DEF fn_jmp_if, Handle
    <3> QED BY <1>0, <3>1, NotTheLast, JumpsLand, DispatchGoesOn
  <2>5. CASE fn_reserve
    <3>1. Instr.op = "reserve" /\ ip' = ip + 1 /\ dispatcher' = dispatcher
      BY <2>5 DEF fn_reserve, Handle
    <3>2. dispatcher = "vm_dispatch" \/ (dispatcher = "vm_seek_catch" /\ chunk_id = Entry /\ ip = 1)
      BY <1>0, <3>1, SeekingAtStart DEF CodeInv
    <3> QED BY <1>0, <3>1, <3>2, NotTheLast DEF GoesOn
  <2>6. CASE fn_raise_err
    <3>1. /\ Instr.op = "raise_err" /\ dispatcher' = "vm_dispatch"
          /\ ip' = vm_locally_propagate_error(Code, ip, trying_except)
      BY <2>6 DEF fn_raise_err, Handle
    <3>2. Marked(Code) /\ ip \in 1 .. Len(Code) /\ WellFormed(Code) /\ Len(Code) \in Nat
      BY <1>0, <3>1, JumpsLand, InstrTyped DEF CodeInv
    <3>3. ip' \in ip .. Len(Code)
      BY <3>1, <3>2, SearchLands
    <3> QED BY <3>1, <3>2, <3>3 DEF GoesOn
  <2>7. CASE fn_catch_err
    BY <1>0, <2>7, NotTheLast DEF fn_catch_err, Handle, GoesOn
  <2> QED BY <2>1, <2>2, <2>3, <2>4, <2>5, <2>6, <2>7 DEF StayStep
<1> QED BY <1>0, <1>1, <1>2

\* The slots and captures hold values; closures are never taken away.
ClosuresStay == Len(closures) <= Len(closures')

LEMMA MovesKeepData ==
  ASSUME DataInv, UNCHANGED <<stack, closures>>, sp' \in Int, bp' \in Slots,
         upvals' \in 0 .. Len(closures)
  PROVE  DataInv' /\ ClosuresStay
BY DEF DataInv, WellTagged, ClosuresStay, Slots

LEMMA WritesKeepData ==
  ASSUME DataInv, NEW slot \in Slots, NEW value \in Values, WellTagged(value),
         stack' = [stack EXCEPT ![slot] = value],
         UNCHANGED closures, sp' \in Int, bp' \in Slots, upvals' \in 0 .. Len(closures)
  PROVE  DataInv' /\ ClosuresStay
BY DEF DataInv, WellTagged, ClosuresStay, Slots

\* A capture is written: set_upv.
LEMMA CapturesKeepData ==
  ASSUME DataInv, NEW n \in 1 .. Len(closures), NEW m \in 1 .. Len(closures[n].upvals),
         NEW value \in Values, WellTagged(value),
         closures' = [closures EXCEPT ![n].upvals[m] = value],
         UNCHANGED <<stack, bp, upvals>>, sp' \in Int
  PROVE  DataInv' /\ ClosuresStay
<1>0. closures \in Seq(Closures) /\ closures[n] \in Closures
  BY DEF DataInv
<1>1. /\ closures \in Seq(Closures) /\ closures[n] \in Closures
      /\ closures[n].cid \in Int /\ closures[n].upvals \in Seq(Values)
  BY <1>0 DEF Closures
<1>2. PICK captures : captures = [closures[n].upvals EXCEPT ![m] = value]
  OBVIOUS
<1>3. captures \in Seq(Values) /\ Len(captures) = Len(closures[n].upvals)
  BY <1>1, <1>2
<1>4. PICK made : made = [closures[n] EXCEPT !.upvals = captures]
  OBVIOUS
<1>5. made \in Closures /\ made.upvals = captures
  BY <1>1, <1>3, <1>4 DEF Closures
<1>6. closures' = [closures EXCEPT ![n] = made]
  BY <1>2, <1>4
<1>7. closures' \in Seq(Closures) /\ Len(closures') = Len(closures) /\ closures'[n] = made
  BY <1>1, <1>5, <1>6
<1>8. ASSUME NEW p \in 1 .. Len(closures'), NEW q \in 1 .. Len(closures'[p].upvals)
      PROVE  WellTagged(closures[p].upvals[q])'
  <2>1. CASE p = n
    <3>1. closures'[p].upvals = captures
      BY <1>5, <1>7, <2>1
    <3>2. WellTagged(captures[q])
      BY <1>1, <1>2, <1>3, <1>8, <3>1 DEF DataInv
    <3> QED BY <1>7, <3>1, <3>2 DEF WellTagged
  <2>2. CASE p # n
    <3>1. closures'[p] = closures[p]
      BY <1>1, <1>6, <1>7, <2>2
    <3>2. WellTagged(closures[p].upvals[q])
      BY <1>7, <1>8, <3>1 DEF DataInv
    <3> QED BY <1>7, <3>1, <3>2 DEF WellTagged
  <2> QED BY <2>1, <2>2
<1>9. stack' = stack /\ \A slot \in Slots : WellTagged(stack[slot])'
  BY <1>7 DEF DataInv, WellTagged
<1> QED BY <1>7, <1>8, <1>9 DEF DataInv, ClosuresStay, Slots, WellTagged

\* A closure is made of the values on the stack: mk_closure.
LEMMA ClosureKeepsData ==
  ASSUME DataInv, NEW width \in Nat, sp - width .. sp \subseteq Slots,
         stack[sp - width].tag = "int",
         closures' = Append(closures, [cid |-> stack[sp - width].n,
                                       upvals |-> [n \in 1 .. width |-> stack[sp - width + n]]]),
         stack' = [stack EXCEPT ![sp - width] = Closure(Len(closures) + 1)],
         UNCHANGED <<bp, upvals>>, sp' \in Int
  PROVE  DataInv' /\ ClosuresStay
<1>1. PICK made : made = [cid |-> stack[sp - width].n,
                          upvals |-> [n \in 1 .. width |-> stack[sp - width + n]]]
  OBVIOUS
<1>2. sp \in Int /\ \A n \in 0 .. width : sp - width + n \in Slots
  BY DEF DataInv
<1>3. sp - width \in Slots
  <2>1. sp - width + 0 \in Slots /\ sp - width \in Int
    BY <1>2
  <2> QED BY <2>1
<1>4. \A n \in 1 .. width :
        stack[sp - width + n] \in Values /\ WellTagged(stack[sp - width + n])
  BY <1>2 DEF DataInv
<1>5. /\ made.upvals \in Seq(Values) /\ Len(made.upvals) = width
      /\ \A n \in 1 .. width : made.upvals[n] = stack[sp - width + n]
  <2> DEFINE captures == [n \in 1 .. width |-> stack[sp - width + n]]
  <2>1. captures \in Seq(Values) /\ Len(captures) = width
    BY <1>4
  <2>2. made.upvals = captures
    BY <1>1
  <2> QED BY <2>1, <2>2
<1>6. made \in Closures
  <2>1. stack[sp - width].n \in Int
    BY <1>3 DEF DataInv, Values
  <2>2. made = [cid |-> made.cid, upvals |-> made.upvals] /\ made.cid = stack[sp - width].n
    BY <1>1
  <2> QED BY <1>5, <2>1, <2>2 DEF Closures
<1>7. /\ closures \in Seq(Closures) /\ closures' = Append(closures, made)
      /\ closures' \in Seq(Closures) /\ Len(closures') = Len(closures) + 1
      /\ closures'[Len(closures) + 1] = made
      /\ \A n \in 1 .. Len(closures) : closures'[n] = closures[n]
      /\ Len(closures) \in Nat
  <2>1. closures \in Seq(Closures) /\ closures' = Append(closures, made)
    BY <1>1 DEF DataInv
  <2> QED BY <1>6, <2>1
<1>8. \A value : WellTagged(value) => WellTagged(value)'
  BY <1>7 DEF WellTagged
<1>9. /\ stack' \in [Slots -> Values]
      /\ \A slot \in Slots : (slot = sp - width /\ stack'[slot] = Closure(Len(closures) + 1))
                             \/ stack'[slot] = stack[slot]
  <2>1. Closure(Len(closures) + 1) \in Values
    BY <1>7 DEF Closure, Values
  <2> QED BY <1>3, <2>1 DEF DataInv
<1>10. \A slot \in Slots : WellTagged(stack[slot])'
  <2>1. \A slot \in Slots : WellTagged(stack[slot])
    BY DEF DataInv
  <2> QED BY <1>7, <1>9, <2>1 DEF WellTagged, Closure
<1>11. ASSUME NEW p \in 1 .. Len(closures'), NEW q \in 1 .. Len(closures'[p].upvals)
       PROVE  WellTagged(closures[p].upvals[q])'
  <2>1. CASE p = Len(closures) + 1
    <3>1. closures'[p].upvals[q] = stack[sp - width + q] /\ q \in 1 .. width
      BY <1>5, <1>7, <1>11, <2>1
    <3>2. WellTagged(stack[sp - width + q])
      BY <1>4, <3>1
    <3> QED BY <1>7, <3>1, <3>2 DEF WellTagged
  <2>2. CASE p # Len(closures) + 1
    <3>1. closures'[p] = closures[p] /\ p \in 1 .. Len(closures)
      BY <1>7, <2>2
    <3>2. WellTagged(closures[p].upvals[q])
      BY <1>11, <3>1 DEF DataInv
    <3> QED BY <1>7, <3>1, <3>2 DEF WellTagged
  <2> QED BY <2>1, <2>2
<1> QED BY <1>7, <1>9, <1>10, <1>11 DEF DataInv, ClosuresStay, Slots, WellTagged

LEMMA PutsKeepData ==
  ASSUME DataInv, CodeInv, NEW op, NEW value, Put(op, value), sp + 1 \in Slots,
         value \in Values, WellTagged(value)
  PROVE  DataInv' /\ ClosuresStay
<1>1. /\ stack' = [stack EXCEPT ![sp + 1] = value] /\ sp' = sp + 1
      /\ UNCHANGED <<closures, bp, upvals>>
  BY DEF Put, StayInActivation
<1>2. sp' \in Int /\ bp' \in Slots /\ upvals' \in 0 .. Len(closures)
  BY <1>1 DEF DataInv
<1> QED BY <1>1, <1>2, WritesKeepData

\* What a handler finds in the slots that it touches.
LEMMA SlotsHold ==
  ASSUME DataInv, NEW slot \in Slots
  PROVE  stack[slot] \in Values /\ WellTagged(stack[slot])
BY DEF DataInv

LEMMA CapturesHold ==
  ASSUME DataInv, NEW instr \in Instructions, Captured(instr)
  PROVE  /\ upvals \in 1 .. Len(closures)
         /\ instr.wide + 1 \in 1 .. Len(closures[upvals].upvals)
         /\ closures[upvals].upvals[instr.wide + 1] \in Values
         /\ WellTagged(closures[upvals].upvals[instr.wide + 1])
<1>1. upvals \in 1 .. Len(closures) /\ instr.wide + 1 \in DOMAIN closures[upvals].upvals
  BY DEF DataInv, Captured, NULL
<1>2. closures[upvals] \in Closures
  BY <1>1 DEF DataInv
<1>3. closures[upvals].upvals \in Seq(Values)
  BY <1>2 DEF Closures
<1> QED BY <1>1, <1>3 DEF DataInv

LEMMA TouchedHere ==
  ASSUME NEW op, Handle(op)
  PROVE  /\ Executing /\ Instr.op = op /\ Touched(Instr) \subseteq Slots
         /\ op \in {"get_upv", "set_upv"} => Captured(Instr)
         /\ op = "call" /\ stack[sp - Instr.wide].tag \in {"int", "obj"} =>
              ChunkOf(stack[sp - Instr.wide]) \in DOMAIN program
BY DEF Handle, Faulty

LEMMA StayStepsKeepData ==
  ASSUME DataInv, CodeInv, StayStep
  PROVE  DataInv' /\ ClosuresStay
<1>0. Instr \in Instructions /\ Instr.wide \in Nat /\ Instr.flag \in Nat
  BY InstrTyped, StayStepsGoOn DEF Instructions
<1>1. CASE fn_put_none \/ fn_put_bool \/ fn_put_k \/ fn_load_imm_gid
  <2>1. PICK op, value :
          /\ Put(op, value) /\ op \in {"put_none", "put_bool", "put_k", "load_imm_gid"}
          /\ value \in {Nil, Bool(Instr.flag % 2), Integer(Instr.wide)}
    BY <1>1 DEF fn_put_none, fn_put_bool, fn_put_k, fn_load_imm_gid
  <2>2. sp + 1 \in Slots
    BY <2>1, TouchedHere, TouchedIs DEF Put
  <2>3. value \in Values /\ WellTagged(value)
    BY <1>0, <2>1 DEF Nil, Bool, Integer, Values, WellTagged
  <2> QED BY <2>1, <2>2, <2>3, PutsKeepData
<1>2. CASE fn_load_local
  <2>1. PICK value : value = stack[bp + Instr.wide] /\ Put("load_local", value)
    BY <1>2 DEF fn_load_local
  <2>2. {sp + 1, bp + Instr.wide} \subseteq Slots
    BY <2>1, TouchedHere, TouchedIs DEF Put
  <2> QED BY <2>1, <2>2, SlotsHold, PutsKeepData
<1>3. CASE fn_get_upv
  <2>1. PICK value : value = closures[upvals].upvals[Instr.wide + 1] /\ Put("get_upv", value)
    BY <1>3 DEF fn_get_upv
  <2>2. sp + 1 \in Slots /\ Captured(Instr)
    BY <2>1, TouchedHere, TouchedIs DEF Put
  <2> QED BY <1>0, <2>1, <2>2, CapturesHold, PutsKeepData
<1>4. CASE fn_store_local
  <2>1. /\ Handle("store_local") /\ sp' = sp - 1 /\ UNCHANGED <<closures, bp, upvals>>
        /\ stack' = [stack EXCEPT ![bp + Instr.wide] = stack[sp]]
    BY <1>4 DEF fn_store_local, StayInActivation, Top
  <2>2. {sp, bp + Instr.wide} \subseteq Slots
    BY <2>1, TouchedHere, TouchedIs
  <2>3. stack[sp] \in Values /\ WellTagged(stack[sp])
    BY <2>2, SlotsHold
  <2>4. sp' \in Int /\ bp' \in Slots /\ upvals' \in 0 .. Len(closures)
    BY <2>1 DEF DataInv
  <2> QED BY <2>1, <2>2, <2>3, <2>4, WritesKeepData
<1>5. CASE fn_native_call
  <2>1. /\ Handle("native_call") /\ sp' = sp + 1 /\ UNCHANGED <<closures, bp, upvals>>
        /\ stack' = [stack EXCEPT ![sp + 1] = Nil]
    BY <1>5 DEF fn_native_call, StayInActivation
  <2>2. sp + 1 \in Slots /\ Nil \in Values /\ WellTagged(Nil)
    BY <2>1, TouchedHere, TouchedIs DEF Nil, Values, WellTagged
  <2>3. sp' \in Int /\ bp' \in Slots /\ upvals' \in 0 .. Len(closures)
    BY <2>1 DEF DataInv
  <2> QED BY <2>1, <2>2, <2>3, WritesKeepData
<1>6. CASE fn_set_upv
  <2>1. /\ Handle("set_upv") /\ sp' = sp - 1 /\ UNCHANGED <<stack, bp, upvals>>
        /\ closures' = [closures EXCEPT ![upvals].upvals[Instr.wide + 1] = stack[sp]]
    BY <1>6 DEF fn_set_upv, StayInActivation, Top
  <2>2. sp \in Slots /\ Captured(Instr)
    BY <2>1, TouchedHere, TouchedIs
  <2>3. stack[sp] \in Values /\ WellTagged(stack[sp]) /\ sp' \in Int
    BY <2>1, <2>2, SlotsHold DEF DataInv
  <2>4. /\ upvals \in 1 .. Len(closures)
        /\ Instr.wide + 1 \in 1 .. Len(closures[upvals].upvals)
    BY <1>0, <2>2, CapturesHold
  <2> QED BY <2>1, <2>3, <2>4, CapturesKeepData
<1>7. CASE fn_mk_closure /\ returned' = Running
  <2>1. Handle("mk_closure") /\ sp' = sp - Instr.wide
    BY <1>7 DEF fn_mk_closure
  <2>2. /\ stack[sp - Instr.wide].tag = "int"
        /\ closures' = Append(closures,
                         [cid |-> stack[sp - Instr.wide].n,
                          upvals |-> [n \in 1 .. Instr.wide |-> stack[sp - Instr.wide + n]]])
        /\ stack' = [stack EXCEPT ![sp - Instr.wide] = Closure(Len(closures) + 1)]
        /\ UNCHANGED <<bp, upvals>>
    BY <1>7 DEF fn_mk_closure, StayInActivation, Running
  <2>3. sp - Instr.wide .. sp \subseteq Slots /\ sp' \in Int
    BY <1>0, <2>1, TouchedHere, TouchedIs DEF DataInv
  <2> QED BY <1>0, <2>2, <2>3, ClosureKeepsData
<1>8. CASE fn_reserve \/ fn_pop \/ fn_nop \/ fn_jmp \/ fn_jmp_false \/ fn_jmp_if \/ fn_try
           \/ fn_raise_err \/ fn_catch_err \/ (fn_abort_if /\ returned' = Running)
  <2>1. UNCHANGED <<stack, closures, bp, upvals>>
    BY <1>8 DEF fn_reserve, fn_pop, fn_nop, fn_jmp, fn_jmp_false, fn_jmp_if, fn_try,
       fn_raise_err, fn_catch_err, fn_abort_if, StayInActivation, SameValues
  <2>2. sp' \in Int
    <3>1. sp' \in {sp, sp - 1, sp - 2, sp + Instr.wide, sp - Instr.flag}
      BY <1>8 DEF fn_reserve, fn_pop, fn_nop, fn_jmp, fn_jmp_false, fn_jmp_if, fn_try,
         fn_raise_err, fn_catch_err, fn_abort_if, SameValues
    <3> QED BY <1>0, <3>1 DEF DataInv
  <2>3. bp' \in Slots /\ upvals' \in 0 .. Len(closures)
    BY <2>1 DEF DataInv
  <2> QED BY <2>1, <2>2, <2>3, MovesKeepData
<1> QED BY <1>1, <1>2, <1>3, <1>4, <1>5, <1>6, <1>7, <1>8 DEF StayStep

LEMMA StaysOrFails ==
  ASSUME [Next]_vars
  PROVE  \/ StayStep \/ FailStep \/ call_chunk \/ call_closure
         \/ resume_after_chunk \/ resume_after_closure \/ fn_ret
         \/ tbasic_invoke \/ fault \/ UNCHANGED vars
BY DEF Next, VMStep, ValueStep, CallStep, ExceptionStep, StayStep, FailStep

LEMMA FramesStay ==
  ASSUME ClosuresStay, DataInv, DataInv', UNCHANGED program, NEW frame, FrameOK(frame)
  PROVE  FrameOK(frame)'
BY DEF FrameOK, ClosuresStay, DataInv, Slots

LEMMA StayStepsKeepCode ==
  ASSUME DataInv, CodeInv, StayStep
  PROVE  CodeInv'
<1>1. /\ GoesOn /\ UNCHANGED <<program, chunk_id, frames>> /\ ClosuresStay /\ DataInv'
      /\ Code' = Code
  BY StayStepsGoOn, StayStepsKeepData DEF Code
<1>2. \A n \in 1 .. Len(frames') : FrameOK(frames[n])'
  BY <1>1, FramesStay DEF CodeInv
<1> QED BY <1>1, <1>2 DEF CodeInv, GoesOn

LEMMA FailStepsEnd ==
  ASSUME DepthInv, FailStep
  PROVE  /\ Executing /\ ~ Executing' /\ returned' # Running
         /\ returned' \in {"err_bad_call", "err_abort"}
         /\ status' \in {status, "err_bad_call", "err_abort"}
         /\ status' # status => status' = returned'
         /\ UNCHANGED <<program, codeVars, bp, stack, closureVars, depth, trying_except,
                        dispatcher, crashed, runs, wrapped>>
         /\ leaked' = leaked + 1
<1>1. CASE fn_mk_closure /\ returned' # Running
  BY <1>1 DEF fn_mk_closure, Handle, Executing, StayInActivation, Running
<1>2. CASE call_nothing
  BY <1>2 DEF call_nothing, Handle, Executing, slotVars, Running
<1>3. CASE fn_abort_if /\ returned' # Running
  BY <1>3 DEF fn_abort_if, Handle, Executing, StayInActivation, closureVars, Running
<1> QED BY <1>1, <1>2, <1>3 DEF FailStep

LEMMA EndingKeepsCode ==
  ASSUME CodeInv, UNCHANGED <<program, codeVars, dispatcher, closures>>, ~ Executing',
         returned' = Running => returned = Running
  PROVE  CodeInv'
<1>1. \A n \in 1 .. Len(frames) : FrameOK(frames[n])'
  BY DEF CodeInv, FrameOK, Slots, codeVars
<1> QED BY <1>1 DEF CodeInv, codeVars, Code, DepthInv

LEMMA FailStepsKeep ==
  ASSUME DepthInv, DataInv, CodeInv, FailStep
  PROVE  DataInv' /\ CodeInv'
<1>1. CodeInv'
  BY FailStepsEnd, EndingKeepsCode DEF closureVars
<1>2. sp' \in {sp, sp - 1, sp - Instr.wide}
  BY DEF FailStep, fn_mk_closure, call_nothing, fn_abort_if, slotVars, StayInActivation,
     Handle, Executing
<1>3. Instr.wide \in Int
  BY InstrTyped, FailStepsEnd DEF Instructions
<1>4. sp' \in Int /\ bp' \in Slots /\ upvals' \in 0 .. Len(closures)
  BY <1>2, <1>3, FailStepsEnd DEF DataInv, closureVars
<1> QED BY <1>1, <1>4, FailStepsEnd, MovesKeepData DEF closureVars

\* A CALL enters a chunk of the program, and the caller goes on behind it.
LEMMA ActivatesWell ==
  ASSUME DepthInv, DataInv, CodeInv, Handle("call"), NEW closure, Activate(closure),
         Callee.tag \in {"int", "obj"}, closure \in 0 .. Len(closures),
         upvals' \in 0 .. Len(closures), ip' = 1, dispatcher' = "vm_dispatch"
  PROVE  DataInv' /\ CodeInv'
<1>1. /\ Executing /\ Instr.op = "call" /\ CalleeBp \in Slots
      /\ chunk_id' \in DOMAIN program /\ chunk_id' = ChunkOf(Callee)
  <2>1. sp - Instr.wide \in Slots
    BY TouchedHere, TouchedIs
  <2> QED BY <2>1, TouchedHere DEF Activate, Callee, CalleeBp
<1>2. /\ UNCHANGED <<program, sp, stack, closures>> /\ bp' = CalleeBp
      /\ frames' = Append(frames, [chunk |-> chunk_id, ip |-> ip + 1, bp |-> bp,
                                   callee_bp |-> CalleeBp, closure |-> closure])
  BY DEF Activate
<1>3. DataInv' /\ ClosuresStay
  <2>1. sp' \in Int /\ bp' \in Slots
    BY <1>1, <1>2 DEF DataInv
  <2> QED BY <1>2, <2>1, MovesKeepData
<1>4. PICK frame : frame = [chunk |-> chunk_id, ip |-> ip + 1, bp |-> bp,
                            callee_bp |-> CalleeBp, closure |-> closure]
  OBVIOUS
<1>5. FrameOK(frame)
  <2>1. ip + 1 \in 1 .. Len(Code) /\ ip \in 1 .. Len(Code)
    BY <1>1, NotTheLast, InstrTyped DEF CodeInv
  <2>2. /\ frame.chunk = chunk_id /\ frame.ip = ip + 1 /\ frame.bp = bp
        /\ frame.callee_bp = CalleeBp /\ frame.closure = closure
    BY <1>4
  <2>3. Code = program[frame.chunk] /\ Code[ip].op = "call"
    BY <1>1, <2>2, InstrTyped
  <2>4. frame.ip \in 2 .. Len(Code) /\ frame.ip - 1 = ip
    BY <2>1, <2>2
  <2>5. frame.chunk \in DOMAIN program /\ frame.bp \in Slots
    BY <2>2 DEF CodeInv, DataInv
  <2> QED BY <1>1, <2>2, <2>3, <2>4, <2>5 DEF FrameOK
<1>6. PICK S : frames \in Seq(S)
  BY DEF DepthInv
<1>7. \A n \in 1 .. Len(frames') : frames'[n] = frame \/ (n \in 1 .. Len(frames) /\ frames'[n] = frames[n])
  <2>1. frames \in Seq(S \cup {frame}) /\ frames' = Append(frames, frame)
    BY <1>2, <1>4, <1>6
  <2> QED BY <2>1
<1>8. ASSUME NEW n \in 1 .. Len(frames')
      PROVE  FrameOK(frames[n])'
  <2>1. PICK f : f = frames'[n] /\ FrameOK(f)
    BY <1>5, <1>7 DEF CodeInv
  <2>2. FrameOK(f)'
    BY <1>2, <1>3, <2>1, FramesStay
  <2> QED BY <2>1, <2>2 DEF FrameOK
<1>9. chunk_id' \in DOMAIN program' /\ ip' \in 1 .. Len(Code') /\ program' \in Programs
  <2>1. Code' = program[chunk_id'] /\ WellFormed(program[chunk_id'])
    BY <1>1, <1>2, CodeAssumption DEF Code, CodeInv
  <2>2. Len(program[chunk_id']) \in Nat /\ Len(program[chunk_id']) >= 1
    BY <2>1 DEF WellFormed
  <2> QED BY <1>1, <1>2, <2>1, <2>2 DEF CodeInv
<1> QED BY <1>3, <1>8, <1>9 DEF CodeInv

LEMMA CallsKeep ==
  ASSUME DepthInv, DataInv, CodeInv, call_chunk \/ call_closure
  PROVE  DataInv' /\ CodeInv'
<1>1. Handle("call") /\ Executing /\ Instr.op = "call" /\ dispatcher = "vm_dispatch"
  <2>1. Handle("call")
    BY DEF call_chunk, call_closure
  <2> QED BY <2>1, SeekingAtStart DEF CodeInv, Handle
<1>2. upvals \in 0 .. Len(closures) /\ NULL \in 0 .. Len(closures)
  BY DEF DataInv, NULL
<1>3. CASE call_chunk
  <2>1. /\ Activate(NULL) /\ Callee.tag = "int" /\ ip' = 1 /\ dispatcher' = "vm_dispatch"
        /\ upvals' \in 0 .. Len(closures)
    BY <1>1, <1>2, <1>3 DEF call_chunk, Dispatch
  <2> QED BY <1>1, <1>2, <2>1, ActivatesWell
<1>4. CASE call_closure
  <2>1. PICK n : n = Callee.n
    OBVIOUS
  <2>2. /\ Activate(n) /\ Callee.tag = "obj" /\ ip' = 1 /\ dispatcher' = "vm_dispatch"
        /\ upvals' = n
    BY <1>1, <1>4, <2>1 DEF call_closure
  <2>3. n \in 0 .. Len(closures)
    <3>1. sp - Instr.wide \in Slots
      BY <1>1, TouchedHere, TouchedIs
    <3>2. WellTagged(Callee)
      BY <3>1, SlotsHold DEF Callee, CalleeBp
    <3> QED BY <2>1, <2>2, <3>2 DEF WellTagged
  <2> QED BY <1>1, <2>2, <2>3, ActivatesWell
<1> QED BY <1>3, <1>4

\* Back in the caller: its frame is the last one.
LEMMA LastFrame ==
  ASSUME DepthInv, CodeInv, Resuming
  PROVE  /\ Len(frames) \in Nat \ {0} /\ FrameOK(Last(frames))
         /\ Len(Front(frames)) = Len(frames) - 1
         /\ \A n \in 1 .. Len(Front(frames)) : Front(frames)[n] = frames[n]
<1>1. PICK S : frames \in Seq(S)
  BY DEF DepthInv
<1>2. frames # <<>> /\ Len(frames) \in Nat \ {0}
  BY <1>1 DEF Resuming
<1>3. Last(frames) = frames[Len(frames)]
  BY DEF Last
<1>4. PICK n \in Nat : n = Len(frames) - 1
  BY <1>2
<1>5. Front(frames) = SubSeq(frames, 1, n) /\ \A pos \in 1 .. n : frames[pos] \in S
  BY <1>1, <1>4 DEF Front
<1>6. Len(SubSeq(frames, 1, n)) = n /\ \A pos \in 1 .. n : SubSeq(frames, 1, n)[pos] = frames[pos]
  BY <1>1, <1>4, <1>5, SubSeqProperties
<1> QED BY <1>2, <1>3, <1>4, <1>5, <1>6 DEF CodeInv

LEMMA FrameCode ==
  ASSUME CodeInv, NEW frame, FrameOK(frame)
  PROVE  /\ WellFormed(program[frame.chunk]) /\ Marked(program[frame.chunk])
         /\ frame.ip \in 1 .. Len(program[frame.chunk])
<1>1. WellFormed(program[frame.chunk])
  BY CodeAssumption DEF CodeInv, FrameOK
<1>2. Len(program[frame.chunk]) \in Nat /\ frame.ip - 1 \in 1 .. Len(program[frame.chunk])
  BY <1>1 DEF WellFormed, FrameOK
<1> QED BY <1>1, <1>2 DEF WellFormed, FrameOK

LEMMA ResumesKeepData ==
  ASSUME DepthInv, DataInv, CodeInv, resume_after_chunk \/ resume_after_closure
  PROVE  DataInv' /\ ClosuresStay
<1>1. PICK frame :
        /\ frame = Last(frames) /\ Resuming /\ sp \in Slots /\ AfterCall(frame)
        /\ UNCHANGED closures /\ (UNCHANGED upvals \/ upvals' = NULL)
  BY DEF resume_after_chunk, resume_after_closure, closureVars
<1>2. FrameOK(frame)
  BY <1>1, LastFrame
<1>3. /\ frame.callee_bp \in Slots /\ frame.bp \in Slots
      /\ stack' = [stack EXCEPT ![frame.callee_bp] = stack[sp]]
      /\ sp' = frame.callee_bp /\ bp' = frame.bp
  BY <1>1, <1>2 DEF FrameOK, AfterCall, ResultSlot, Top
<1>4. stack[sp] \in Values /\ WellTagged(stack[sp])
  BY <1>1, SlotsHold
<1>5. sp' \in Int /\ bp' \in Slots /\ upvals' \in 0 .. Len(closures)
  BY <1>1, <1>3 DEF DataInv, NULL, Slots
<1> QED BY <1>1, <1>3, <1>4, <1>5, WritesKeepData

LEMMA ResumesKeepCode ==
  ASSUME DepthInv, DataInv, CodeInv, resume_after_chunk \/ resume_after_closure
  PROVE  CodeInv'
<1>1. PICK frame :
        /\ frame = Last(frames) /\ Resuming /\ AfterCall(frame) /\ UNCHANGED program
        /\ \/ returned' # Running /\ UNCHANGED <<ip, dispatcher>> /\ resume_after_chunk
           \/ Dispatch(program[frame.chunk], frame.ip)
  BY DEF resume_after_chunk, resume_after_closure, DepthInv
<1>2. /\ FrameOK(frame) /\ Len(frames) \in Nat \ {0}
      /\ Len(frames') = Len(frames) - 1 /\ chunk_id' = frame.chunk
      /\ \A n \in 1 .. Len(frames') : frames'[n] = frames[n]
  BY <1>1, LastFrame DEF AfterCall
<1>3. ASSUME NEW n \in 1 .. Len(frames')
      PROVE  FrameOK(frames[n])'
  <2>1. PICK f : f = frames'[n] /\ FrameOK(f)
    BY <1>2 DEF CodeInv
  <2>2. FrameOK(f)'
    BY <1>1, <2>1, ResumesKeepData, FramesStay
  <2> QED BY <2>1, <2>2 DEF FrameOK
<1>4. /\ WellFormed(program[frame.chunk]) /\ Marked(program[frame.chunk])
      /\ frame.ip \in 1 .. Len(program[frame.chunk]) /\ chunk_id' \in DOMAIN program'
      /\ Code' = program[frame.chunk]
  BY <1>1, <1>2, FrameCode DEF FrameOK, Code
<1>5. CASE Dispatch(program[frame.chunk], frame.ip)
  <2>1. ip' \in 1 .. Len(program[frame.chunk]) /\ dispatcher' = "vm_dispatch"
    BY <1>4, <1>5, DispatchLands
  <2> QED BY <1>1, <1>3, <1>4, <2>1 DEF CodeInv
<1>6. CASE returned' # Running /\ UNCHANGED <<ip, dispatcher>>
  BY <1>1, <1>3, <1>4, <1>6 DEF CodeInv, Executing
<1> QED BY <1>1, <1>5, <1>6

\* Counting up and down between 0 and the width of the counter.
LEMMA DepthRange ==
  ASSUME DepthInv
  PROVE  depth \in 0 .. DepthModulus - 1
<1>1. PICK S : frames \in Seq(S)
  BY DEF DepthInv
<1>2. Activations \in Int
  BY <1>1 DEF Activations, DepthInv
<1> QED BY <1>2, DepthAssumption, QuotientRemainder DEF DepthInv

LEMMA DepthSteps ==
  ASSUME DepthInv
  PROVE  /\ DepthAfterRet = IF depth = 0 THEN DepthModulus - 1 ELSE depth - 1
         /\ DepthInCall = IF depth = DepthModulus - 1 THEN 0 ELSE depth + 1
<1>1. PICK m \in Nat : m = DepthModulus /\ m > 1 /\ depth \in 0 .. m - 1
  BY DepthAssumption, DepthRange
<1>2. PICK up \in Int, down \in Int :
        /\ up = depth + 1 /\ down = depth + m - 1
        /\ DepthAfterRet = down % m /\ DepthInCall = up % m
  BY <1>1 DEF DepthAfterRet, DepthInCall
<1>3. down % m = IF depth = 0 THEN m - 1 ELSE depth - 1
  <2>1. CASE depth = 0
    <3>1. PICK q \in Int, r \in 0 .. m - 1 : q = 0 /\ r = m - 1
      BY <1>1, <2>1
    <3>2. down = m * q + r
      BY <1>1, <1>2, <2>1, <3>1
    <3>3. down % m = r
      BY <1>1, <1>2, <3>2, RemainderIs
    <3> QED BY <2>1, <3>1, <3>3
  <2>2. CASE depth # 0
    <3>1. PICK q \in Int, r \in 0 .. m - 1 : q = 1 /\ r = depth - 1
      BY <1>1, <2>2
    <3>2. down = m * q + r
      BY <1>1, <1>2, <2>2, <3>1
    <3>3. down % m = r
      BY <1>1, <1>2, <3>2, RemainderIs
    <3> QED BY <2>2, <3>1, <3>3
  <2> QED BY <2>1, <2>2
<1>4. up % m = IF depth = m - 1 THEN 0 ELSE depth + 1
  <2>1. CASE depth = m - 1
    <3>1. PICK q \in Int, r \in 0 .. m - 1 : q = 1 /\ r = 0
      BY <1>1, <2>1
    <3>2. up = m * q + r
      BY <1>1, <1>2, <2>1, <3>1
    <3>3. up % m = r
      BY <1>1, <1>2, <3>2, RemainderIs
    <3> QED BY <2>1, <3>1, <3>3
  <2>2. CASE depth # m - 1
    <3>1. PICK q \in Int, r \in 0 .. m - 1 : q = 0 /\ r = depth + 1
      BY <1>1, <2>2
    <3>2. up = m * q + r
      BY <1>1, <1>2, <2>2, <3>1
    <3>3. up % m = r
      BY <1>1, <1>2, <3>2, RemainderIs
    <3> QED BY <2>2, <3>1, <3>3
  <2> QED BY <2>1, <2>2
<1> QED BY <1>1, <1>2, <1>3, <1>4

LEMMA RetKeeps ==
  ASSUME DepthInv, DataInv, CodeInv, fn_ret
  PROVE  DataInv' /\ CodeInv'
<1>1. /\ Handle("ret") /\ returned' # Running
      /\ UNCHANGED <<program, codeVars, closures, upvals>>
  BY StatusesAreNotRunning DEF fn_ret, FinalStatus, DepthInv, closureVars
<1>2. upvals' \in 0 .. Len(closures) /\ 0 \in Slots /\ sp \in Int /\ bp \in Slots
  BY <1>1, CallsAssumption DEF DataInv, Slots
<1>3. /\ depth' = DepthAfterRet /\ depth' \in Int
      /\ depth' < 1 => depth = 1
  BY DepthAssumption, DepthRange, DepthSteps DEF fn_ret
<1>4. \/ /\ depth' < 1
         /\ stack' = [stack EXCEPT ![0] = stack[sp]] /\ sp' = 0 /\ bp' = 0
      \/ /\ depth' >= 1 /\ status = "err_throw"
         /\ stack' = [stack EXCEPT ![sp + 1] = Nil] /\ sp' = sp + 1 /\ bp' = bp
      \/ depth' >= 1 /\ UNCHANGED <<sp, bp, stack>>
  BY DEF fn_ret, Top, slotVars
<1>5. Touched(Instr) = (IF status = "err_throw" /\ depth # 1 THEN {sp + 1} ELSE {sp})
      /\ Touched(Instr) \subseteq Slots
  BY <1>1, TouchedHere, TouchedIs
<1>6. DataInv'
  <2>1. CASE depth' < 1
    <3>1. sp \in Slots /\ stack' = [stack EXCEPT ![0] = stack[sp]] /\ sp' = 0 /\ bp' = 0
      BY <1>3, <1>4, <1>5, <2>1
    <3>2. PICK value : value = stack[sp] /\ value \in Values /\ WellTagged(value)
      BY <3>1, SlotsHold
    <3>3. sp' \in Int /\ bp' \in Slots /\ stack' = [stack EXCEPT ![0] = value]
      BY <1>2, <3>1, <3>2
    <3> QED BY <1>1, <1>2, <3>2, <3>3, WritesKeepData
  <2>2. CASE depth' >= 1 /\ UNCHANGED <<sp, bp, stack>>
    BY <1>1, <1>2, <2>2, MovesKeepData
  <2>3. CASE /\ depth' >= 1 /\ status = "err_throw"
             /\ stack' = [stack EXCEPT ![sp + 1] = Nil] /\ sp' = sp + 1 /\ bp' = bp
    <3>1. depth # 1
      BY <1>3, <2>3, DepthAssumption, DepthRange, DepthSteps
    <3>2. sp + 1 \in Slots /\ Nil \in Values /\ WellTagged(Nil)
      BY <1>5, <2>3, <3>1 DEF Nil, Values, WellTagged
    <3>3. sp' \in Int /\ bp' \in Slots
      BY <1>2, <2>3
    <3> QED BY <1>1, <1>2, <2>3, <3>2, <3>3, WritesKeepData
  <2> QED BY <1>3, <1>4, <2>1, <2>2, <2>3
<1>7. CodeInv'
  <2>1. \A n \in 1 .. Len(frames) : FrameOK(frames[n])'
    BY <1>1 DEF CodeInv, FrameOK, Slots, codeVars
  <2>2. dispatcher' \in {"vm_dispatch", "vm_seek_catch"}
    BY DEF fn_ret, CodeInv
  <2> QED BY <1>1, <2>1, <2>2 DEF CodeInv, codeVars, Executing
<1> QED BY <1>6, <1>7

LEMMA EntryIsCode ==
  ASSUME NEW chunks \in Programs
  PROVE  Entry \in DOMAIN chunks /\ 1 \in 1 .. Len(chunks[Entry])
<1>1. Entry \in DOMAIN chunks
  BY CallsAssumption
<1>2. WellFormed(chunks[Entry])
  BY <1>1, CodeAssumption
<1>3. Len(chunks[Entry]) \in Nat /\ Len(chunks[Entry]) >= 1
  BY <1>2 DEF WellFormed
<1> QED BY <1>1, <1>3

LEMMA DataCodeInit == Init => DataInv /\ CodeInv
<1> SUFFICES ASSUME Init PROVE DataInv /\ CodeInv
  OBVIOUS
<1>1. closures = <<>> /\ Len(closures) = 0 /\ closures \in Seq(Closures)
  BY DEF Init
<1>2. 0 \in Slots /\ Nil \in Values /\ WellTagged(Nil)
  BY CallsAssumption DEF Slots, Nil, Values, WellTagged
<1>3. stack \in [Slots -> Values] /\ \A slot \in Slots : stack[slot] = Nil
  BY <1>2 DEF Init
<1>4. DataInv
  BY <1>1, <1>2, <1>3 DEF Init, DataInv, NULL
<1>5. chunk_id \in DOMAIN program /\ ip \in 1 .. Len(Code) /\ program \in Programs
  BY EntryIsCode DEF Init, Code
<1>6. Len(frames) = 0 /\ dispatcher = "vm_dispatch"
  BY DEF Init
<1> QED BY <1>4, <1>5, <1>6 DEF CodeInv

LEMMA InvokeKeeps ==
  ASSUME DepthInv, DataInv, CodeInv, tbasic_invoke
  PROVE  DataInv' /\ CodeInv'
<1>1. /\ frames = <<>> /\ UNCHANGED <<program, frames, stack, closures, upvals, dispatcher>>
      /\ sp' = 0 /\ bp' = 0 /\ chunk_id' = Entry /\ ip' = 1
  BY DEF tbasic_invoke, Ended, closureVars
<1>2. 0 \in Slots /\ sp' \in Int /\ upvals' \in 0 .. Len(closures)
  BY <1>1, CallsAssumption DEF Slots, DataInv
<1>3. DataInv'
  BY <1>1, <1>2, MovesKeepData
<1>4. chunk_id' \in DOMAIN program' /\ ip' \in 1 .. Len(Code') /\ program' \in Programs
  BY <1>1, EntryIsCode DEF Code, CodeInv
<1>5. Len(frames') = 0
  BY <1>1
<1> QED BY <1>1, <1>3, <1>4, <1>5 DEF CodeInv

LEMMA StutterKeeps ==
  ASSUME DepthInv, DataInv, CodeInv, fault \/ UNCHANGED vars
  PROVE  DataInv' /\ CodeInv'
<1>1. /\ UNCHANGED <<program, chunk_id, ip, frames, sp, bp, stack, closures, upvals, returned,
                     dispatcher>>
      /\ Executing' => Executing
  BY DEF fault, vars, codeVars, slotVars, closureVars, statusVars, Executing, Alive
<1>2. DataInv'
  BY <1>1, MovesKeepData DEF DataInv
<1>3. \A n \in 1 .. Len(frames) : FrameOK(frames[n])'
  BY <1>1 DEF CodeInv, FrameOK, Slots
<1> QED BY <1>1, <1>2, <1>3 DEF CodeInv, Code

LEMMA StepKeepsDataCode ==
  DepthInv /\ DataInv /\ CodeInv /\ [Next]_vars => DataInv' /\ CodeInv'
<1> SUFFICES ASSUME DepthInv, DataInv, CodeInv, [Next]_vars PROVE DataInv' /\ CodeInv'
  OBVIOUS
<1>1. CASE StayStep
  BY <1>1, StayStepsKeepData, StayStepsKeepCode
<1>2. CASE FailStep
  BY <1>2, FailStepsKeep
<1>3. CASE call_chunk \/ call_closure
  BY <1>3, CallsKeep
<1>4. CASE resume_after_chunk \/ resume_after_closure
  BY <1>4, ResumesKeepData, ResumesKeepCode
<1>5. CASE fn_ret \/ tbasic_invoke \/ fault \/ UNCHANGED vars
  BY <1>5, RetKeeps, InvokeKeeps, StutterKeeps
<1> QED BY <1>1, <1>2, <1>3, <1>4, <1>5, StaysOrFails

(***************************************************************************)
(* The statuses and the counters.                                          *)
(***************************************************************************)
StatusInv ==
  /\ status \in VMStatuses /\ returned \in VMStatuses \cup {Running}
  /\ trying_except \in {0, 1} /\ crashed \in BOOLEAN
  /\ runs \in 1 .. MaxRuns /\ wrapped \in BOOLEAN

LEMMA StatusInit == Init => StatusInv
<1> SUFFICES ASSUME Init PROVE StatusInv
  OBVIOUS
<1>1. runs = 1 /\ 1 \in 1 .. MaxRuns
  BY CallsAssumption DEF Init
<1> QED BY <1>1 DEF Init, StatusInv, VMStatuses

LEMMA StayStepsKeepStatus ==
  ASSUME StatusInv, CodeInv, StayStep
  PROVE  StatusInv' /\ status' \in {status, "pending", "err_throw"}
<1>1. UNCHANGED <<returned, crashed, runs, wrapped>>
  BY StayStepsGoOn
<1>2. status' \in {status, "pending", "err_throw"} /\ trying_except' \in {trying_except, 0, 1}
  BY DEF StayStep, fn_put_none, fn_put_bool, fn_put_k, fn_load_imm_gid, fn_load_local,
     fn_get_upv, fn_reserve, fn_store_local, fn_set_upv, fn_pop, fn_nop, fn_jmp, fn_jmp_false,
     fn_jmp_if, fn_native_call, fn_mk_closure, fn_try, fn_raise_err, fn_catch_err, fn_abort_if,
     Put, SameStatus, Running
<1> QED BY <1>1, <1>2 DEF StatusInv, VMStatuses

LEMMA StepKeepsStatus ==
  DepthInv /\ CodeInv /\ StatusInv /\ [Next]_vars => StatusInv'
<1> SUFFICES ASSUME DepthInv, CodeInv, StatusInv, [Next]_vars PROVE StatusInv'
  OBVIOUS
<1>1. CASE StayStep
  BY <1>1, StayStepsKeepStatus
<1>2. CASE FailStep
  BY <1>2, FailStepsEnd DEF StatusInv, VMStatuses
<1>3. CASE call_chunk \/ call_closure
  <2>1. PICK n : Activate(n)
    BY <1>3 DEF call_chunk, call_closure
  <2>2. /\ UNCHANGED <<status, trying_except, returned, crashed, runs>>
        /\ wrapped' = (wrapped \/ DepthInCall = 0)
    BY <2>1 DEF Activate
  <2>3. wrapped' \in BOOLEAN
    BY <2>2
  <2> QED BY <2>2, <2>3 DEF StatusInv
<1>4. CASE resume_after_chunk \/ resume_after_closure
  <2>1. /\ UNCHANGED <<trying_except, crashed, runs, wrapped>>
        /\ status' \in {status, returned} /\ returned' \in {status, Running} /\ returned # Running
    BY <1>4 DEF resume_after_chunk, resume_after_closure, StatusAfterClosure, Resuming, historyVars
  <2> QED BY <2>1 DEF StatusInv
<1>5. CASE fn_ret
  <2>1. /\ UNCHANGED <<trying_except, crashed, runs, wrapped>>
        /\ status' \in {status, "ok"} /\ returned' = status'
    BY <1>5 DEF fn_ret, FinalStatus, historyVars
  <2> QED BY <2>1 DEF StatusInv, VMStatuses
<1>6. CASE tbasic_invoke
  <2>1. /\ UNCHANGED <<trying_except, crashed, wrapped>> /\ runs < MaxRuns
        /\ status' = "pending" /\ returned' = Running /\ runs' = runs + 1
    BY <1>6 DEF tbasic_invoke
  <2> QED BY <2>1, CallsAssumption DEF StatusInv, VMStatuses
<1>7. CASE fault \/ UNCHANGED vars
  BY <1>7 DEF fault, vars, statusVars, historyVars, StatusInv
<1> QED BY <1>1, <1>2, <1>3, <1>4, <1>5, <1>6, <1>7, StaysOrFails

VMInv == DepthInv /\ DataInv /\ CodeInv /\ StatusInv

LEMMA VMInvInit == Init => VMInv
BY DepthInit, DataCodeInit, StatusInit DEF VMInv

LEMMA VMInvStep == VMInv /\ [Next]_vars => VMInv'
BY StepKeepsDepth, StepKeepsDataCode, StepKeepsStatus DEF VMInv

LEMMA VMInvTypes == VMInv => VMTypeOK
<1> SUFFICES ASSUME VMInv PROVE VMTypeOK
  OBVIOUS
<1>1. WellFormed(Code) /\ (returned = Running => ip \in DOMAIN Code)
  <2>1. WellFormed(Code)
    BY CodeAssumption DEF VMInv, CodeInv, Code
  <2> QED BY <2>1 DEF VMInv, CodeInv, WellFormed
<1>2. ASSUME NEW frame \in ToSet(frames)
      PROVE  /\ frame.chunk \in DOMAIN program /\ frame.ip \in DOMAIN program[frame.chunk]
             /\ {frame.bp, frame.callee_bp} \subseteq Slots
             /\ frame.closure \in 0 .. Len(closures)
  <2>1. PICK S : frames \in Seq(S)
    BY DEF VMInv, DepthInv
  <2>2. PICK n \in 1 .. Len(frames) : frame = frames[n]
    BY <2>1 DEF ToSet
  <2>3. FrameOK(frame) /\ CodeInv
    BY <2>2 DEF VMInv, CodeInv
  <2>4. WellFormed(program[frame.chunk]) /\ frame.ip \in 1 .. Len(program[frame.chunk])
    BY <2>3, FrameCode
  <2>5. frame.ip \in DOMAIN program[frame.chunk]
    BY <2>4 DEF WellFormed
  <2> QED BY <2>3, <2>5 DEF FrameOK
<1>3. depth \in 0 .. DepthModulus - 1
  BY DepthRange DEF VMInv
<1>4. DOMAIN stack = Slots /\ sp \in Int /\ bp \in Slots /\ upvals \in 0 .. Len(closures)
  BY DEF VMInv, DataInv
<1> QED BY <1>1, <1>2, <1>3, <1>4 DEF VMInv, CodeInv, StatusInv, DepthInv, VMTypeOK

\* Whatever well-formed chunks are run: a handler is only entered at an
\* instruction of its chunk, also after a search for a CATCH and in a caller
\* that goes on; the frames of the C stack, the counters and the statuses stay
\* in their ranges; and every slot is a slot of the stack array (vm.c).
THEOREM VMTypesCorrect == Spec => []VMTypeOK
<1> QED
  BY VMInvInit, VMInvStep, VMInvTypes, PTL DEF Spec

-----------------------------------------------------------------------------
(***************************************************************************)
(* As long as the counter has not come round, it is exact: a RET that      *)
(* brings it to zero is the main chunk's.                                  *)
(***************************************************************************)
LEMMA CallsActivate ==
  ASSUME VMInv, call_chunk \/ call_closure
  PROVE  /\ Activations' = Activations + 1 /\ depth' = DepthInCall
         /\ wrapped' = (wrapped \/ depth' = 0)
         /\ UNCHANGED <<status, returned, runs>> /\ Handle("call") /\ returned = Running
<1>1. /\ Handle("call") /\ returned = Running /\ \E n : Activate(n)
  BY DEF call_chunk, call_closure, Handle, Executing
<1>2. PICK frame :
        /\ frames' = Append(frames, frame) /\ depth' = DepthInCall
        /\ wrapped' = (wrapped \/ depth' = 0) /\ UNCHANGED <<returned, leaked, status, runs>>
  BY <1>1 DEF Activate
<1>3. PICK S : frames \in Seq(S)
  BY DEF VMInv, DepthInv
<1>4. frames \in Seq(S \cup {frame})
  BY <1>3
<1>5. Len(frames') = Len(frames) + 1 /\ Len(frames) \in Nat
  BY <1>2, <1>4
<1> QED BY <1>1, <1>2, <1>5 DEF Activations, VMInv, DepthInv

LEMMA ResumesActivate ==
  ASSUME VMInv, resume_after_chunk \/ resume_after_closure
  PROVE  Activations' = Activations /\ UNCHANGED <<depth, wrapped, runs>>
<1>1. /\ Resuming /\ frames' = Front(frames) /\ UNCHANGED <<depth, wrapped, runs>>
      /\ \/ returned' = Running /\ leaked' = leaked
         \/ returned' # Running /\ leaked' = leaked + 1
  BY DEF resume_after_chunk, resume_after_closure, AfterCall, historyVars, VMInv, DepthInv
<1>2. returned # Running /\ Len(frames') = Len(frames) - 1 /\ Len(frames) \in Nat
  BY <1>1, LastFrame DEF VMInv, Resuming
<1> QED BY <1>1, <1>2 DEF Activations, VMInv, DepthInv

LEMMA RetDeactivates ==
  ASSUME VMInv, fn_ret
  PROVE  /\ Activations' = Activations - 1 /\ depth' = DepthAfterRet
         /\ UNCHANGED <<wrapped, frames, runs>> /\ Activations = Len(frames) + leaked + 1
         /\ Handle("ret") /\ returned = Running /\ returned' = status'
<1>1. /\ Handle("ret") /\ returned = Running /\ depth' = DepthAfterRet /\ returned' = status'
      /\ UNCHANGED <<wrapped, frames, leaked, runs>>
  BY DEF fn_ret, Handle, Executing, historyVars, codeVars
<1>2. returned' # Running
  BY StatusesAreNotRunning DEF fn_ret, FinalStatus, DepthInv, VMInv
<1>3. Len(frames) \in Nat /\ leaked \in Nat
  BY DEF DepthInv, VMInv
<1> QED BY <1>1, <1>2, <1>3 DEF Activations

LEMMA ActivationsStay ==
  ASSUME VMInv, StayStep \/ FailStep \/ fault \/ UNCHANGED vars
  PROVE  Activations' = Activations /\ UNCHANGED <<depth, wrapped, frames, runs>>
<1>1. CASE StayStep
  BY <1>1, StayStepsGoOn DEF VMInv, Activations
<1>2. CASE FailStep
  <2>1. /\ returned = Running /\ returned' # Running /\ leaked' = leaked + 1
        /\ UNCHANGED <<depth, wrapped, frames, runs>>
    BY <1>2, FailStepsEnd DEF VMInv, Executing, codeVars
  <2>2. Len(frames) \in Nat /\ leaked \in Nat
    BY DEF VMInv, DepthInv
  <2> QED BY <2>1, <2>2 DEF Activations
<1>3. CASE fault \/ UNCHANGED vars
  BY <1>3 DEF fault, vars, statusVars, historyVars, codeVars, Activations
<1> QED BY <1>1, <1>2, <1>3

LEMMA InvokeActivates ==
  ASSUME VMInv, tbasic_invoke
  PROVE  /\ Activations' = 1 /\ depth' = 1 /\ UNCHANGED wrapped /\ runs' # runs
         /\ status' = "pending" /\ returned' = Running
<1>1. /\ frames' = <<>> /\ leaked' = 0 /\ returned' = Running /\ depth' = 1 /\ UNCHANGED wrapped
      /\ runs' = runs + 1 /\ status' = "pending"
  BY DEF tbasic_invoke, Ended
<1>2. runs + 1 # runs
  BY CallsAssumption DEF VMInv, StatusInv
<1> QED BY <1>1, <1>2 DEF Activations

LEMMA ExactInit == Init => ExactDepth
<1> SUFFICES ASSUME Init PROVE ExactDepth
  OBVIOUS
<1>1. Len(frames) = 0 /\ leaked = 0 /\ returned = Running /\ depth = 1
  BY DEF Init
<1> QED BY <1>1 DEF ExactDepth, Activations

LEMMA ExactStep ==
  ASSUME VMInv, ExactDepth, [Next]_vars
  PROVE  ExactDepth'
<1> SUFFICES ASSUME ~ wrapped' PROVE depth' = Activations'
  BY DEF ExactDepth
<1>0. PICK S : frames \in Seq(S) /\ leaked \in Nat
  BY DEF VMInv, DepthInv
<1>1. DepthInv /\ Len(frames) \in Nat /\ depth \in 0 .. DepthModulus - 1
  BY <1>0, DepthRange DEF VMInv
<1>2. CASE StayStep \/ FailStep \/ fault \/ UNCHANGED vars
  BY <1>2, ActivationsStay DEF ExactDepth
<1>3. CASE call_chunk \/ call_closure
  <2>1. /\ ~ wrapped /\ DepthInCall # 0 /\ depth' = DepthInCall
        /\ Activations' = Activations + 1
    BY <1>3, CallsActivate
  <2>2. DepthInCall = depth + 1
    BY <1>1, <2>1, DepthSteps
  <2> QED BY <2>1, <2>2 DEF ExactDepth
<1>4. CASE resume_after_chunk \/ resume_after_closure
  BY <1>4, ResumesActivate DEF ExactDepth
<1>5. CASE fn_ret
  <2>1. /\ ~ wrapped /\ depth' = DepthAfterRet /\ Activations' = Activations - 1
        /\ Activations >= 1
    BY <1>0, <1>1, <1>5, RetDeactivates
  <2>2. depth = Activations /\ depth # 0
    BY <1>1, <2>1 DEF ExactDepth
  <2> QED BY <1>1, <2>1, <2>2, DepthSteps
<1>6. CASE tbasic_invoke
  BY <1>6, InvokeActivates
<1> QED BY <1>2, <1>3, <1>4, <1>5, <1>6, StaysOrFails

\* A RET with no callers left, and no other, ends the run.
LEMMA LastRet ==
  ASSUME VMInv, ExactDepth, fn_ret, ~ wrapped, depth' < 1
  PROVE  frames = <<>>
<1>0. PICK S : frames \in Seq(S) /\ leaked \in Nat
  BY DEF VMInv, DepthInv
<1>1. DepthInv /\ depth \in 0 .. DepthModulus - 1 /\ DepthModulus \in Nat /\ DepthModulus > 1
  BY DepthRange, DepthAssumption DEF VMInv
<1>2. depth' = DepthAfterRet /\ depth = Len(frames) + leaked + 1
  BY RetDeactivates DEF ExactDepth
<1>3. depth = 1
  BY <1>1, <1>2, DepthSteps
<1>4. Len(frames) = 0
  BY <1>0, <1>2, <1>3
<1> QED BY <1>0, <1>4

LEMMA OkStep ==
  ASSUME VMInv, ExactDepth, OkInv, [Next]_vars
  PROVE  OkInv'
<1> SUFFICES ASSUME ~ wrapped', "ok" \in {status', returned'}
             PROVE  frames' = <<>> /\ returned' = "ok"
  BY DEF OkInv
<1>0. "ok" # Running
  BY DEF Running
<1>1. CASE StayStep
  <2>1. returned = Running /\ UNCHANGED <<returned, wrapped>>
    BY <1>1, StayStepsGoOn DEF VMInv, Executing
  <2>2. status' \in {status, "pending", "err_throw"}
    BY <1>1, StayStepsKeepStatus DEF VMInv
  <2> QED BY <1>0, <2>1, <2>2 DEF OkInv
<1>2. CASE FailStep
  <2>1. /\ returned = Running /\ UNCHANGED wrapped /\ returned' \in {"err_bad_call", "err_abort"}
        /\ status' \in {status, "err_bad_call", "err_abort"}
    BY <1>2, FailStepsEnd DEF VMInv, Executing
  <2> QED BY <1>0, <2>1 DEF OkInv
<1>3. CASE call_chunk \/ call_closure
  <2>1. returned = Running /\ UNCHANGED <<status, returned>> /\ ~ wrapped
    BY <1>3, CallsActivate
  <2> QED BY <1>0, <2>1 DEF OkInv
<1>4. CASE resume_after_chunk \/ resume_after_closure
  <2>1. frames # <<>> /\ status' \in {status, returned} /\ returned' \in {status, Running} /\ UNCHANGED wrapped
    BY <1>4 DEF resume_after_chunk, resume_after_closure, StatusAfterClosure, Resuming, historyVars
  <2> QED BY <1>0, <2>1 DEF OkInv
<1>5. CASE fn_ret
  <2>1. returned = Running /\ UNCHANGED <<wrapped, frames>> /\ returned' = status'
    BY <1>5, RetDeactivates
  <2>2. status # "ok"
    BY <1>0, <2>1 DEF OkInv
  <2>3. depth' < 1
    BY <1>5, <2>1, <2>2 DEF fn_ret
  <2> QED BY <1>5, <2>1, <2>3, LastRet
<1>6. CASE tbasic_invoke
  BY <1>0, <1>6, InvokeActivates
<1>7. CASE fault \/ UNCHANGED vars
  BY <1>7 DEF fault, vars, statusVars, historyVars, codeVars, OkInv
<1> QED BY <1>1, <1>2, <1>3, <1>4, <1>5, <1>6, <1>7, StaysOrFails

LEMMA OkInit == Init => OkInv
BY DEF Init, OkInv, Running

\* The status of the VM is ok only when the main chunk has executed a RET: not
\* while a handler runs, nor while a callee's result is on its way (fn_ret and
\* its depth, vm.c; abandoned activations never bring the depth to zero).
THEOREM OkIsTheMainChunks == Spec => []OkMeansMainReturned
<1> DEFINE Inv == VMInv /\ ExactDepth /\ OkInv
<1>1. Init => Inv
  BY VMInvInit, ExactInit, OkInit
<1>2. Inv /\ [Next]_vars => Inv'
  BY VMInvStep, ExactStep, OkStep
<1>3. Inv => OkMeansMainReturned
  BY DEF OkInv, OkMeansMainReturned
<1> QED BY <1>1, <1>2, <1>3, PTL DEF Spec
-----------------------------------------------------------------------------
(***************************************************************************)
(* An exception on its way.                                                *)
(***************************************************************************)
\* In a chunk, nothing but the CATCH or the RET that the search found.
LEMMA StayStepsKeepThrow ==
  ASSUME VMInv, ThrowInv, StayStep, ~ wrapped
  PROVE  /\ status' = "err_throw" => Code'[ip'].op \in {"catch_err", "ret"}
         /\ status = "err_throw" => Handle("catch_err")
<1>1. Executing /\ CodeInv /\ UNCHANGED <<program, chunk_id>>
  BY StayStepsGoOn DEF VMInv
<1>2. CASE fn_raise_err
  <2>1. /\ Instr.op = "raise_err" /\ ip' = vm_locally_propagate_error(Code, ip, trying_except)
    BY <1>2 DEF fn_raise_err, Handle
  <2>2. Marked(Code) /\ ip \in 1 .. Len(Code) /\ WellFormed(Code) /\ Code' = Code
    BY <1>1, <2>1, JumpsLand, InstrTyped DEF Code
  <2>3. status # "err_throw"
    BY <1>1, <2>1 DEF ThrowInv
  <2> QED BY <2>1, <2>2, <2>3, SearchLands
<1>3. CASE fn_catch_err
  BY <1>3 DEF fn_catch_err
<1>4. CASE ~ fn_raise_err /\ ~ fn_catch_err
  <2>1. Instr.op \notin {"catch_err", "ret"} /\ status' \in {status, "pending"}
    BY <1>4 DEF StayStep, fn_put_none, fn_put_bool, fn_put_k, fn_load_imm_gid, fn_load_local,
       fn_get_upv, fn_reserve, fn_store_local, fn_set_upv, fn_pop, fn_nop, fn_jmp,
       fn_jmp_false, fn_jmp_if, fn_native_call, fn_mk_closure, fn_try, fn_abort_if,
       Put, SameStatus, Handle, Running
  <2> QED BY <1>1, <2>1 DEF ThrowInv
<1> QED BY <1>2, <1>3, <1>4

\* A caller that goes on searches its chunk when its callee has thrown.
LEMMA ResumesKeepThrow ==
  ASSUME VMInv, ExactDepth, ThrowInv, resume_after_chunk \/ resume_after_closure, ~ wrapped
  PROVE  /\ returned' = Running
         /\ status' = "err_throw" => Code'[ip'].op \in {"catch_err", "ret"}
         /\ status = "err_throw" => status' = "err_throw"
<1>1. /\ Resuming /\ DepthInv /\ CodeInv
      /\ Resuming /\ "err_throw" \in {status, returned} =>
           status = returned /\ dispatcher = "vm_seek_catch"
  BY DEF resume_after_chunk, resume_after_closure, VMInv, ThrowInv
<1>2. depth # 0
  <2>1. Len(frames) \in Nat \ {0} /\ leaked \in Nat /\ returned # Running
    BY <1>1, LastFrame DEF DepthInv, Resuming
  <2> QED BY <2>1 DEF ExactDepth, Activations
<1>3. PICK frame :
        /\ frame = Last(frames) /\ AfterCall(frame) /\ UNCHANGED program /\ returned' = Running
        /\ Dispatch(program[frame.chunk], frame.ip)
        /\ status' \in {status, returned}
  BY <1>2 DEF resume_after_chunk, resume_after_closure, StatusAfterClosure
<1>4. FrameOK(frame) /\ Code' = program[frame.chunk]
  BY <1>1, <1>3, LastFrame DEF AfterCall, Code
<1>5. /\ WellFormed(program[frame.chunk]) /\ Marked(program[frame.chunk])
      /\ frame.ip \in 1 .. Len(program[frame.chunk])
  BY <1>1, <1>4, FrameCode
<1>6. dispatcher = "vm_seek_catch" => program[frame.chunk][ip'].op \in {"catch_err", "ret"}
  BY <1>3, <1>5, DispatchLands
<1> QED BY <1>1, <1>3, <1>4, <1>6

LEMMA RetKeepsThrow ==
  ASSUME VMInv, ExactDepth, fn_ret, ~ wrapped
  PROVE  /\ Resuming' /\ status' = "err_throw" => dispatcher' = "vm_seek_catch"
         /\ status = "err_throw" => status' = "err_throw"
<1>1. UNCHANGED frames
  BY RetDeactivates
<1>2. depth' < 1 => frames' = <<>>
  BY <1>1, LastRet
<1> QED BY <1>2 DEF fn_ret, FinalStatus, Resuming

LEMMA ThrowStep ==
  ASSUME VMInv, ExactDepth, ThrowInv, [Next]_vars
  PROVE  ThrowInv' /\ (status = "err_throw" /\ ~ wrapped =>
                         status' = "err_throw" \/ Handle("catch_err") \/ runs' # runs)
<1>0. "err_throw" # Running /\ Instr' = Code'[ip'] /\ (wrapped => wrapped')
  <2>1. wrapped => wrapped'
    BY ActivationsStay, CallsActivate, ResumesActivate, RetDeactivates, InvokeActivates,
       StaysOrFails
  <2> QED BY <2>1 DEF Running, Instr
<1>1. CASE wrapped
  BY <1>0, <1>1 DEF ThrowInv
<1> SUFFICES ASSUME ~ wrapped
             PROVE  /\ Executing' /\ status' = "err_throw" => Code'[ip'].op \in {"catch_err", "ret"}
                    /\ Resuming' /\ "err_throw" \in {status', returned'} =>
                         status' = returned' /\ dispatcher' = "vm_seek_catch"
                    /\ status = "err_throw" =>
                         status' = "err_throw" \/ Handle("catch_err") \/ runs' # runs
  BY <1>0, <1>1 DEF ThrowInv
<1>2. CASE StayStep
  <2>1. returned' = Running
    BY <1>2, StayStepsGoOn DEF VMInv, Executing
  <2> QED BY <1>2, <2>1, StayStepsKeepThrow DEF Resuming
<1>3. CASE FailStep
  <2>1. /\ Executing /\ ~ Executing' /\ returned' \in {"err_bad_call", "err_abort"}
        /\ status' \in {status, "err_bad_call", "err_abort"}
    BY <1>3, FailStepsEnd DEF VMInv
  <2>2. Instr.op \notin {"catch_err", "ret"}
    BY <1>3 DEF FailStep, fn_mk_closure, call_nothing, fn_abort_if, Handle
  <2> QED BY <2>1, <2>2 DEF ThrowInv
<1>4. CASE call_chunk \/ call_closure
  <2>1. Executing /\ Instr.op = "call" /\ UNCHANGED <<status, returned>> /\ returned = Running
    BY <1>4, CallsActivate, TouchedHere
  <2> QED BY <2>1 DEF ThrowInv, Resuming
<1>5. CASE resume_after_chunk \/ resume_after_closure
  BY <1>0, <1>5, ResumesKeepThrow DEF Resuming
<1>6. CASE fn_ret
  <2>1. returned' = status' /\ ~ Executing'
    <3>1. returned' # Running
      BY <1>6, StatusesAreNotRunning DEF fn_ret, FinalStatus, VMInv, DepthInv
    <3> QED BY <1>6, <3>1, RetDeactivates DEF Executing
  <2> QED BY <1>6, <2>1, RetKeepsThrow
<1>7. CASE tbasic_invoke
  BY <1>0, <1>7, InvokeActivates
<1>8. CASE fault \/ UNCHANGED vars
  <2>1. UNCHANGED <<status, returned, dispatcher>>
    BY <1>8 DEF fault, vars, statusVars
  <2>2. Executing' => Executing /\ Code'[ip'] = Instr
    BY <1>8 DEF fault, vars, codeVars, statusVars, Executing, Alive, Code, Instr
  <2>3. Resuming' => Resuming
    BY <1>8 DEF fault, vars, codeVars, statusVars, Resuming, Alive
  <2> QED BY <2>1, <2>2, <2>3 DEF ThrowInv
<1> QED BY <1>2, <1>3, <1>4, <1>5, <1>6, <1>7, <1>8, StaysOrFails

LEMMA ThrowInit == Init => ThrowInv
BY DEF Init, ThrowInv, Resuming, Running

\* An exception is not lost on its way through the callers: the status of the
\* VM stays err_throw until a CATCH is executed or the host starts over
\* (fn_ret, vm_seek_catch, the rest of fn_call and closure_invoke_fn).
THEOREM ExceptionsAreNotLost == Spec => NoExceptionLost
<1> DEFINE Inv == VMInv /\ ExactDepth /\ ThrowInv
           Kept == status = "err_throw" /\ ~ wrapped =>
                     status' = "err_throw" \/ Handle("catch_err") \/ runs' # runs
<1>1. Init => Inv
  BY VMInvInit, ExactInit, ThrowInit
<1>2. Inv /\ [Next]_vars => Inv' /\ [Kept]_vars
  BY VMInvStep, ExactStep, ThrowStep
<1> QED BY <1>1, <1>2, PTL DEF Spec, NoExceptionLost
=============================================================================
