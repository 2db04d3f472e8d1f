--------------------------- MODULE ScopesInvariant ---------------------------
(***************************************************************************)
(* The inductive invariant of Scopes, for all names, literals and bounds,  *)
(* what a step must show to keep it, and the steps of operands,            *)
(* declarations and statements.  ScopesProofs has the other steps and the  *)
(* theorems.                                                               *)
(*                                                                         *)
(* A program is compiled by calls inside calls, and a function that is     *)
(* compiled in the middle of another has its own chunk and its own symbol  *)
(* table.  The invariant therefore speaks of all calls in progress, not    *)
(* just of the top one: which chunk, table and loop each of them will find *)
(* as it goes on (Nested), and that these are as it left them (NamesFit,   *)
(* OpenFit, JumpsFit).                                                     *)
(***************************************************************************)
EXTENDS Scopes, SequenceTheorems, FiniteSetTheorems, Recursion, TLAPS

(***************************************************************************)
(* Types.                                                                  *)
(***************************************************************************)
Places == {"value", "then", "block", "body", "update", "updated"}
FunctionFns == {"do_func", "do_lambda"}
LoopFns == {"do_while", "do_for"}

Lexemes == {literal.lexeme : literal \in Numerals}
Values == {literal.value : literal \in Numerals}
Contents == {literal.text : literal \in Texts}

LocalInfos == [name : Names, id : Nat, domain : {"local"}]
UpvalInfos == [name : Names, id : Nat, domain : {"upval"}]
ConstantInfos == [name : Lexemes, id : Nat, domain : {"constant"}]
FuncInfos == [name : Names, id : Nat, domain : {"func"}]
StringInfos == [name : Contents, id : Nat, domain : {"string"}]
ScopeInfos == LocalInfos \cup UpvalInfos \cup ConstantInfos
Resolved == LocalInfos \cup UpvalInfos \cup FuncInfos

ScopeRecs == [infos : Seq(ScopeInfos), capacity : Nat, local_argc : Nat, next_local_id : Nat]

LoopIds == [chunk : Nat, begin : Nat]
LoopRecs == [loop_breaks : SUBSET Nat, loop_continues : SUBSET Nat]

Roles == {"out", "skip", "repeat", "again", "break", "continue"}
JumpFors == [role : Roles, loop : LoopIds]
Insts(ops, fors) ==
  [op : ops, flag : Int, wide : Int, for : fors, info : {"good", "moved", "overwritten"}]
AllInsts ==
  Insts({"reserve", "nop", "pop", "mk_closure", "load_imm_gid"}, {"none"})
    \cup [op : {"ret"}, flag : {"last"}, wide : {0}, for : {"none"}, info : {"good"}]
    \cup Insts({"put_k"}, Numerals) \cup Insts({"load_string_k"}, Texts)
    \cup Insts({"load_local", "store_local", "bind_lstmp", "get_upv", "set_upv", "load_imm_gid"}, Names)
    \cup Insts({"jmp", "jmp_false"}, JumpFors)

ChunkRecs == [code : Seq(AllInsts), constants : Seq(Values), params : Seq(Names), captures : Seq(Names)]

PlainFrames == [fn : {"do_source", "do_binding"}, at : Places]
FuncFrames == [fn : {"do_func"}, at : Places, old_chunk_idx : Nat]
LambdaFrames == [fn : {"do_lambda"}, at : Places, old_chunk_idx : Nat, used_local_ids : Seq(Nat)]
VarsFrames == [fn : {"do_vars"}, at : Places, name : Names, id : Nat, capacity : Nat]
ExprFrames == [fn : {"do_expr_stmt"}, at : Places, dest : {"none", "local", "upval", "func"},
               info : Resolved \cup {NoInfo}]
WhileFrames == [fn : {"do_while"}, at : Places, check : Nat, out : Nat, loop : LoopIds]
ForFrames == [fn : {"do_for"}, at : Places, part : {"counter", "condition"}, info : Resolved \cup {NoInfo},
              capacity : Nat, begin : Nat, out : Nat, loop : LoopIds]
AllFrames == PlainFrames \cup FuncFrames \cup LambdaFrames \cup VarsFrames \cup ExprFrames
               \cup WhileFrames \cup ForFrames

\* The type invariant.
ScopesTypeOK ==
  /\ chunks \in Seq(ChunkRecs) /\ chunk_idx \in DOMAIN chunks
  /\ globals \in Seq(FuncInfos \cup StringInfos) /\ strings \in Seq(Contents)
  /\ locals \in Seq(ScopeRecs) /\ loops \in Seq(LoopRecs)
  /\ saved_info \in Resolved \cup {NoInfo}
  /\ frames \in Seq(AllFrames)
  /\ status \in {"parsing", "done", "dead", "crashed"}

(***************************************************************************)
(* How the frames nest: own[i] is the chunk that is compiled when frame i  *)
(* is on top, and how many scopes and loops there are then.                *)
(***************************************************************************)
Owners == [chunk : Nat, scopes : Nat, loops : Nat]

\* A frame on the one below it.
Above(own, i) ==
  LET fn == frames[i].fn
  IN /\ fn # "do_source"
     /\ fn \in FunctionFns => frames[i].old_chunk_idx = own[i - 1].chunk
     /\ fn \notin FunctionFns => own[i].chunk = own[i - 1].chunk
     /\ own[i].scopes = own[i - 1].scopes + (IF fn \in FunctionFns THEN 1 ELSE 0)
     /\ own[i].loops = own[i - 1].loops + (IF fn \in LoopFns THEN 1 ELSE 0)
     /\ frames[i - 1].at \in IF fn = "do_lambda" THEN {"then"} ELSE {"body", "updated"}

\* A frame on one that is anywhere below it.
FarAbove(own, i, j) ==
  /\ own[i].chunk <= own[j].chunk /\ own[i].scopes <= own[j].scopes /\ own[i].loops <= own[j].loops
  /\ frames[j].fn \in FunctionFns => own[i].chunk < own[j].chunk
  /\ frames[j].fn \in LoopFns => own[i].loops < own[j].loops
  /\ own[i].chunk = own[j].chunk <=> own[i].scopes = own[j].scopes

\* The calls in progress belong to chunks, tables and loops as they were entered.
Nested(own) ==
  /\ own \in Seq(Owners) /\ Len(own) = Len(frames) /\ Len(own) > 0
  /\ frames[1].fn = "do_source" /\ own[1] = [chunk |-> 1, scopes |-> 1, loops |-> 0]
  /\ own[Len(own)] = [chunk |-> chunk_idx, scopes |-> Len(locals), loops |-> Len(loops)]
  /\ \A i \in DOMAIN own : own[i].chunk \in DOMAIN chunks
  /\ \A i \in 2 .. Len(own) : Above(own, i)
  /\ \A i, j \in DOMAIN own : i < j => FarAbove(own, i, j)
  /\ \A l \in 1 .. Len(loops) : \E i \in DOMAIN own : frames[i].fn \in LoopFns /\ own[i].loops = l

(***************************************************************************)
(* Names and literals.                                                     *)
(***************************************************************************)
Filed(scope, info) == \E k \in DOMAIN scope.infos : scope.infos[k] = info
FiledLocal(scope, name, id) == Filed(scope, make_symbol_info(name, id, "local"))

\* A literal of this spelling has been compiled, and this constant is its value.
ConstantOf(c, lexeme, id) ==
  \E j \in DOMAIN CodeOf(c) :
    /\ CodeOf(c)[j].op = "put_k" /\ CodeOf(c)[j].for.lexeme = lexeme
    /\ Holds(chunks[c].constants, id, CodeOf(c)[j].for.value)

\* The entries of a symbol table: locals have a name and a slot each.
LocalsFit(scope) ==
  \A i \in DOMAIN scope.infos : scope.infos[i].domain = "local" =>
    /\ scope.infos[i].id \in 1 .. scope.next_local_id
    /\ \A j \in DOMAIN scope.infos : scope.infos[j].domain = "local" =>
         (scope.infos[j].name = scope.infos[i].name <=> scope.infos[j].id = scope.infos[i].id)

\* A capture is filed under its place in the closure, a parameter under its place
\* among the arguments.
UpvalsFit(scope, captures) ==
  \A i \in DOMAIN scope.infos : scope.infos[i].domain = "upval" =>
    Holds(captures, scope.infos[i].id, scope.infos[i].name)

ConstantsFit(scope, c) ==
  \A i \in DOMAIN scope.infos : scope.infos[i].domain = "constant" =>
    ConstantOf(c, scope.infos[i].name, scope.infos[i].id)

ParamsFit(scope, params) ==
  /\ scope.local_argc = Len(params)
  /\ \A k \in DOMAIN params :
       \E i \in DOMAIN scope.infos :
         /\ scope.infos[i].domain = "local" /\ scope.infos[i].name = params[k]
         /\ IsInjective(params) => scope.infos[i].id = k

ScopeFits(scope, c) ==
  /\ LocalsFit(scope) /\ UpvalsFit(scope, chunks[c].captures) /\ ConstantsFit(scope, c)
  /\ ParamsFit(scope, chunks[c].params)

\* What a call in progress knows of names.
FrameFits(own, i) ==
  LET frame == frames[i]
      scope == locals[own[i].scopes]
      around == locals[own[i - 1].scopes]
  IN /\ frame.fn = "do_vars" => FiledLocal(scope, frame.name, frame.id)
     /\ frame.fn = "do_for" =>
          (frame.info # NoInfo /\ frame.info.domain = "local" => Filed(scope, frame.info))
     /\ frame.fn = "do_expr_stmt" =>
          /\ frame.dest = "none" <=> frame.info = NoInfo
          /\ frame.dest # "none" => frame.dest = frame.info.domain
          /\ frame.dest \in {"local", "upval"} => Filed(scope, frame.info)
     /\ frame.fn = "do_lambda" =>
          LET captures == chunks[own[i].chunk].captures
          IN /\ Len(frame.used_local_ids) = Len(captures)
             /\ \A k \in DOMAIN captures : FiledLocal(around, captures[k], frame.used_local_ids[k])

\* A string is found by its text.
StringsFit ==
  \A i \in DOMAIN globals : globals[i].domain = "string" => Holds(strings, globals[i].id, globals[i].name)

\* Instructions, whatever the symbol table.
LiteralFits(c, i) ==
  LET inst == CodeOf(c)[i]
  IN /\ inst.op = "put_k" => ConstantOf(c, inst.for.lexeme, inst.wide)
     /\ inst.op = "load_string_k" => Holds(strings, inst.wide, inst.for.text)

CaptureFits(c, i) ==
  LET code == CodeOf(c)
      lambda == code[i - code[i].wide - 1]
  IN /\ OfUpval(code[i]) /\ Good(code[i]) => Holds(chunks[c].captures, code[i].wide, code[i].for)
     /\ code[i].op = "mk_closure" =>
          /\ code[i].wide \in Nat /\ i - code[i].wide - 1 \in DOMAIN code
          /\ lambda.op = "load_imm_gid" /\ lambda.wide \in DOMAIN chunks
          /\ [k \in 1 .. code[i].wide |-> code[i - code[i].wide + k - 1].for] = chunks[lambda.wide].captures

\* A slot that code uses is in the table while its function is compiled.
SlotsFiled(scope, c) ==
  \A i \in DOMAIN CodeOf(c) :
    LET inst == CodeOf(c)[i]
    IN OfSlot(inst) /\ Good(inst) => FiledLocal(scope, inst.for, inst.wide)

\* The RET that ends a function comes last.
Unfinished(c) ==
  /\ \A i \in DOMAIN CodeOf(c) : CodeOf(c)[i].op # "ret"
  /\ CodeOf(c) # <<>>

\* A chunk, finished or not, has the slots it uses reserved.
CodeFits(c) ==
  /\ \A i \in DOMAIN CodeOf(c) : LiteralFits(c, i) /\ CaptureFits(c, i)
  /\ NamedApart(c) => SlotsApart(c) /\ SlotsReserved(c)
  /\ CodeOf(c) # <<>> /\ CodeOf(c)[1].op = "reserve"

(***************************************************************************)
(* Jumps.                                                                  *)
(***************************************************************************)
\* The jumps of a loop that are there for one reason.
JumpsOf(role, loop) ==
  {i \in DOMAIN CodeOf(loop.chunk) :
     LET inst == CodeOf(loop.chunk)[i]
     IN IsJump(inst) /\ inst.for = [role |-> role, loop |-> loop]}

\* A loop whose condition has been compiled has its jump out.
Settled(frame) == frame.at \notin {"value", "then"}

\* What a loop in progress has recorded of its jumps is what the code has of them.
LoopFits(own, i) ==
  LET frame == frames[i]
      loop == frame.loop
      tracked == loops[own[i].loops]
  IN /\ loop.chunk = own[i].chunk /\ loop.begin <= Len(CodeOf(loop.chunk))
     /\ tracked.loop_breaks = {j - 1 : j \in JumpsOf("break", loop)}
     /\ tracked.loop_continues = {j - 1 : j \in JumpsOf("continue", loop)}
     /\ JumpsOf("again", loop) = {}
     /\ JumpsOf("out", loop) = IF Settled(frame) THEN {frame.out + 1} ELSE {}
     /\ frame.fn = "do_while" => frame.check = loop.begin
     /\ frame.fn = "do_for" /\ Settled(frame) => frame.out + 2 \in JumpsOf("skip", loop)
     /\ \A j \in DOMAIN own : j # i /\ frames[j].fn \in LoopFns => frames[j].loop # loop

JumpFits(c, i) ==
  LET inst == CodeOf(c)[i]
  IN IsJump(inst) =>
       /\ inst.for.loop.chunk = c /\ inst.for.loop.begin < i
       /\ inst.for.role \in {"break", "out"} => inst.flag = 0

JumpsFit(own) ==
  /\ \A c \in DOMAIN chunks : \A i \in DOMAIN CodeOf(c) : JumpFits(c, i)
  /\ \A i \in DOMAIN own : frames[i].fn \in LoopFns => LoopFits(own, i)
  /\ LoopJumpsMeet

(***************************************************************************)
(* The invariant.                                                          *)
(***************************************************************************)
\* For each call in progress: its table, what it remembers, its chunk.
NamesFit(own) ==
  /\ \A i \in DOMAIN own : /\ ScopeFits(locals[own[i].scopes], own[i].chunk) /\ FrameFits(own, i)
                           /\ Unfinished(own[i].chunk)

OpenFit(own) ==
  /\ \A i \in DOMAIN own : SlotsFiled(locals[own[i].scopes], own[i].chunk)

ProgramFits == ~ StrayJump => \A c \in DOMAIN chunks : CodeFits(c)

Compiling(own) ==
  /\ Nested(own) /\ NamesFit(own)
  /\ ~ StrayJump => OpenFit(own) /\ JumpsFit(own)

\* An error leaves the calls where they are, and nobody goes on with them.
ScopesIInv ==
  /\ ScopesTypeOK /\ StringsFit /\ ProgramFits /\ LoopJumpsMeet
  /\ status = "parsing" => \E own \in Seq(Owners) : Compiling(own)

(***************************************************************************)
(* Symbol tables.                                                          *)
(***************************************************************************)
LEMMA LeastIn ==
  ASSUME NEW S \in SUBSET Nat, S # {}
  PROVE  Min(S) \in S /\ \A n \in S : Min(S) <= n
<1>1. \E x \in S : \A y \in S : x <= y
  BY LeastNumber
<1> QED BY <1>1 DEF Min

\* What is found is an entry of the table, if there is one.
LEMMA FindsEntry ==
  ASSUME NEW T, NEW infos \in Seq(T), NEW name, NEW domain, domain # "none",
         NEW info, info = SymbolTable_find(infos, name, domain)
  PROVE  \/ info = NoInfo /\ \A i \in DOMAIN infos : ~ (infos[i].name = name /\ infos[i].domain = domain)
         \/ /\ info # NoInfo /\ info.name = name /\ info.domain = domain /\ info \in T
            /\ \E i \in DOMAIN infos : infos[i] = info
<1>1. PICK found : found = {i \in DOMAIN infos : infos[i].name = name /\ infos[i].domain = domain}
  OBVIOUS
<1>2. info = IF found = {} THEN NoInfo ELSE infos[Min(found)]
  BY <1>1 DEF SymbolTable_find
<1>3. CASE found = {}
  BY <1>1, <1>2, <1>3
<1>4. CASE found # {}
  <2>1. found \in SUBSET Nat
    BY <1>1
  <2>2. PICK i \in found : i = Min(found)
    BY <1>4, <2>1, LeastIn
  <2>3. i \in DOMAIN infos /\ infos[i].name = name /\ infos[i].domain = domain /\ info = infos[i]
    BY <1>1, <1>2, <1>4, <2>2
  <2>4. info # NoInfo
    <3>1. info.domain # "none"
      BY <2>3
    <3> QED BY <3>1 DEF NoInfo
  <2> QED BY <2>3, <2>4
<1> QED BY <1>3, <1>4

ScopeGrows(old, new) ==
  /\ \A k \in DOMAIN old.infos : k \in DOMAIN new.infos /\ new.infos[k] = old.infos[k]
  /\ new.local_argc = old.local_argc /\ new.next_local_id >= old.next_local_id

LEMMA GrowsOn ==
  ASSUME NEW a \in ScopeRecs, NEW b \in ScopeRecs, NEW c \in ScopeRecs, ScopeGrows(a, b), ScopeGrows(b, c)
  PROVE  ScopeGrows(a, c)
<1>1. a.next_local_id \in Nat /\ b.next_local_id \in Nat /\ c.next_local_id \in Nat
  BY DEF ScopeRecs
<1> QED BY <1>1 DEF ScopeGrows

LEMMA FiledStays ==
  ASSUME NEW old, NEW new, ScopeGrows(old, new), NEW info, Filed(old, info)
  PROVE  Filed(new, info)
BY DEF ScopeGrows, Filed

\* One more entry (SymbolTable_push).
LEMMA PushedScope ==
  ASSUME NEW scope \in ScopeRecs, NEW info \in ScopeInfos, NEW new, new = SymbolTable_push(scope, info)
  PROVE  /\ new \in ScopeRecs /\ ScopeGrows(scope, new)
         /\ DOMAIN new.infos = 1 .. Len(scope.infos) + 1 /\ Len(scope.infos) \in Nat
         /\ DOMAIN scope.infos = 1 .. Len(scope.infos)
         /\ new.infos[Len(scope.infos) + 1] = info /\ new.next_local_id = scope.next_local_id
         /\ new.infos = Append(scope.infos, info)
<1>1. PICK infos \in Seq(ScopeInfos) : infos = scope.infos
  BY DEF ScopeRecs
<1>2. scope.capacity \in Nat /\ scope.local_argc \in Nat /\ scope.next_local_id \in Nat
  BY DEF ScopeRecs
<1>3. PICK capacity \in Nat : capacity = IF Len(infos) >= scope.capacity THEN (scope.capacity * 3) \div 2 ELSE scope.capacity
  BY <1>2
<1>4. Append(infos, info) \in Seq(ScopeInfos)
  BY <1>1
<1>5. new = [scope EXCEPT !.infos = Append(infos, info), !.capacity = capacity]
  BY <1>1, <1>3 DEF SymbolTable_push
<1>6. /\ new \in ScopeRecs /\ new.infos = Append(infos, info) /\ new.local_argc = scope.local_argc
      /\ new.next_local_id = scope.next_local_id
  BY <1>4, <1>5 DEF ScopeRecs
<1>7. /\ DOMAIN Append(infos, info) = 1 .. Len(infos) + 1 /\ Len(infos) \in Nat
      /\ Append(infos, info)[Len(infos) + 1] = info
      /\ \A k \in 1 .. Len(infos) : Append(infos, info)[k] = infos[k]
      /\ DOMAIN infos = 1 .. Len(infos)
  BY <1>1
<1>8. ScopeGrows(scope, new)
  BY <1>1, <1>2, <1>6, <1>7 DEF ScopeGrows
<1> QED BY <1>1, <1>6, <1>7, <1>8

\* A local is recorded, or was before (compiler_record_local).
Recorded(scope, new, name) ==
  /\ new \in ScopeRecs /\ ScopeGrows(scope, new) /\ LocalsFit(new)
  /\ \A i \in DOMAIN new.infos : i \in DOMAIN scope.infos \/ (new.infos[i].domain = "local" /\ new.infos[i].name = name)
  /\ \E i \in DOMAIN new.infos : new.infos[i].domain = "local" /\ new.infos[i].name = name

FreshName(scope, name) ==
  \A i \in DOMAIN scope.infos : ~ (scope.infos[i].domain = "local" /\ scope.infos[i].name = name)

LEMMA RecordedLocal ==
  ASSUME NEW scope \in ScopeRecs, LocalsFit(scope), NEW name \in Names,
         NEW new, new = compiler_record_local(scope, name)
  PROVE  /\ Recorded(scope, new, name)
         /\ FreshName(scope, name) =>
              /\ new.next_local_id = scope.next_local_id + 1
              /\ \E i \in DOMAIN new.infos : new.infos[i] = make_symbol_info(name, scope.next_local_id + 1, "local")
         /\ ~ FreshName(scope, name) => new = scope
<1>0. scope.infos \in Seq(ScopeInfos) /\ scope.next_local_id \in Nat
  BY DEF ScopeRecs
<1>1. PICK info : info = SymbolTable_find(scope.infos, name, "local")
  OBVIOUS
<1>2. \/ info = NoInfo /\ \A i \in DOMAIN scope.infos : ~ (scope.infos[i].name = name /\ scope.infos[i].domain = "local")
      \/ /\ info # NoInfo /\ info.name = name /\ info.domain = "local"
         /\ \E i \in DOMAIN scope.infos : scope.infos[i] = info
  BY <1>0, <1>1, FindsEntry
<1>3. CASE info # NoInfo
  <2>1. new = scope
    BY <1>1, <1>3 DEF compiler_record_local, Knows
  <2>2. ScopeGrows(scope, new)
    BY <1>0, <2>1 DEF ScopeGrows
  <2>3. ~ FreshName(scope, name)
    BY <1>2, <1>3 DEF FreshName
  <2>4. \E i \in DOMAIN new.infos : new.infos[i].domain = "local" /\ new.infos[i].name = name
    BY <2>1, <2>3 DEF FreshName
  <2> QED BY <2>1, <2>2, <2>3, <2>4 DEF Recorded
<1>4. CASE info = NoInfo
  <2>0. FreshName(scope, name)
    BY <1>2, <1>4 DEF FreshName
  <2>1. PICK next \in Nat : next = scope.next_local_id + 1
    BY <1>0
  <2>2. PICK entry : entry = make_symbol_info(name, next, "local")
    OBVIOUS
  <2>3. entry \in ScopeInfos /\ entry.name = name /\ entry.id = next /\ entry.domain = "local"
    BY <2>2 DEF make_symbol_info, ScopeInfos, LocalInfos
  <2>4. PICK room : room = [scope EXCEPT !.next_local_id = next]
    OBVIOUS
  <2>5. room \in ScopeRecs /\ room.infos = scope.infos /\ room.next_local_id = next /\ room.local_argc = scope.local_argc
    BY <2>4 DEF ScopeRecs
  <2>6. new = SymbolTable_push(room, entry)
    BY <1>0, <1>1, <1>4, <2>1, <2>2, <2>4 DEF compiler_record_local, Knows
  <2>7. /\ new \in ScopeRecs /\ ScopeGrows(room, new)
        /\ DOMAIN new.infos = 1 .. Len(scope.infos) + 1 /\ Len(scope.infos) \in Nat
        /\ DOMAIN scope.infos = 1 .. Len(scope.infos)
        /\ new.infos[Len(scope.infos) + 1] = entry /\ new.next_local_id = next
    BY <2>3, <2>5, <2>6, PushedScope
  <2>8. ScopeGrows(scope, new)
    BY <1>0, <2>1, <2>5, <2>7 DEF ScopeGrows
  <2>9. \A i \in DOMAIN new.infos : \/ i \in DOMAIN scope.infos /\ new.infos[i] = scope.infos[i]
                                    \/ i = Len(scope.infos) + 1 /\ new.infos[i] = entry
    BY <2>7, <2>8 DEF ScopeGrows
  <2>10. LocalsFit(new)
    <3>1. \A i \in DOMAIN scope.infos : scope.infos[i].domain = "local" =>
            /\ scope.infos[i].id \in 1 .. next /\ scope.infos[i].id # next /\ scope.infos[i].name # name
      BY <1>0, <2>0, <2>1 DEF LocalsFit, FreshName
    <3>2. ASSUME NEW i \in DOMAIN new.infos, new.infos[i].domain = "local"
          PROVE  new.infos[i].id \in 1 .. next
      <4>1. CASE i \in DOMAIN scope.infos /\ new.infos[i] = scope.infos[i]
        BY <3>1, <3>2, <4>1
      <4>2. CASE new.infos[i] = entry
        <5>1. next \in 1 .. next
          BY <1>0, <2>1
        <5> QED BY <2>3, <4>2, <5>1
      <4> QED BY <2>9, <4>1, <4>2
    <3>3. ASSUME NEW i \in DOMAIN new.infos, NEW j \in DOMAIN new.infos,
                 new.infos[i].domain = "local", new.infos[j].domain = "local"
          PROVE  new.infos[j].name = new.infos[i].name <=> new.infos[j].id = new.infos[i].id
      <4>1. CASE (i \in DOMAIN scope.infos /\ new.infos[i] = scope.infos[i]) /\ (j \in DOMAIN scope.infos /\ new.infos[j] = scope.infos[j])
        BY <3>3, <4>1 DEF LocalsFit
      <4>2. CASE (i \in DOMAIN scope.infos /\ new.infos[i] = scope.infos[i]) /\ new.infos[j] = entry
        BY <2>3, <3>1, <3>3, <4>2
      <4>3. CASE (j \in DOMAIN scope.infos /\ new.infos[j] = scope.infos[j]) /\ new.infos[i] = entry
        BY <2>3, <3>1, <3>3, <4>3
      <4>4. CASE new.infos[i] = entry /\ new.infos[j] = entry
        BY <4>4
      <4> QED BY <2>9, <4>1, <4>2, <4>3, <4>4
    <3> QED BY <2>7, <3>2, <3>3 DEF LocalsFit
  <2>11. \E i \in DOMAIN new.infos : new.infos[i] = entry
    BY <2>7
  <2>12. \A i \in DOMAIN new.infos : i \in DOMAIN scope.infos \/ (new.infos[i].domain = "local" /\ new.infos[i].name = name)
    BY <2>3, <2>9
  <2>13. Recorded(scope, new, name)
    BY <2>3, <2>7, <2>8, <2>10, <2>11, <2>12 DEF Recorded
  <2> QED BY <2>0, <2>1, <2>2, <2>7, <2>11, <2>13
<1> QED BY <1>3, <1>4

\* The slot of a local that is in the table.
LEMMA SlotIsFiled ==
  ASSUME NEW scope \in ScopeRecs, NEW name \in Names,
         \E i \in DOMAIN scope.infos : scope.infos[i].domain = "local" /\ scope.infos[i].name = name
  PROVE  SlotOf(scope, name) \in Nat /\ FiledLocal(scope, name, SlotOf(scope, name))
<1>1. scope.infos \in Seq(ScopeInfos)
  BY DEF ScopeRecs
<1>2. PICK slot : slot = SymbolTable_find(scope.infos, name, "local")
  OBVIOUS
<1>3. /\ slot # NoInfo /\ slot.name = name /\ slot.domain = "local" /\ slot \in ScopeInfos
      /\ \E i \in DOMAIN scope.infos : scope.infos[i] = slot
  BY <1>1, <1>2, FindsEntry
<1>4. slot = make_symbol_info(name, slot.id, "local") /\ slot.id \in Nat
  BY <1>3 DEF ScopeInfos, LocalInfos, UpvalInfos, ConstantInfos, make_symbol_info
<1>5. SlotOf(scope, name) = slot.id
  BY <1>2 DEF SlotOf
<1> QED BY <1>3, <1>4, <1>5 DEF FiledLocal, Filed

\* What WithLocals passes through.
SoundScopes == {scope \in ScopeRecs : LocalsFit(scope)}

LocalsOneByOne(r, scope, names) ==
  r[0] = scope /\ \A n \in 1 .. Len(names) : r[n] = compiler_record_local(r[n - 1], names[n])

LEMMA WithLocalsSteps ==
  ASSUME NEW scope \in SoundScopes, NEW names \in Seq(Names)
  PROVE  \E r : /\ LocalsOneByOne(r, scope, names) /\ WithLocals(scope, names) = r[Len(names)]
                /\ \A n \in 0 .. Len(names) : r[n] \in SoundScopes
<1>1. PICK k \in Nat : k = Len(names)
  OBVIOUS
<1> DEFINE Turn(n, t) == compiler_record_local(t, names[n])
           next == [n \in 1 .. k |-> [t \in SoundScopes |-> Turn(n, t)]]
<1>2. ASSUME NEW n \in 1 .. k, NEW t \in SoundScopes
      PROVE  Turn(n, t) \in SoundScopes
  <2>1. names[n] \in Names /\ t \in ScopeRecs /\ LocalsFit(t)
    BY <1>1 DEF SoundScopes
  <2>2. Recorded(t, Turn(n, t), names[n])
    BY <2>1, RecordedLocal
  <2> QED BY <2>2 DEF Recorded, SoundScopes
<1>3. next \in [1 .. k -> [SoundScopes -> SoundScopes]]
  <2> HIDE DEF Turn
  <2> QED BY <1>2
<1>4. \A n \in 1 .. k : \A t \in SoundScopes : next[n][t] = Turn(n, t)
  OBVIOUS
<1> HIDE DEF next, Turn
<1>5. PICK f \in [0 .. k -> SoundScopes] : Follows(f, k, scope, next)
  BY <1>1, <1>3, RecursiveFunction
<1>6. f[0] = scope /\ \A n \in 1 .. k : f[n] = Turn(n, f[n - 1])
  <2>1. f[0] = scope
    BY <1>5 DEF Follows
  <2>2. ASSUME NEW n \in 1 .. k
        PROVE  f[n] = Turn(n, f[n - 1])
    <3>1. n - 1 \in 0 .. k
      OBVIOUS
    <3>2. f[n - 1] \in SoundScopes /\ f[n] = next[n][f[n - 1]]
      BY <1>5, <3>1 DEF Follows
    <3> QED BY <1>4, <3>2
  <2> QED BY <2>1, <2>2
<1> DEFINE Joins(r) == r = [n \in 0 .. k |-> IF n = 0 THEN scope ELSE Turn(n, r[n - 1])]
<1>7. Joins(f)
  <2>1. ASSUME NEW n \in 0 .. k
        PROVE  f[n] = IF n = 0 THEN scope ELSE Turn(n, f[n - 1])
    BY <1>6
  <2> QED BY <1>5, <2>1
<1>8. PICK r : r = CHOOSE g : Joins(g)
  OBVIOUS
<1>9. WithLocals(scope, names) = r[k]
  BY <1>1, <1>8 DEF WithLocals, Turn
<1>10. Joins(r)
  <2> HIDE DEF Joins
  <2> QED BY <1>7, <1>8
<1>11. r[0] = scope /\ \A n \in 1 .. k : r[n] = Turn(n, r[n - 1])
  <2>1. 0 \in 0 .. k
    OBVIOUS
  <2>2. \A n \in 1 .. k : n \in 0 .. k /\ n # 0
    OBVIOUS
  <2> QED BY <1>10, <2>1, <2>2
<1>12. LocalsOneByOne(r, scope, names)
  BY <1>1, <1>11 DEF LocalsOneByOne, Turn
<1> DEFINE G == {n \in 0 .. k : r[n] \in SoundScopes}
<1>13. 0 .. k \subseteq G
  <2>1. 0 \in G
    BY <1>11
  <2>2. ASSUME NEW n \in 1 .. k, n - 1 \in G
        PROVE  n \in G
    <3>1. r[n - 1] \in SoundScopes
      BY <2>2
    <3>2. r[n] \in SoundScopes
      BY <1>2, <1>11, <3>1
    <3> QED BY <3>2
  <2> HIDE DEF G
  <2> QED BY <2>1, <2>2, UpTo
<1>14. \A n \in 0 .. k : r[n] \in SoundScopes
  BY <1>13
<1> QED BY <1>1, <1>9, <1>12, <1>14

\* After the first n names.
Listed(scope, new, names, n) ==
  /\ ScopeGrows(scope, new)
  /\ \A i \in DOMAIN new.infos :
       i \in DOMAIN scope.infos \/ (new.infos[i].domain = "local" /\ \E m \in 1 .. n : names[m] = new.infos[i].name)
  /\ \A m \in 1 .. n : \E i \in DOMAIN new.infos : new.infos[i].domain = "local" /\ new.infos[i].name = names[m]

LEMMA WithLocalsLists ==
  ASSUME NEW scope \in SoundScopes, NEW names \in Seq(Names), NEW r, LocalsOneByOne(r, scope, names),
         \A n \in 0 .. Len(names) : r[n] \in SoundScopes
  PROVE  \A n \in 0 .. Len(names) : Listed(scope, r[n], names, n)
<1>1. PICK k \in Nat : k = Len(names)
  OBVIOUS
<1> DEFINE G == {n \in 0 .. k : Listed(scope, r[n], names, n)}
<1>2. 0 \in G
  <2>1. scope \in ScopeRecs /\ r[0] = scope
    BY DEF SoundScopes, LocalsOneByOne
  <2>2. scope.next_local_id \in Nat
    BY <2>1 DEF ScopeRecs
  <2>3. ScopeGrows(scope, r[0])
    BY <2>1, <2>2 DEF ScopeGrows
  <2>4. Listed(scope, r[0], names, 0)
    BY <2>1, <2>3 DEF Listed
  <2> QED BY <2>4
<1>3. ASSUME NEW n \in 1 .. k, n - 1 \in G
      PROVE  n \in G
  <2>1. n - 1 \in 0 .. k /\ names[n] \in Names /\ Listed(scope, r[n - 1], names, n - 1)
    BY <1>1, <1>3
  <2>2. PICK old : old = r[n - 1]
    OBVIOUS
  <2>3. PICK new : new = r[n]
    OBVIOUS
  <2>4. old \in ScopeRecs /\ LocalsFit(old) /\ new = compiler_record_local(old, names[n]) /\ scope \in ScopeRecs
    BY <1>1, <2>1, <2>2, <2>3 DEF SoundScopes, LocalsOneByOne
  <2>5. Recorded(old, new, names[n])
    BY <2>1, <2>4, RecordedLocal
  <2>6. ScopeGrows(old, new) /\ new \in ScopeRecs
    BY <2>5 DEF Recorded
  <2>7. ScopeGrows(scope, new)
    BY <2>1, <2>2, <2>4, <2>6, GrowsOn DEF Listed
  <2>8. ASSUME NEW i \in DOMAIN new.infos, i \notin DOMAIN scope.infos
        PROVE  new.infos[i].domain = "local" /\ \E m \in 1 .. n : names[m] = new.infos[i].name
    <3>1. CASE i \in DOMAIN old.infos
      <4>1. new.infos[i] = old.infos[i]
        BY <2>6, <3>1 DEF ScopeGrows
      <4>2. old.infos[i].domain = "local" /\ \E m \in 1 .. n - 1 : names[m] = old.infos[i].name
        BY <2>1, <2>2, <2>8, <3>1 DEF Listed
      <4> QED BY <4>1, <4>2
    <3>2. CASE i \notin DOMAIN old.infos
      <4>1. new.infos[i].domain = "local" /\ new.infos[i].name = names[n]
        BY <2>5, <3>2 DEF Recorded
      <4>2. n \in 1 .. n
        OBVIOUS
      <4> QED BY <4>1, <4>2
    <3> QED BY <3>1, <3>2
  <2>9. ASSUME NEW m \in 1 .. n
        PROVE  \E i \in DOMAIN new.infos : new.infos[i].domain = "local" /\ new.infos[i].name = names[m]
    <3>1. CASE m = n
      BY <2>5, <3>1 DEF Recorded
    <3>2. CASE m # n
      <4>1. m \in 1 .. n - 1
        BY <3>2
      <4>2. PICK i \in DOMAIN old.infos : old.infos[i].domain = "local" /\ old.infos[i].name = names[m]
        BY <2>1, <2>2, <4>1 DEF Listed
      <4> QED BY <2>6, <4>2 DEF ScopeGrows
    <3> QED BY <3>1, <3>2
  <2>10. Listed(scope, new, names, n)
    BY <2>7, <2>8, <2>9 DEF Listed
  <2> QED BY <2>3, <2>10
<1>4. 0 .. k \subseteq G
  <2> HIDE DEF G
  <2> QED BY <1>2, <1>3, UpTo
<1> QED BY <1>1, <1>4

\* A whole list of names is recorded.
LEMMA RecordsLocals ==
  ASSUME NEW scope \in ScopeRecs, LocalsFit(scope), NEW names \in Seq(Names),
         NEW new, new = WithLocals(scope, names)
  PROVE  /\ new \in ScopeRecs /\ LocalsFit(new) /\ Listed(scope, new, names, Len(names))
         /\ \A k \in DOMAIN names : SlotOf(new, names[k]) \in Nat /\ FiledLocal(new, names[k], SlotOf(new, names[k]))
<1>0. scope \in SoundScopes /\ Len(names) \in 0 .. Len(names) /\ DOMAIN names = 1 .. Len(names)
  BY DEF SoundScopes
<1>1. PICK r : /\ LocalsOneByOne(r, scope, names) /\ new = r[Len(names)]
               /\ \A n \in 0 .. Len(names) : r[n] \in SoundScopes
  BY <1>0, WithLocalsSteps
<1>2. new \in SoundScopes
  BY <1>0, <1>1
<1>3. Listed(scope, new, names, Len(names))
  BY <1>0, <1>1, WithLocalsLists
<1>4. ASSUME NEW k \in DOMAIN names
      PROVE  SlotOf(new, names[k]) \in Nat /\ FiledLocal(new, names[k], SlotOf(new, names[k]))
  <2>1. names[k] \in Names /\ new \in ScopeRecs
    BY <1>2 DEF SoundScopes
  <2>2. \E i \in DOMAIN new.infos : new.infos[i].domain = "local" /\ new.infos[i].name = names[k]
    BY <1>0, <1>3 DEF Listed
  <2> QED BY <2>1, <2>2, SlotIsFiled
<1> QED BY <1>2, <1>3, <1>4 DEF SoundScopes

\* The table of a function begins with its parameters, in order.
LEMMA ParamsAreNumbered ==
  ASSUME NEW params \in Seq(Names), IsInjective(params), NEW r, LocalsOneByOne(r, make_symbol_table, params),
         \A n \in 0 .. Len(params) : r[n] \in SoundScopes, make_symbol_table \in SoundScopes
  PROVE  \A n \in 0 .. Len(params) :
           /\ r[n].next_local_id = n
           /\ \A m \in 1 .. n : \E i \in DOMAIN r[n].infos : r[n].infos[i] = make_symbol_info(params[m], m, "local")
<1>1. PICK k \in Nat : k = Len(params)
  OBVIOUS
<1> DEFINE Numbered(n) ==
             /\ r[n].next_local_id = n
             /\ \A m \in 1 .. n : \E i \in DOMAIN r[n].infos : r[n].infos[i] = make_symbol_info(params[m], m, "local")
           G == {n \in 0 .. k : Numbered(n)}
<1>2. 0 \in G
  <2>1. r[0] = make_symbol_table
    BY DEF LocalsOneByOne
  <2>2. r[0].next_local_id = 0
    BY <2>1 DEF make_symbol_table
  <2> QED BY <2>2
<1>3. ASSUME NEW n \in 1 .. k, n - 1 \in G
      PROVE  n \in G
  <2>1. n - 1 \in 0 .. k /\ params[n] \in Names /\ Numbered(n - 1)
    BY <1>1, <1>3
  <2>2. PICK old : old = r[n - 1]
    OBVIOUS
  <2>3. PICK new : new = r[n]
    OBVIOUS
  <2>4. old \in ScopeRecs /\ LocalsFit(old) /\ new = compiler_record_local(old, params[n])
    BY <1>1, <2>1, <2>2, <2>3 DEF SoundScopes, LocalsOneByOne
  <2>5. Listed(make_symbol_table, old, params, n - 1)
    BY <1>1, <2>1, <2>2, WithLocalsLists
  <2>6. FreshName(old, params[n])
    <3>1. ASSUME NEW i \in DOMAIN old.infos, old.infos[i].domain = "local", old.infos[i].name = params[n]
          PROVE  FALSE
      <4>1. i \notin DOMAIN make_symbol_table.infos
        BY DEF make_symbol_table
      <4>2. PICK m \in 1 .. n - 1 : params[m] = params[n]
        BY <2>5, <3>1, <4>1 DEF Listed
      <4>3. m \in DOMAIN params /\ n \in DOMAIN params /\ m # n
        BY <1>1
      <4> QED BY <4>2, <4>3 DEF IsInjective
    <3> QED BY <3>1 DEF FreshName
  <2>7. /\ new.next_local_id = old.next_local_id + 1 /\ ScopeGrows(old, new)
        /\ \E i \in DOMAIN new.infos : new.infos[i] = make_symbol_info(params[n], old.next_local_id + 1, "local")
    <3>1. Recorded(old, new, params[n])
      BY <2>1, <2>4, RecordedLocal
    <3> QED BY <2>1, <2>4, <2>6, <3>1, RecordedLocal DEF Recorded
  <2>8. old.next_local_id = n - 1
    BY <2>1, <2>2
  <2>9. new.next_local_id = n
    BY <2>7, <2>8
  <2>10. ASSUME NEW m \in 1 .. n
         PROVE  \E i \in DOMAIN new.infos : new.infos[i] = make_symbol_info(params[m], m, "local")
    <3>1. CASE m = n
      BY <2>7, <2>8, <3>1
    <3>2. CASE m # n
      <4>1. m \in 1 .. n - 1
        BY <3>2
      <4>2. PICK i \in DOMAIN old.infos : old.infos[i] = make_symbol_info(params[m], m, "local")
        BY <2>1, <2>2, <4>1
      <4> QED BY <2>7, <4>2 DEF ScopeGrows
    <3> QED BY <3>1, <3>2
  <2> QED BY <2>3, <2>9, <2>10
<1>4. 0 .. k \subseteq G
  <2> HIDE DEF G
  <2> QED BY <1>2, <1>3, UpTo
<1> QED BY <1>1, <1>4

LEMMA EmptyTable ==
  make_symbol_table \in ScopeRecs /\ LocalsFit(make_symbol_table)
<1>1. DEFAULT_SYMBOL_COUNT \in Nat /\ <<>> \in Seq(ScopeInfos) /\ DOMAIN <<>> = {}
  BY CountAssumption
<1>2. /\ make_symbol_table.infos = <<>> /\ make_symbol_table.capacity = DEFAULT_SYMBOL_COUNT
      /\ make_symbol_table.local_argc = 0 /\ make_symbol_table.next_local_id = 0
  BY DEF make_symbol_table
<1>3. make_symbol_table \in ScopeRecs
  BY <1>1 DEF make_symbol_table, ScopeRecs
<1> QED BY <1>1, <1>2, <1>3 DEF LocalsFit

AllLocals(scope) == \A i \in DOMAIN scope.infos : scope.infos[i].domain = "local"

LEMMA ScopeOfFits ==
  ASSUME NEW params \in Seq(Names), NEW scope, scope = ScopeOf(params)
  PROVE  scope \in ScopeRecs /\ LocalsFit(scope) /\ ParamsFit(scope, params) /\ AllLocals(scope)
<1>0. /\ make_symbol_table \in SoundScopes /\ Len(params) \in Nat /\ Len(params) \in 0 .. Len(params)
      /\ DOMAIN params = 1 .. Len(params)
  BY EmptyTable DEF SoundScopes
<1>1. PICK r : /\ LocalsOneByOne(r, make_symbol_table, params) /\ WithLocals(make_symbol_table, params) = r[Len(params)]
               /\ \A n \in 0 .. Len(params) : r[n] \in SoundScopes
  BY <1>0, WithLocalsSteps
<1>2. PICK new : new = r[Len(params)]
  OBVIOUS
<1>3. new \in ScopeRecs /\ LocalsFit(new) /\ Listed(make_symbol_table, new, params, Len(params))
  BY <1>0, <1>1, <1>2, WithLocalsLists DEF SoundScopes
<1>4. scope = [new EXCEPT !.local_argc = Len(params)]
  BY <1>1, <1>2 DEF ScopeOf
<1>5. /\ scope \in ScopeRecs /\ scope.infos = new.infos /\ scope.next_local_id = new.next_local_id
      /\ scope.local_argc = Len(params)
  BY <1>0, <1>3, <1>4 DEF ScopeRecs
<1>6. LocalsFit(scope)
  BY <1>3, <1>5 DEF LocalsFit
<1>7. ASSUME NEW i \in DOMAIN scope.infos
      PROVE  scope.infos[i].domain = "local"
  <2>1. i \notin DOMAIN make_symbol_table.infos
    BY DEF make_symbol_table
  <2> QED BY <1>3, <1>5, <2>1 DEF Listed
<1>8. ASSUME NEW k \in DOMAIN params
      PROVE  \E i \in DOMAIN scope.infos :
               /\ scope.infos[i].domain = "local" /\ scope.infos[i].name = params[k]
               /\ IsInjective(params) => scope.infos[i].id = k
  <2>1. CASE IsInjective(params)
    <3>1. PICK i \in DOMAIN new.infos : new.infos[i] = make_symbol_info(params[k], k, "local")
      BY <1>0, <1>1, <1>2, <2>1, ParamsAreNumbered
    <3>2. new.infos[i].domain = "local" /\ new.infos[i].name = params[k] /\ new.infos[i].id = k
      BY <3>1 DEF make_symbol_info
    <3> QED BY <1>5, <3>2
  <2>2. CASE ~ IsInjective(params)
    <3>1. \E i \in DOMAIN new.infos : new.infos[i].domain = "local" /\ new.infos[i].name = params[k]
      BY <1>0, <1>3 DEF Listed
    <3> QED BY <1>5, <2>2, <3>1
  <2> QED BY <2>1, <2>2
<1> QED BY <1>5, <1>6, <1>7, <1>8 DEF ParamsFit, AllLocals

\* Entries that are no locals leave the locals alone.
LEMMA LocalsStayFit ==
  ASSUME NEW old, NEW new, ScopeGrows(old, new), LocalsFit(old), new.next_local_id = old.next_local_id,
         \A i \in DOMAIN new.infos : i \in DOMAIN old.infos \/ new.infos[i].domain # "local"
  PROVE  LocalsFit(new)
<1>1. \A i \in DOMAIN new.infos : new.infos[i].domain = "local" => i \in DOMAIN old.infos /\ new.infos[i] = old.infos[i]
  BY DEF ScopeGrows
<1> QED BY <1>1 DEF LocalsFit

LEMMA ParamsStayFit ==
  ASSUME NEW old, NEW new, ScopeGrows(old, new), NEW params, ParamsFit(old, params)
  PROVE  ParamsFit(new, params)
<1>1. new.local_argc = Len(params)
  BY DEF ScopeGrows, ParamsFit
<1>2. ASSUME NEW k \in DOMAIN params
      PROVE  \E i \in DOMAIN new.infos :
               /\ new.infos[i].domain = "local" /\ new.infos[i].name = params[k]
               /\ IsInjective(params) => new.infos[i].id = k
  <2>1. PICK i \in DOMAIN old.infos :
               /\ old.infos[i].domain = "local" /\ old.infos[i].name = params[k]
               /\ IsInjective(params) => old.infos[i].id = k
    BY DEF ParamsFit
  <2> QED BY <2>1 DEF ScopeGrows
<1> QED BY <1>1, <1>2 DEF ParamsFit

\* A whole USES clause is recorded.
Captured(scope, new, captures, n) ==
  /\ new \in ScopeRecs /\ ScopeGrows(scope, new) /\ new.next_local_id = scope.next_local_id
  /\ \A i \in DOMAIN new.infos :
       \/ i \in DOMAIN scope.infos
       \/ new.infos[i].domain = "upval" /\ Holds(captures, new.infos[i].id, new.infos[i].name)

LEMMA RecordsCapture ==
  ASSUME NEW captures \in Seq(Names), NEW scope \in ScopeRecs, NEW old \in ScopeRecs, NEW n \in DOMAIN captures,
         Captured(scope, old, captures, n - 1),
         NEW new, new = compiler_record_capture(old, captures[n], n - 1)
  PROVE  Captured(scope, new, captures, n)
<1>1. PICK info : info = make_symbol_info(captures[n], n - 1, "upval")
  OBVIOUS
<1>2. /\ info \in ScopeInfos /\ info.domain = "upval" /\ info.id = n - 1 /\ info.name = captures[n]
  <2>1. captures[n] \in Names /\ n - 1 \in Nat
    OBVIOUS
  <2> QED BY <1>1, <2>1 DEF make_symbol_info, ScopeInfos, UpvalInfos
<1>3. new = SymbolTable_push(old, info)
  BY <1>1 DEF compiler_record_capture
<1>4. /\ new \in ScopeRecs /\ ScopeGrows(old, new)
      /\ DOMAIN new.infos = 1 .. Len(old.infos) + 1 /\ Len(old.infos) \in Nat
      /\ DOMAIN old.infos = 1 .. Len(old.infos)
      /\ new.infos[Len(old.infos) + 1] = info /\ new.next_local_id = old.next_local_id
  BY <1>2, <1>3, PushedScope
<1>5. ScopeGrows(scope, new)
  BY <1>4, GrowsOn DEF Captured
<1>6. Holds(captures, info.id, info.name)
  <2>1. n - 1 + 1 = n
    OBVIOUS
  <2> QED BY <1>2, <2>1 DEF Holds
<1>7. ASSUME NEW i \in DOMAIN new.infos
      PROVE  \/ i \in DOMAIN scope.infos
             \/ new.infos[i].domain = "upval" /\ Holds(captures, new.infos[i].id, new.infos[i].name)
  <2>1. CASE i \in DOMAIN old.infos
    <3>1. new.infos[i] = old.infos[i]
      BY <1>4, <2>1 DEF ScopeGrows
    <3> QED BY <2>1, <3>1 DEF Captured
  <2>2. CASE i = Len(old.infos) + 1
    BY <1>2, <1>4, <1>6, <2>2
  <2> QED BY <1>4, <2>1, <2>2
<1> QED BY <1>4, <1>5, <1>7 DEF Captured

LEMMA RecordsCaptures ==
  ASSUME NEW scope \in ScopeRecs, NEW captures \in Seq(Names), NEW new, new = WithCaptures(scope, captures)
  PROVE  Captured(scope, new, captures, Len(captures))
<1>1. PICK k \in Nat : k = Len(captures)
  OBVIOUS
<1> DEFINE Turn(n, t) == compiler_record_capture(t, captures[n], n - 1)
           next == [n \in 1 .. k |-> [t \in ScopeRecs |-> Turn(n, t)]]
<1>2. ASSUME NEW n \in 1 .. k, NEW t \in ScopeRecs
      PROVE  Turn(n, t) \in ScopeRecs
  <2>1. captures[n] \in Names /\ n - 1 \in Nat
    BY <1>1
  <2>2. make_symbol_info(captures[n], n - 1, "upval") \in ScopeInfos
    BY <2>1 DEF make_symbol_info, ScopeInfos, UpvalInfos
  <2> QED BY <2>2, PushedScope DEF compiler_record_capture
<1>3. next \in [1 .. k -> [ScopeRecs -> ScopeRecs]]
  <2> HIDE DEF Turn
  <2> QED BY <1>2
<1>4. \A n \in 1 .. k : \A t \in ScopeRecs : next[n][t] = Turn(n, t)
  OBVIOUS
<1> HIDE DEF next, Turn
<1>5. PICK f \in [0 .. k -> ScopeRecs] : Follows(f, k, scope, next)
  BY <1>1, <1>3, RecursiveFunction
<1>6. f[0] = scope /\ \A n \in 1 .. k : f[n] = Turn(n, f[n - 1])
  <2>1. f[0] = scope
    BY <1>5 DEF Follows
  <2>2. ASSUME NEW n \in 1 .. k
        PROVE  f[n] = Turn(n, f[n - 1])
    <3>1. n - 1 \in 0 .. k
      OBVIOUS
    <3>2. f[n - 1] \in ScopeRecs /\ f[n] = next[n][f[n - 1]]
      BY <1>5, <3>1 DEF Follows
    <3> QED BY <1>4, <3>2
  <2> QED BY <2>1, <2>2
<1> DEFINE Joins(r) == r = [n \in 0 .. k |-> IF n = 0 THEN scope ELSE Turn(n, r[n - 1])]
<1>7. Joins(f)
  <2>1. ASSUME NEW n \in 0 .. k
        PROVE  f[n] = IF n = 0 THEN scope ELSE Turn(n, f[n - 1])
    BY <1>6
  <2> QED BY <1>5, <2>1
<1>8. PICK r : r = CHOOSE g : Joins(g)
  OBVIOUS
<1>9. new = r[k]
  BY <1>1, <1>8 DEF WithCaptures, Turn
<1>10. Joins(r)
  <2> HIDE DEF Joins
  <2> QED BY <1>7, <1>8
<1>11. r[0] = scope /\ \A n \in 1 .. k : r[n] = Turn(n, r[n - 1])
  <2>1. 0 \in 0 .. k
    OBVIOUS
  <2>2. \A n \in 1 .. k : n \in 0 .. k /\ n # 0
    OBVIOUS
  <2> QED BY <1>10, <2>1, <2>2
<1> DEFINE G == {n \in 0 .. k : Captured(scope, r[n], captures, n)}
<1>12. 0 .. k \subseteq G
  <2>1. 0 \in G
    <3>1. scope.next_local_id \in Nat
      BY DEF ScopeRecs
    <3>2. ScopeGrows(scope, scope)
      BY <3>1 DEF ScopeGrows
    <3>3. Captured(scope, r[0], captures, 0)
      BY <1>11, <3>2 DEF Captured
    <3> QED BY <3>3
  <2>2. ASSUME NEW n \in 1 .. k, n - 1 \in G
        PROVE  n \in G
    <3>1. Captured(scope, r[n - 1], captures, n - 1)
      BY <2>2
    <3>2. r[n - 1] \in ScopeRecs /\ n \in DOMAIN captures
      BY <1>1, <3>1 DEF Captured
    <3>3. r[n] = compiler_record_capture(r[n - 1], captures[n], n - 1)
      BY <1>11 DEF Turn
    <3>4. Captured(scope, r[n], captures, n)
      BY <3>1, <3>2, <3>3, RecordsCapture
    <3> QED BY <3>4
  <2> HIDE DEF G
  <2> QED BY <2>1, <2>2, UpTo
<1> QED BY <1>1, <1>9, <1>12

\* The table of a lambda.
LEMMA ScopeWithFits ==
  ASSUME NEW params \in Seq(Names), NEW captures \in Seq(Names), NEW scope, scope = ScopeWith(params, captures)
  PROVE  /\ scope \in ScopeRecs /\ LocalsFit(scope) /\ ParamsFit(scope, params) /\ UpvalsFit(scope, captures)
         /\ \A i \in DOMAIN scope.infos : scope.infos[i].domain # "constant"
<1>1. PICK old : old = ScopeOf(params)
  OBVIOUS
<1>2. old \in ScopeRecs /\ LocalsFit(old) /\ ParamsFit(old, params) /\ AllLocals(old)
  BY <1>1, ScopeOfFits
<1>3. Captured(old, scope, captures, Len(captures))
  BY <1>1, <1>2, RecordsCaptures DEF ScopeWith
<1>4. ASSUME NEW i \in DOMAIN scope.infos
      PROVE  \/ i \in DOMAIN old.infos /\ scope.infos[i].domain = "local"
             \/ scope.infos[i].domain = "upval" /\ Holds(captures, scope.infos[i].id, scope.infos[i].name)
  <2>1. CASE i \in DOMAIN old.infos
    <3>1. scope.infos[i] = old.infos[i]
      BY <1>3, <2>1 DEF Captured, ScopeGrows
    <3> QED BY <1>2, <2>1, <3>1 DEF AllLocals
  <2> QED BY <1>3, <2>1 DEF Captured
<1>5. LocalsFit(scope)
  BY <1>2, <1>3, <1>4, LocalsStayFit DEF Captured
<1>6. ParamsFit(scope, params)
  BY <1>2, <1>3, ParamsStayFit DEF Captured
<1>7. UpvalsFit(scope, captures)
  BY <1>4 DEF UpvalsFit
<1> QED BY <1>3, <1>4, <1>5, <1>6, <1>7 DEF Captured

\* The entry of a constant (compiler_record_constant).
LEMMA RecordedConstant ==
  ASSUME NEW scope \in ScopeRecs, NEW constants \in Seq(Values), NEW literal \in Numerals,
         NEW new, new = compiler_record_constant(scope, constants, literal),
         NEW info, info = SymbolTable_find(new.infos, literal.lexeme, "constant")
  PROVE  /\ new \in ScopeRecs /\ ScopeGrows(scope, new) /\ new.next_local_id = scope.next_local_id
         /\ info.name = literal.lexeme /\ info.domain = "constant" /\ info.id \in Nat
         /\ \E i \in DOMAIN new.infos : new.infos[i] = info
         /\ \/ new = scope
            \/ /\ new # scope /\ info.id = Len(constants)
               /\ \A i \in DOMAIN new.infos : i \in DOMAIN scope.infos \/ new.infos[i] = info
<1>0. scope.infos \in Seq(ScopeInfos) /\ scope.next_local_id \in Nat /\ literal.lexeme \in Lexemes
  BY DEF ScopeRecs, Lexemes
<1>1. PICK old : old = SymbolTable_find(scope.infos, literal.lexeme, "constant")
  OBVIOUS
<1>2. \/ old = NoInfo /\ \A i \in DOMAIN scope.infos : ~ (scope.infos[i].name = literal.lexeme /\ scope.infos[i].domain = "constant")
      \/ /\ old # NoInfo /\ old.name = literal.lexeme /\ old.domain = "constant" /\ old \in ScopeInfos
         /\ \E i \in DOMAIN scope.infos : scope.infos[i] = old
  BY <1>0, <1>1, FindsEntry
<1>3. CASE old # NoInfo
  <2>1. new = scope
    BY <1>1, <1>3 DEF compiler_record_constant, Knows
  <2>2. ScopeGrows(scope, new)
    BY <1>0, <2>1 DEF ScopeGrows
  <2>3. old.id \in Nat
    BY <1>2, <1>3 DEF ScopeInfos, LocalInfos, UpvalInfos, ConstantInfos
  <2>4. info = old
    BY <1>1, <2>1
  <2> QED BY <1>2, <1>3, <2>1, <2>2, <2>3, <2>4
<1>4. CASE old = NoInfo
  <2>1. PICK entry : entry = make_symbol_info(literal.lexeme, Len(constants), "constant")
    OBVIOUS
  <2>2. /\ entry \in ScopeInfos /\ entry.name = literal.lexeme /\ entry.domain = "constant"
        /\ entry.id = Len(constants) /\ Len(constants) \in Nat
    BY <1>0, <2>1 DEF make_symbol_info, ScopeInfos, ConstantInfos
  <2>3. new = SymbolTable_push(scope, entry)
    BY <1>1, <1>4, <2>1 DEF compiler_record_constant, Knows
  <2>4. /\ new \in ScopeRecs /\ ScopeGrows(scope, new)
        /\ DOMAIN new.infos = 1 .. Len(scope.infos) + 1 /\ Len(scope.infos) \in Nat
        /\ DOMAIN scope.infos = 1 .. Len(scope.infos)
        /\ new.infos[Len(scope.infos) + 1] = entry /\ new.next_local_id = scope.next_local_id
    BY <2>2, <2>3, PushedScope
  <2>5. \A i \in DOMAIN new.infos : (i \in DOMAIN scope.infos /\ new.infos[i] = scope.infos[i]) \/ new.infos[i] = entry
    BY <2>4 DEF ScopeGrows
  <2>6. new.infos \in Seq(ScopeInfos)
    BY <2>4 DEF ScopeRecs
  <2>7. \E i \in DOMAIN new.infos : new.infos[i] = entry
    BY <2>4
  <2>8. /\ info # NoInfo /\ info.name = literal.lexeme /\ info.domain = "constant"
        /\ \E i \in DOMAIN new.infos : new.infos[i] = info
    BY <2>2, <2>6, <2>7, FindsEntry
  <2>9. info = entry
    BY <1>2, <1>4, <2>5, <2>8
  <2>10. new # scope
    BY <2>4
  <2> QED BY <2>2, <2>4, <2>5, <2>8, <2>9, <2>10
<1> QED BY <1>3, <1>4

\* What a name is resolved to (compiler_resolve_name).
LEMMA ResolvedName ==
  ASSUME NEW name \in Names, globals \in Seq(FuncInfos \cup StringInfos), CurrScope \in ScopeRecs,
         NEW info, info = compiler_resolve_name(name), info # NoInfo
  PROVE  /\ info \in Resolved /\ info.name = name
         /\ info.domain \in {"local", "upval"} => Filed(CurrScope, info)
<1>0. CurrScope.infos \in Seq(ScopeInfos)
  BY DEF ScopeRecs
<1>1. PICK func : func = SymbolTable_find(globals, name, "func")
  OBVIOUS
<1>2. PICK local : local = SymbolTable_find(CurrScope.infos, name, "local")
  OBVIOUS
<1>3. PICK upval : upval = SymbolTable_find(CurrScope.infos, name, "upval")
  OBVIOUS
<1>4. func # NoInfo => /\ func.name = name /\ func.domain = "func" /\ func \in FuncInfos \cup StringInfos
  BY <1>1, FindsEntry
<1>5. local # NoInfo => /\ local.name = name /\ local.domain = "local" /\ local \in ScopeInfos
                        /\ \E i \in DOMAIN CurrScope.infos : CurrScope.infos[i] = local
  BY <1>0, <1>2, FindsEntry
<1>6. upval # NoInfo => /\ upval.name = name /\ upval.domain = "upval" /\ upval \in ScopeInfos
                        /\ \E i \in DOMAIN CurrScope.infos : CurrScope.infos[i] = upval
  BY <1>0, <1>3, FindsEntry
<1>7. info = IF func # NoInfo THEN func ELSE IF local # NoInfo THEN local ELSE upval
  BY <1>1, <1>2, <1>3 DEF compiler_resolve_name, Knows
<1>8. func # NoInfo => func \in FuncInfos
  BY <1>4 DEF FuncInfos, StringInfos
<1>9. local # NoInfo => local \in LocalInfos
  BY <1>5 DEF ScopeInfos, LocalInfos, UpvalInfos, ConstantInfos
<1>10. upval # NoInfo => upval \in UpvalInfos
  BY <1>6 DEF ScopeInfos, LocalInfos, UpvalInfos, ConstantInfos
<1>11. info \in Resolved
  BY <1>7, <1>8, <1>9, <1>10 DEF Resolved
<1>12. info.name = name
  BY <1>4, <1>5, <1>6, <1>7
<1>13. ASSUME info.domain \in {"local", "upval"} PROVE Filed(CurrScope, info)
  <2>1. func = NoInfo
    <3>1. SUFFICES ASSUME func # NoInfo PROVE FALSE
      OBVIOUS
    <3>2. info = func /\ func.domain = "func"
      BY <1>4, <1>7, <3>1
    <3> QED BY <1>13, <3>2
  <2> QED BY <1>5, <1>6, <1>7, <2>1 DEF Filed
<1> QED BY <1>11, <1>12, <1>13

(***************************************************************************)
(* The calls in progress.                                                  *)
(***************************************************************************)
\* The same call, further on.
SameFrame(old, new) ==
  /\ new.fn = old.fn
  /\ old.fn \in FunctionFns => new.old_chunk_idx = old.old_chunk_idx
  /\ old.fn = "do_lambda" => new.used_local_ids = old.used_local_ids
  /\ old.fn = "do_vars" => new.name = old.name /\ new.id = old.id
  /\ old.fn \in {"do_for", "do_expr_stmt"} => new.info = old.info
  /\ old.fn = "do_expr_stmt" => new.dest = old.dest
  /\ old.fn \in LoopFns => new.loop = old.loop
  /\ old.fn = "do_while" => new.check = old.check

SameLoop(old, new) ==
  old.fn \in LoopFns => new.out = old.out /\ (Settled(new) <=> Settled(old))

LEMMA FrameMoves ==
  ASSUME NEW old \in AllFrames, NEW place \in Places, NEW new, new = [old EXCEPT !.at = place]
  PROVE  /\ new \in AllFrames /\ new.at = place /\ SameFrame(old, new)
         /\ old.fn \in LoopFns => new.out = old.out
<1>1. CASE old \in PlainFrames
  <2>1. new \in PlainFrames /\ new.at = place /\ new.fn = old.fn /\ old.fn \in {"do_source", "do_binding"}
    BY <1>1 DEF PlainFrames
  <2> QED BY <2>1 DEF AllFrames, SameFrame, FunctionFns, LoopFns
<1>2. CASE old \in FuncFrames
  <2>1. /\ new \in FuncFrames /\ new.at = place /\ new.fn = old.fn /\ old.fn = "do_func"
        /\ new.old_chunk_idx = old.old_chunk_idx
    BY <1>2 DEF FuncFrames
  <2> QED BY <2>1 DEF AllFrames, SameFrame, LoopFns
<1>3. CASE old \in LambdaFrames
  <2>1. /\ new \in LambdaFrames /\ new.at = place /\ new.fn = old.fn /\ old.fn = "do_lambda"
        /\ new.old_chunk_idx = old.old_chunk_idx /\ new.used_local_ids = old.used_local_ids
    BY <1>3 DEF LambdaFrames
  <2> QED BY <2>1 DEF AllFrames, SameFrame, LoopFns
<1>4. CASE old \in VarsFrames
  <2>1. /\ new \in VarsFrames /\ new.at = place /\ new.fn = old.fn /\ old.fn = "do_vars"
        /\ new.name = old.name /\ new.id = old.id
    BY <1>4 DEF VarsFrames
  <2> QED BY <2>1 DEF AllFrames, SameFrame, FunctionFns, LoopFns
<1>5. CASE old \in ExprFrames
  <2>1. /\ new \in ExprFrames /\ new.at = place /\ new.fn = old.fn /\ old.fn = "do_expr_stmt"
        /\ new.info = old.info /\ new.dest = old.dest
    BY <1>5 DEF ExprFrames
  <2> QED BY <2>1 DEF AllFrames, SameFrame, FunctionFns, LoopFns
<1>6. CASE old \in WhileFrames
  <2>1. /\ new \in WhileFrames /\ new.at = place /\ new.fn = old.fn /\ old.fn = "do_while"
        /\ new.loop = old.loop /\ new.check = old.check /\ new.out = old.out
    BY <1>6 DEF WhileFrames
  <2> QED BY <2>1 DEF AllFrames, SameFrame, FunctionFns
<1>7. CASE old \in ForFrames
  <2>1. /\ new \in ForFrames /\ new.at = place /\ new.fn = old.fn /\ old.fn = "do_for"
        /\ new.loop = old.loop /\ new.info = old.info /\ new.out = old.out
    BY <1>7 DEF ForFrames
  <2> QED BY <2>1 DEF AllFrames, SameFrame, FunctionFns
<1> QED BY <1>1, <1>2, <1>3, <1>4, <1>5, <1>6, <1>7 DEF AllFrames

\* Sequences: the last item and all before it.
LEMMA LastItem ==
  ASSUME NEW T, NEW s \in Seq(T), Len(s) > 0
  PROVE  /\ Last(s) = s[Len(s)] /\ Last(s) \in T /\ Len(s) \in DOMAIN s /\ Len(s) \in Nat
         /\ Front(s) \in Seq(T) /\ Len(Front(s)) = Len(s) - 1
         /\ \A i \in 1 .. Len(s) - 1 : Front(s)[i] = s[i]
<1>1. Last(s) = s[Len(s)]
  BY DEF Last
<1>2. Front(s) = SubSeq(s, 1, Len(s) - 1)
  BY DEF Front
<1>3. Len(s) \in DOMAIN s /\ Len(s) \in Nat
  OBVIOUS
<1>4. PICK m \in Nat : m = Len(s) - 1
  BY <1>3
<1>5. 1 \in Int /\ m \in Int /\ \A i \in 1 .. m : s[i] \in T
  BY <1>4
<1>6. /\ SubSeq(s, 1, m) \in Seq(T) /\ Len(SubSeq(s, 1, m)) = IF 1 <= m THEN m - 1 + 1 ELSE 0
      /\ \A i \in 1 .. m - 1 + 1 : SubSeq(s, 1, m)[i] = s[1 + i - 1]
  BY <1>5, SubSeqProperties
<1>7. /\ SubSeq(s, 1, m) \in Seq(T) /\ Len(SubSeq(s, 1, m)) = m
      /\ \A i \in 1 .. m : SubSeq(s, 1, m)[i] = s[i]
  BY <1>4, <1>6
<1> QED BY <1>1, <1>2, <1>3, <1>4, <1>7

LEMMA OneMore ==
  ASSUME NEW m \in Nat, NEW l \in Nat, l = m \/ l = m + 1, NEW k \in 1 .. l, k \notin 1 .. m
  PROVE  l = m + 1 /\ k = m + 1
OBVIOUS

LEMMA Replaced ==
  ASSUME NEW T, NEW s \in Seq(T), NEW k \in DOMAIN s, NEW item \in T, NEW new, new = [s EXCEPT ![k] = item]
  PROVE  /\ new \in Seq(T) /\ Len(new) = Len(s) /\ DOMAIN new = DOMAIN s /\ new[k] = item
         /\ \A i \in DOMAIN s : i # k => new[i] = s[i]
OBVIOUS

\* The frames, where they are and how many.
LEMMA FramesFacts ==
  ASSUME ScopesTypeOK, NEW own, Nested(own), NEW n, n = Len(frames)
  PROVE  /\ n \in Nat \ {0} /\ n \in DOMAIN frames /\ DOMAIN frames = 1 .. n /\ DOMAIN own = 1 .. n /\ Len(own) = n
         /\ TopFrame = frames[n] /\ frames[n] \in AllFrames /\ frames \in Seq(AllFrames)
         /\ own \in Seq(Owners) /\ \A i \in 1 .. n : own[i] \in Owners /\ frames[i] \in AllFrames
         /\ own[n].chunk = chunk_idx /\ own[n].scopes = Len(locals) /\ own[n].loops = Len(loops)
<1>1. frames \in Seq(AllFrames) /\ own \in Seq(Owners) /\ Len(own) = n /\ n > 0
  BY DEF ScopesTypeOK, Nested
<1>2. n \in Nat \ {0} /\ DOMAIN frames = 1 .. n /\ DOMAIN own = 1 .. n /\ n \in DOMAIN frames
  BY <1>1
<1>3. TopFrame = frames[n] /\ frames[n] \in AllFrames
  BY <1>1, <1>2 DEF TopFrame, Last
<1>4. own[n].chunk = chunk_idx /\ own[n].scopes = Len(locals) /\ own[n].loops = Len(loops)
  BY <1>1 DEF Nested
<1>5. \A i \in 1 .. n : own[i] \in Owners /\ frames[i] \in AllFrames
  BY <1>1, <1>2
<1> QED BY <1>1, <1>2, <1>3, <1>4, <1>5

\* The top frame is the same call.
LEMMA NestedRetop ==
  ASSUME ScopesTypeOK, NEW own, Nested(own), NEW top, SameFrame(TopFrame, top),
         frames' = [frames EXCEPT ![Len(frames)] = top],
         chunk_idx' = chunk_idx, DOMAIN chunks \subseteq DOMAIN chunks',
         Len(locals') = Len(locals), Len(loops') = Len(loops)
  PROVE  Nested(own)'
<1>1. PICK n : n = Len(frames)
  OBVIOUS
<1>2. /\ n \in Nat \ {0} /\ n \in DOMAIN frames /\ DOMAIN frames = 1 .. n /\ DOMAIN own = 1 .. n /\ Len(own) = n
      /\ TopFrame = frames[n] /\ frames[n] \in AllFrames /\ frames \in Seq(AllFrames)
      /\ own \in Seq(Owners)
  BY <1>1, FramesFacts
<1>3. Len(frames') = n /\ frames'[n] = top /\ \A i \in 1 .. n - 1 : frames'[i] = frames[i]
  BY <1>1, <1>2
<1>4. \A i \in 1 .. n : SameFrame(frames[i], frames'[i])
  <2>1. ASSUME NEW i \in 1 .. n PROVE SameFrame(frames[i], frames'[i])
    <3>1. CASE i = n
      BY <1>2, <1>3, <3>1
    <3>2. CASE i # n
      <4>1. frames'[i] = frames[i]
        BY <1>2, <1>3, <3>2
      <4> QED BY <4>1 DEF SameFrame
    <3> QED BY <3>1, <3>2
  <2> QED BY <2>1
<1>5. \A i \in 1 .. n : /\ frames'[i].fn = frames[i].fn
                        /\ frames[i].fn \in FunctionFns => frames'[i].old_chunk_idx = frames[i].old_chunk_idx
  BY <1>4 DEF SameFrame
<1>6. own \in Seq(Owners) /\ Len(own) = Len(frames') /\ Len(own) > 0
  BY <1>2, <1>3
<1>7. frames'[1].fn = "do_source" /\ own[1] = [chunk |-> 1, scopes |-> 1, loops |-> 0]
  BY <1>2, <1>5 DEF Nested
<1>8. own[Len(own)] = [chunk |-> chunk_idx', scopes |-> Len(locals'), loops |-> Len(loops')]
  BY DEF Nested
<1>9. \A i \in DOMAIN own : own[i].chunk \in DOMAIN chunks'
  BY DEF Nested
<1>10. ASSUME NEW i \in 2 .. Len(own) PROVE Above(own, i)'
  <2>1. Above(own, i) /\ i \in 1 .. n /\ i - 1 \in 1 .. n - 1
    BY <1>2 DEF Nested
  <2>2. /\ frames'[i].fn = frames[i].fn
        /\ frames[i].fn \in FunctionFns => frames'[i].old_chunk_idx = frames[i].old_chunk_idx
    BY <1>5, <2>1
  <2>3. frames'[i - 1] = frames[i - 1]
    BY <1>3, <2>1
  <2> QED BY <2>1, <2>2, <2>3 DEF Above
<1>11. ASSUME NEW i \in DOMAIN own, NEW j \in DOMAIN own, i < j PROVE FarAbove(own, i, j)'
  <2>1. FarAbove(own, i, j) /\ j \in 1 .. n
    BY <1>2, <1>11 DEF Nested
  <2>2. frames'[j].fn = frames[j].fn
    BY <1>5, <2>1
  <2> QED BY <2>1, <2>2 DEF FarAbove
<1>12. ASSUME NEW l \in 1 .. Len(loops')
       PROVE  \E i \in DOMAIN own : frames'[i].fn \in LoopFns /\ own[i].loops = l
  <2>1. PICK i \in DOMAIN own : frames[i].fn \in LoopFns /\ own[i].loops = l
    BY DEF Nested
  <2>2. frames'[i].fn = frames[i].fn
    BY <1>2, <1>5
  <2> QED BY <2>1, <2>2
<1> QED BY <1>6, <1>7, <1>8, <1>9, <1>10, <1>11, <1>12 DEF Nested

\* One more call on top.
LEMMA NestedPush ==
  ASSUME ScopesTypeOK, NEW own, Nested(own), NEW place \in Places, NEW frame, frame.fn # "do_source",
         frames' = Append([frames EXCEPT ![Len(frames)] = [@ EXCEPT !.at = place]], frame),
         frame.fn = "do_lambda" => place = "then", frame.fn # "do_lambda" => place \in {"body", "updated"},
         DOMAIN chunks \subseteq DOMAIN chunks', chunk_idx' \in DOMAIN chunks',
         frame.fn \in FunctionFns =>
           frame.old_chunk_idx = chunk_idx /\ chunk_idx' = Len(chunks) + 1 /\ Len(locals') = Len(locals) + 1,
         frame.fn \notin FunctionFns => chunk_idx' = chunk_idx /\ Len(locals') = Len(locals),
         Len(loops') = Len(loops) + (IF frame.fn \in LoopFns THEN 1 ELSE 0),
         NEW own2, own2 = Append(own, [chunk |-> chunk_idx', scopes |-> Len(locals'), loops |-> Len(loops')])
  PROVE  Nested(own2)'
<1>1. PICK n : n = Len(frames)
  OBVIOUS
<1>2. /\ n \in Nat \ {0} /\ n \in DOMAIN frames /\ DOMAIN frames = 1 .. n /\ DOMAIN own = 1 .. n /\ Len(own) = n
      /\ TopFrame = frames[n] /\ frames[n] \in AllFrames /\ frames \in Seq(AllFrames)
      /\ own \in Seq(Owners) /\ \A i \in 1 .. n : own[i] \in Owners
      /\ own[n].chunk = chunk_idx /\ own[n].scopes = Len(locals) /\ own[n].loops = Len(loops)
  BY <1>1, FramesFacts
<1>3. Len(locals) \in Nat /\ Len(loops) \in Nat /\ Len(chunks) \in Nat /\ DOMAIN chunks = 1 .. Len(chunks) /\ chunk_idx \in DOMAIN chunks
  BY SMTT(30) DEF ScopesTypeOK
<1>4. PICK last : last = [chunk |-> chunk_idx', scopes |-> Len(locals'), loops |-> Len(loops')]
  OBVIOUS
<1>5. chunk_idx' \in Nat /\ Len(locals') \in Nat /\ Len(loops') \in Nat
  BY <1>3 DEF FunctionFns, LoopFns
<1>6. last \in Owners /\ last.chunk = chunk_idx' /\ last.scopes = Len(locals') /\ last.loops = Len(loops')
  BY <1>4, <1>5 DEF Owners
<1>7. PICK top : top = [frames[n] EXCEPT !.at = place]
  OBVIOUS
<1>8. top \in AllFrames /\ SameFrame(frames[n], top) /\ top.at = place
  BY <1>2, <1>7, FrameMoves
<1>9. PICK below : below = [frames EXCEPT ![n] = top]
  OBVIOUS
<1>10. below \in Seq(AllFrames) /\ Len(below) = n /\ below[n] = top /\ \A i \in 1 .. n - 1 : below[i] = frames[i]
  BY <1>2, <1>8, <1>9
<1>11. frames' = Append(below, frame)
  BY <1>1, <1>2, <1>7, <1>9
<1>12. /\ Len(frames') = n + 1 /\ frames'[n + 1] = frame /\ frames'[n] = top /\ \A i \in 1 .. n - 1 : frames'[i] = frames[i]
  BY <1>2, <1>10, <1>11
<1>13. own2 \in Seq(Owners) /\ Len(own2) = n + 1 /\ own2[n + 1] = last /\ \A i \in 1 .. n : own2[i] = own[i]
  BY <1>2, <1>4, <1>6
<1>14. DOMAIN own2 = 1 .. n + 1
  BY <1>2, <1>13
<1>15. \A i \in 1 .. n : SameFrame(frames[i], frames'[i])
  <2>1. ASSUME NEW i \in 1 .. n PROVE SameFrame(frames[i], frames'[i])
    <3>1. CASE i = n
      BY <1>8, <1>12, <3>1
    <3>2. CASE i # n
      <4>1. frames'[i] = frames[i]
        BY <1>2, <1>12, <3>2
      <4> QED BY <4>1 DEF SameFrame
    <3> QED BY <3>1, <3>2
  <2> QED BY <2>1
<1>16. \A i \in 1 .. n : /\ frames'[i].fn = frames[i].fn
                         /\ frames[i].fn \in FunctionFns => frames'[i].old_chunk_idx = frames[i].old_chunk_idx
  BY <1>15 DEF SameFrame
<1>17. frames'[1].fn = "do_source" /\ own2[1] = [chunk |-> 1, scopes |-> 1, loops |-> 0]
  <2>1. 1 \in 1 .. n
    BY <1>2
  <2> QED BY <1>13, <1>16, <2>1 DEF Nested
<1>18. own2[Len(own2)] = [chunk |-> chunk_idx', scopes |-> Len(locals'), loops |-> Len(loops')]
  BY <1>4, <1>13
<1>19. \A i \in 1 .. n : own[i].chunk \in DOMAIN chunks
  BY <1>2 DEF Nested
<1>20. ASSUME NEW i \in DOMAIN own2 PROVE own2[i].chunk \in DOMAIN chunks'
  <2>1. CASE i = n + 1
    BY <1>6, <1>13, <2>1
  <2>2. CASE i # n + 1
    <3>1. i \in 1 .. n
      BY <1>2, <1>14, <2>2
    <3>2. own2[i].chunk \in DOMAIN chunks
      BY <1>13, <1>19, <3>1
    <3> QED BY <3>2
  <2> QED BY <2>1, <2>2
<1>21. ASSUME NEW i \in 2 .. Len(own2) PROVE Above(own2, i)'
  <2>1. CASE i = n + 1
    <3>1. i - 1 = n /\ frames'[i] = frame /\ frames'[i - 1] = top /\ own2[i] = last /\ own2[i - 1] = own[n]
      BY <1>2, <1>12, <1>13, <2>1
    <3>2. frame.fn \in FunctionFns => frame.old_chunk_idx = own[n].chunk
      BY <1>2
    <3>3. frame.fn \notin FunctionFns => last.chunk = own[n].chunk
      BY <1>2, <1>6
    <3>4. last.scopes = own[n].scopes + (IF frame.fn \in FunctionFns THEN 1 ELSE 0)
      BY <1>2, <1>3, <1>6
    <3>5. last.loops = own[n].loops + (IF frame.fn \in LoopFns THEN 1 ELSE 0)
      BY <1>2, <1>6
    <3>6. top.at \in IF frame.fn = "do_lambda" THEN {"then"} ELSE {"body", "updated"}
      BY <1>8
    <3> QED BY <3>1, <3>2, <3>3, <3>4, <3>5, <3>6 DEF Above
  <2>2. CASE i # n + 1
    <3>1. i \in 2 .. Len(own) /\ i \in 1 .. n /\ i - 1 \in 1 .. n /\ i - 1 \in 1 .. n - 1
      BY <1>2, <1>13, <2>2
    <3>2. Above(own, i)
      BY <3>1 DEF Nested
    <3>3. frames'[i - 1] = frames[i - 1] /\ own2[i] = own[i] /\ own2[i - 1] = own[i - 1]
      BY <1>12, <1>13, <3>1
    <3>4. /\ frames'[i].fn = frames[i].fn
          /\ frames[i].fn \in FunctionFns => frames'[i].old_chunk_idx = frames[i].old_chunk_idx
      BY <1>16, <3>1
    <3> QED BY <3>2, <3>3, <3>4 DEF Above
  <2> QED BY <2>1, <2>2
<1>22. ASSUME NEW i \in DOMAIN own2, NEW j \in DOMAIN own2, i < j PROVE FarAbove(own2, i, j)'
  <2>0. i \in 1 .. n
    BY <1>2, <1>14, <1>22
  <2>1. CASE j = n + 1
    <3>1. own2[j] = last /\ frames'[j] = frame /\ own2[i] = own[i]
      BY <1>12, <1>13, <2>0, <2>1
    <3>2. /\ own[i].chunk <= own[n].chunk /\ own[i].scopes <= own[n].scopes /\ own[i].loops <= own[n].loops
          /\ own[i].chunk = own[n].chunk <=> own[i].scopes = own[n].scopes
      <4>1. CASE i = n
        <5>1. PICK mine \in Owners : mine = own[n]
          BY <1>2
        <5>2. mine.chunk \in Nat /\ mine.scopes \in Nat /\ mine.loops \in Nat
          BY <5>1 DEF Owners
        <5>3. \A x \in Nat : x <= x
          OBVIOUS
        <5> QED BY <4>1, <5>1, <5>2, <5>3
      <4>2. CASE i # n
        <5>1. i < n /\ i \in DOMAIN own /\ n \in DOMAIN own
          BY <1>2, <2>0, <4>2
        <5>2. FarAbove(own, i, n)
          BY <5>1 DEF Nested
        <5> QED BY <5>2 DEF FarAbove
      <4> QED BY <4>1, <4>2
    <3>3. own[i].chunk \in 1 .. Len(chunks) /\ own[i].scopes \in Nat /\ own[i].loops \in Nat
      <4>1. PICK mine \in Owners : mine = own[i]
        BY <1>2, <2>0
      <4> QED BY <1>3, <1>19, <2>0, <4>1 DEF Owners
    <3>30. own[n].chunk \in Nat /\ own[n].scopes \in Nat /\ own[n].loops \in Nat
      BY <1>2, <1>3
    <3>4. CASE frame.fn \in FunctionFns
      <4>1. /\ last.chunk = Len(chunks) + 1 /\ last.scopes = Len(locals) + 1 /\ last.loops = Len(loops) /\ frame.fn \notin LoopFns
        BY <1>6, <1>3, <3>4, SMTT(30) DEF FunctionFns, LoopFns
      <4>2. own[i].chunk < last.chunk /\ own[i].chunk <= last.chunk /\ own[i].chunk # last.chunk
        BY <1>3, <3>3, <4>1, SMTT(30)
      <4>3. own[i].scopes <= last.scopes /\ own[i].scopes # last.scopes
        <5>1. last.scopes = own[n].scopes + 1
          BY <1>2, <4>1
        <5>2. \A a, b \in Nat : a <= b => a <= b + 1 /\ a # b + 1
          OBVIOUS
        <5>3. own[i].scopes <= own[n].scopes
          BY <3>2
        <5> QED BY <3>3, <3>30, <5>1, <5>2, <5>3
      <4>4. own[i].loops <= last.loops
        BY <1>2, <3>2, <4>1
      <4> QED BY <3>1, <4>1, <4>2, <4>3, <4>4 DEF FarAbove
    <3>5. CASE frame.fn \notin FunctionFns
      <4>1. /\ last.chunk = own[n].chunk /\ last.scopes = own[n].scopes
            /\ last.loops = own[n].loops + (IF frame.fn \in LoopFns THEN 1 ELSE 0)
        BY <1>2, <1>6, <3>5
      <4>2. own[i].loops <= last.loops /\ (frame.fn \in LoopFns => own[i].loops < last.loops)
        <5>1. CASE frame.fn \in LoopFns
          <6>1. last.loops = own[n].loops + 1
            BY <4>1, <5>1
          <6>2. \A a, b \in Nat : a <= b => a <= b + 1 /\ a < b + 1
            OBVIOUS
          <6> QED BY <3>2, <3>3, <3>30, <6>1, <6>2
        <5>2. CASE frame.fn \notin LoopFns
          <6>1. \A b \in Nat : b + 0 = b
            OBVIOUS
          <6>2. last.loops = own[n].loops
            BY <3>30, <4>1, <5>2, <6>1
          <6> QED BY <3>2, <5>2, <6>2
        <5> QED BY <5>1, <5>2
      <4> QED BY <3>1, <3>2, <3>5, <4>1, <4>2 DEF FarAbove
    <3> QED BY <3>4, <3>5
  <2>2. CASE j # n + 1
    <3>1. j \in 1 .. n
      BY <1>2, <1>14, <2>2
    <3>2. FarAbove(own, i, j)
      BY <1>2, <1>22, <2>0, <3>1 DEF Nested
    <3>3. frames'[j].fn = frames[j].fn /\ own2[i] = own[i] /\ own2[j] = own[j]
      BY <1>13, <1>16, <2>0, <3>1
    <3> QED BY <3>2, <3>3 DEF FarAbove
  <2> QED BY <2>1, <2>2
<1>23. ASSUME NEW l \in 1 .. Len(loops')
       PROVE  \E i \in DOMAIN own2 : frames'[i].fn \in LoopFns /\ own2[i].loops = l
  <2>1. CASE l \in 1 .. Len(loops)
    <3>1. PICK i \in DOMAIN own : frames[i].fn \in LoopFns /\ own[i].loops = l
      BY <2>1 DEF Nested
    <3>2. frames'[i].fn = frames[i].fn /\ own2[i] = own[i] /\ i \in DOMAIN own2
      BY <1>2, <1>13, <1>14, <1>16
    <3> QED BY <3>1, <3>2
  <2>2. CASE l \notin 1 .. Len(loops)
    <3>1. frame.fn \in LoopFns /\ l = Len(loops')
      BY <1>3, <2>2
    <3>2. n + 1 \in DOMAIN own2
      BY <1>2, <1>14
    <3> QED BY <1>6, <1>12, <1>13, <3>1, <3>2
  <2> QED BY <2>1, <2>2
<1>24. Len(own2) = Len(frames') /\ Len(own2) > 0
  BY <1>2, <1>12, <1>13
<1> QED BY <1>13, <1>17, <1>18, <1>20, <1>21, <1>22, <1>23, <1>24 DEF Nested

\* The top call returns.
LEMMA NestedPop ==
  ASSUME ScopesTypeOK, NEW own, Nested(own), TopFrame.fn # "do_source", frames' = Front(frames),
         DOMAIN chunks \subseteq DOMAIN chunks',
         TopFrame.fn \in FunctionFns => chunk_idx' = TopFrame.old_chunk_idx /\ Len(locals') = Len(locals) - 1,
         TopFrame.fn \notin FunctionFns => chunk_idx' = chunk_idx /\ Len(locals') = Len(locals),
         Len(loops') = Len(loops) - (IF TopFrame.fn \in LoopFns THEN 1 ELSE 0),
         NEW own2, own2 = Front(own)
  PROVE  Nested(own2)' /\ Len(frames) > 1
<1>1. PICK n : n = Len(frames)
  OBVIOUS
<1>2. /\ n \in Nat \ {0} /\ n \in DOMAIN frames /\ DOMAIN frames = 1 .. n /\ DOMAIN own = 1 .. n /\ Len(own) = n
      /\ TopFrame = frames[n] /\ frames[n] \in AllFrames /\ frames \in Seq(AllFrames)
      /\ own \in Seq(Owners) /\ \A i \in 1 .. n : own[i] \in Owners
      /\ own[n].chunk = chunk_idx /\ own[n].scopes = Len(locals) /\ own[n].loops = Len(loops)
  BY <1>1, FramesFacts
<1>3. Len(locals) \in Nat /\ Len(loops) \in Nat /\ Len(chunks) \in Nat /\ DOMAIN chunks = 1 .. Len(chunks) /\ chunk_idx \in DOMAIN chunks
  BY DEF ScopesTypeOK
<1>4. n > 1
  <2>1. SUFFICES ASSUME n = 1 PROVE FALSE
    BY <1>2
  <2> QED BY <1>2, <2>1 DEF Nested
<1>5. /\ Len(frames') = n - 1 /\ \A i \in 1 .. n - 1 : frames'[i] = frames[i]
  <2>1. frames \in Seq(AllFrames) /\ Len(frames) > 0 /\ Len(frames) = n
    BY <1>1, <1>2
  <2>2. Len(Front(frames)) = Len(frames) - 1 /\ \A i \in 1 .. Len(frames) - 1 : Front(frames)[i] = frames[i]
    BY <2>1, LastItem
  <2> QED BY <2>1, <2>2
<1>6. own2 \in Seq(Owners) /\ Len(own2) = n - 1 /\ \A i \in 1 .. n - 1 : own2[i] = own[i]
  <2>1. own \in Seq(Owners) /\ Len(own) > 0 /\ Len(own) = n
    BY <1>2
  <2>2. /\ Front(own) \in Seq(Owners)
        /\ Len(Front(own)) = Len(own) - 1 /\ \A i \in 1 .. Len(own) - 1 : Front(own)[i] = own[i]
    BY <2>1, LastItem
  <2> QED BY <2>1, <2>2
<1>7. DOMAIN own2 = 1 .. n - 1
  BY <1>2, <1>6
<1>8. Above(own, n)
  <2>1. n \in 2 .. Len(own)
    BY <1>2, <1>4
  <2> QED BY <2>1 DEF Nested
<1>9. own[n - 1] = [chunk |-> chunk_idx', scopes |-> Len(locals'), loops |-> Len(loops')]
  <2>1. own[n - 1] \in Owners
    BY <1>2, <1>4
  <2>2. own[n - 1].chunk = chunk_idx'
    BY <1>2, <1>8 DEF Above
  <2>3. own[n - 1].scopes \in Nat /\ own[n - 1].loops \in Nat
    BY <2>1 DEF Owners
  <2>4. own[n - 1].scopes = Len(locals')
    BY <1>2, <1>3, <1>8, <2>3, SMTT(30) DEF Above
  <2>5. own[n - 1].loops = Len(loops')
    BY <1>2, <1>3, <1>8, <2>3 DEF Above
  <2> QED BY <2>1, <2>2, <2>4, <2>5 DEF Owners
<1>10. own2[Len(own2)] = [chunk |-> chunk_idx', scopes |-> Len(locals'), loops |-> Len(loops')]
  BY <1>2, <1>4, <1>6, <1>9
<1>11. frames'[1].fn = "do_source" /\ own2[1] = [chunk |-> 1, scopes |-> 1, loops |-> 0]
  <2>1. 1 \in 1 .. n - 1
    BY <1>2, <1>4
  <2> QED BY <1>5, <1>6, <2>1 DEF Nested
<1>12. ASSUME NEW i \in DOMAIN own2 PROVE own2[i].chunk \in DOMAIN chunks'
  <2>1. own2[i] = own[i] /\ i \in DOMAIN own
    BY <1>2, <1>6, <1>7
  <2> QED BY <2>1 DEF Nested
<1>13. ASSUME NEW i \in 2 .. Len(own2) PROVE Above(own2, i)'
  <2>1. i \in 2 .. Len(own) /\ i \in 1 .. n - 1 /\ i - 1 \in 1 .. n - 1
    BY <1>2, <1>6
  <2>2. Above(own, i)
    BY <2>1 DEF Nested
  <2>3. frames'[i] = frames[i] /\ frames'[i - 1] = frames[i - 1] /\ own2[i] = own[i] /\ own2[i - 1] = own[i - 1]
    BY <1>5, <1>6, <2>1
  <2> QED BY <2>2, <2>3 DEF Above
<1>14. ASSUME NEW i \in DOMAIN own2, NEW j \in DOMAIN own2, i < j PROVE FarAbove(own2, i, j)'
  <2>1. i \in 1 .. n - 1 /\ j \in 1 .. n - 1 /\ i \in DOMAIN own /\ j \in DOMAIN own
    BY <1>2, <1>7
  <2>2. FarAbove(own, i, j)
    BY <1>14, <2>1 DEF Nested
  <2>3. frames'[j] = frames[j] /\ own2[i] = own[i] /\ own2[j] = own[j]
    BY <1>5, <1>6, <2>1
  <2> QED BY <2>2, <2>3 DEF FarAbove
<1>15. ASSUME NEW l \in 1 .. Len(loops')
       PROVE  \E i \in DOMAIN own2 : frames'[i].fn \in LoopFns /\ own2[i].loops = l
  <2>1. l \in 1 .. Len(loops)
    BY <1>3
  <2>2. PICK i \in DOMAIN own : frames[i].fn \in LoopFns /\ own[i].loops = l
    BY <2>1 DEF Nested
  <2>3. i # n
    <3>1. SUFFICES ASSUME i = n PROVE FALSE
      OBVIOUS
    <3>2. Len(loops') = Len(loops) - 1 /\ l = Len(loops)
      BY <1>2, <2>2, <3>1
    <3> QED BY <1>3, <3>2
  <2>4. i \in 1 .. n - 1
    BY <1>2, <2>3
  <2> QED BY <1>5, <1>6, <1>7, <2>2, <2>4
<1>16. Len(own2) = Len(frames') /\ Len(own2) > 0
  BY <1>2, <1>4, <1>5, <1>6
<1> QED BY <1>1, <1>4, <1>6, <1>10, <1>11, <1>12, <1>13, <1>14, <1>15, <1>16 DEF Nested

(***************************************************************************)
(* What every step keeps: code and constants are only added to, and        *)
(* what an instruction is and what it is for never change.                 *)
(***************************************************************************)
ChunkGrows(old, new) ==
  /\ new.params = old.params /\ new.captures = old.captures
  /\ \A i \in DOMAIN old.code : /\ i \in DOMAIN new.code /\ new.code[i].op = old.code[i].op
                                /\ new.code[i].for = old.code[i].for /\ new.code[i].info = old.code[i].info
  /\ \A k \in DOMAIN old.constants : k \in DOMAIN new.constants /\ new.constants[k] = old.constants[k]

ChunksGrow == \A c \in DOMAIN chunks : c \in DOMAIN chunks' /\ ChunkGrows(chunks[c], chunks'[c])

\* Only RESERVE and jumps are patched.
WidesStay ==
  \A c \in DOMAIN chunks : \A i \in DOMAIN chunks[c].code :
    i # 1 /\ ~ IsJump(chunks[c].code[i]) => chunks'[c].code[i].wide = chunks[c].code[i].wide

LocalsGrow == \A s \in DOMAIN locals \cap DOMAIN locals' : ScopeGrows(locals[s], locals'[s])

StringsGrow == \A k \in DOMAIN strings : k \in DOMAIN strings' /\ strings'[k] = strings[k]

\* The calls that go on.
Continues(own, own2, m) == \A i \in 1 .. m : own2[i] = own[i] /\ SameFrame(frames[i], frames'[i])

LEMMA ConstantStays ==
  ASSUME ChunksGrow, NEW c \in DOMAIN chunks, NEW lexeme, NEW id, ConstantOf(c, lexeme, id)
  PROVE  ConstantOf(c, lexeme, id)'
<1>1. ChunkGrows(chunks[c], chunks'[c])
  BY DEF ChunksGrow
<1>2. PICK j \in DOMAIN chunks[c].code :
        /\ chunks[c].code[j].op = "put_k" /\ chunks[c].code[j].for.lexeme = lexeme
        /\ Holds(chunks[c].constants, id, chunks[c].code[j].for.value)
  BY DEF ConstantOf, CodeOf
<1>3. /\ j \in DOMAIN chunks'[c].code /\ chunks'[c].code[j].op = "put_k"
      /\ chunks'[c].code[j].for = chunks[c].code[j].for
  BY <1>1, <1>2 DEF ChunkGrows
<1>4. Holds(chunks'[c].constants, id, chunks'[c].code[j].for.value)
  BY <1>1, <1>2, <1>3 DEF ChunkGrows, Holds
<1> QED BY <1>2, <1>3, <1>4 DEF ConstantOf, CodeOf

LEMMA StrayStays ==
  ASSUME ChunksGrow, ~ StrayJump'
  PROVE  ~ StrayJump
<1> SUFFICES ASSUME StrayJump PROVE FALSE
  OBVIOUS
<1>1. PICK c \in DOMAIN chunks : \E i \in DOMAIN chunks[c].code :
        IsJump(chunks[c].code[i]) /\ chunks[c].code[i].for.loop.chunk # c
  BY DEF StrayJump, CodeOf
<1>2. PICK i \in DOMAIN chunks[c].code : IsJump(chunks[c].code[i]) /\ chunks[c].code[i].for.loop.chunk # c
  BY <1>1
<1>3. c \in DOMAIN chunks' /\ ChunkGrows(chunks[c], chunks'[c])
  BY DEF ChunksGrow
<1>4. i \in DOMAIN chunks'[c].code /\ IsJump(chunks'[c].code[i]) /\ chunks'[c].code[i].for.loop.chunk # c
  BY <1>2, <1>3 DEF ChunkGrows, IsJump
<1> QED BY <1>3, <1>4 DEF StrayJump, CodeOf

\* A table that does not change stays fit.
LEMMA ScopeStaysFit ==
  ASSUME ChunksGrow, NEW c \in DOMAIN chunks, NEW scope, ScopeFits(scope, c)
  PROVE  ScopeFits(scope, c)'
<1>1. chunks'[c].params = chunks[c].params /\ chunks'[c].captures = chunks[c].captures
  BY DEF ChunksGrow, ChunkGrows
<1>2. ConstantsFit(scope, c)'
  <2>1. \A i \in DOMAIN scope.infos : scope.infos[i].domain = "constant" =>
          ConstantOf(c, scope.infos[i].name, scope.infos[i].id)
    BY DEF ScopeFits, ConstantsFit
  <2>2. ASSUME NEW i \in DOMAIN scope.infos, scope.infos[i].domain = "constant"
        PROVE  ConstantOf(c, scope.infos[i].name, scope.infos[i].id)'
    BY <2>1, <2>2, ConstantStays
  <2> QED BY <2>2 DEF ConstantsFit
<1>3. LocalsFit(scope) /\ UpvalsFit(scope, chunks[c].captures) /\ ParamsFit(scope, chunks[c].params)
  BY DEF ScopeFits
<1>4. LocalsFit(scope)' /\ UpvalsFit(scope, chunks'[c].captures) /\ ParamsFit(scope, chunks'[c].params)
  BY <1>1, <1>3 DEF LocalsFit
<1> QED BY <1>2, <1>4 DEF ScopeFits

\* Where the scope and the chunk of a call are.
LEMMA OwnedInside ==
  ASSUME ScopesTypeOK, NEW own, Nested(own), NEW i \in DOMAIN own
  PROVE  /\ own[i].scopes \in 1 .. Len(locals) /\ own[i].scopes \in DOMAIN locals /\ own[i].chunk \in DOMAIN chunks
         /\ own[i].loops \in 0 .. Len(loops)
         /\ own[i].scopes = Len(locals) <=> own[i].chunk = chunk_idx
<1>1. PICK n : n = Len(frames)
  OBVIOUS
<1>2. /\ n \in Nat \ {0} /\ DOMAIN own = 1 .. n
      /\ own[n].chunk = chunk_idx /\ own[n].scopes = Len(locals) /\ own[n].loops = Len(loops)
      /\ \A k \in 1 .. n : own[k] \in Owners
  BY <1>1, FramesFacts
<1>3. Len(locals) \in Nat /\ Len(loops) \in Nat /\ DOMAIN locals = 1 .. Len(locals)
  BY DEF ScopesTypeOK
<1>4. PICK mine \in Owners : mine = own[i]
  BY <1>2
<1>5. mine.scopes \in Nat /\ mine.loops \in Nat /\ mine.chunk \in Nat
  BY DEF Owners
<1>6. mine.scopes >= 1
  <2>1. own[1].scopes = 1
    BY DEF Nested
  <2>2. CASE i = 1
    BY <1>4, <2>1, <2>2
  <2>3. CASE i # 1
    <3>1. 1 \in DOMAIN own /\ 1 < i
      BY <1>2, <2>3
    <3>2. FarAbove(own, 1, i)
      BY <3>1 DEF Nested
    <3>3. own[1].scopes <= own[i].scopes
      BY <3>2 DEF FarAbove
    <3> QED BY <1>4, <1>5, <2>1, <3>3
  <2> QED BY <2>2, <2>3
<1>7. /\ mine.scopes <= Len(locals) /\ mine.loops <= Len(loops)
      /\ mine.scopes = Len(locals) <=> mine.chunk = chunk_idx
  <2>1. CASE i = n
    BY <1>2, <1>3, <1>4, <2>1
  <2>2. CASE i # n
    <3>1. n \in DOMAIN own /\ i < n
      BY <1>2, <2>2
    <3>2. FarAbove(own, i, n)
      BY <3>1 DEF Nested
    <3>3. /\ own[i].scopes <= own[n].scopes /\ own[i].loops <= own[n].loops
          /\ own[i].chunk = own[n].chunk <=> own[i].scopes = own[n].scopes
      BY <3>2 DEF FarAbove
    <3> QED BY <1>2, <1>4, <3>3
  <2> QED BY <2>1, <2>2
<1>8. own[i].chunk \in DOMAIN chunks
  BY DEF Nested
<1>9. own[i].scopes \in 1 .. Len(locals) /\ own[i].loops \in 0 .. Len(loops)
  BY <1>3, <1>4, <1>5, <1>6, <1>7
<1> QED BY <1>3, <1>4, <1>7, <1>8, <1>9

\* and the same of the next state.
LEMMA OwnedInsideNext ==
  ASSUME ScopesTypeOK', NEW own, Nested(own)', NEW i \in DOMAIN own
  PROVE  /\ own[i].scopes \in DOMAIN locals' /\ own[i].chunk \in DOMAIN chunks'
         /\ own[i].scopes = Len(locals') <=> own[i].chunk = chunk_idx'
<1>1. PICK n : n = Len(own)
  OBVIOUS
<1>2. own \in Seq(Owners) /\ n > 0 /\ own[n] = [chunk |-> chunk_idx', scopes |-> Len(locals'), loops |-> Len(loops')]
  BY <1>1 DEF Nested
<1>3. /\ n \in Nat \ {0} /\ DOMAIN own = 1 .. n
      /\ own[n].chunk = chunk_idx' /\ own[n].scopes = Len(locals')
      /\ \A k \in 1 .. n : own[k] \in Owners
  BY <1>1, <1>2
<1>4. Len(locals') \in Nat /\ DOMAIN locals' = 1 .. Len(locals')
  BY DEF ScopesTypeOK
<1>5. PICK mine \in Owners : mine = own[i]
  BY <1>3
<1>6. mine.scopes \in Nat /\ mine.chunk \in Nat
  BY DEF Owners
<1>7. mine.scopes >= 1
  <2>1. own[1].scopes = 1
    BY DEF Nested
  <2>2. CASE i = 1
    BY <1>5, <2>1, <2>2
  <2>3. CASE i # 1
    <3>1. 1 \in DOMAIN own /\ 1 < i
      BY <1>3, <2>3
    <3>2. FarAbove(own, 1, i)'
      BY <3>1 DEF Nested
    <3>3. own[1].scopes <= own[i].scopes
      BY <3>2 DEF FarAbove
    <3> QED BY <1>5, <1>6, <2>1, <3>3
  <2> QED BY <2>2, <2>3
<1>8. /\ mine.scopes <= Len(locals')
      /\ mine.scopes = Len(locals') <=> mine.chunk = chunk_idx'
  <2>1. CASE i = n
    BY <1>3, <1>4, <1>5, <2>1
  <2>2. CASE i # n
    <3>1. n \in DOMAIN own /\ i < n
      BY <1>3, <2>2
    <3>2. FarAbove(own, i, n)'
      BY <3>1 DEF Nested
    <3>3. /\ own[i].scopes <= own[n].scopes
          /\ own[i].chunk = own[n].chunk <=> own[i].scopes = own[n].scopes
      BY <3>2 DEF FarAbove
    <3> QED BY <1>3, <1>5, <3>3
  <2> QED BY <2>1, <2>2
<1>9. own[i].chunk \in DOMAIN chunks'
  BY DEF Nested
<1>10. own[i].scopes \in DOMAIN locals'
  BY <1>4, <1>5, <1>6, <1>7, <1>8
<1> QED BY <1>5, <1>8, <1>9, <1>10

LEMMA FiledLocalStays ==
  ASSUME NEW old, NEW new, ScopeGrows(old, new), NEW name, NEW id, FiledLocal(old, name, id)
  PROVE  FiledLocal(new, name, id)
BY FiledStays DEF FiledLocal

\* What a call knows of names stays true while it goes on.
LEMMA FrameStaysFit ==
  ASSUME ScopesTypeOK, ScopesTypeOK', ChunksGrow, LocalsGrow, NEW own, Nested(own), NEW own2, Nested(own2)',
         NEW i \in DOMAIN own \cap DOMAIN own2, Continues(own, own2, i), FrameFits(own, i)
  PROVE  FrameFits(own2, i)'
<1>0. i \in Nat \ {0} /\ DOMAIN own = 1 .. Len(own) /\ Len(own) \in Nat
  BY DEF Nested
<1>1. own2[i] = own[i] /\ SameFrame(frames[i], frames'[i])
  BY <1>0 DEF Continues
<1>2. PICK s : s = own[i].scopes
  OBVIOUS
<1>3. s \in DOMAIN locals /\ s \in DOMAIN locals' /\ own[i].chunk \in DOMAIN chunks
  BY <1>1, <1>2, OwnedInside, OwnedInsideNext
<1>4. ScopeGrows(locals[s], locals'[s])
  BY <1>3 DEF LocalsGrow
<1>5. chunks'[own[i].chunk].captures = chunks[own[i].chunk].captures
  BY <1>3 DEF ChunksGrow, ChunkGrows
<1>6. ASSUME frames'[i].fn = "do_vars"
      PROVE  FiledLocal(locals'[s], frames'[i].name, frames'[i].id)
  <2>1. frames[i].fn = "do_vars" /\ frames'[i].name = frames[i].name /\ frames'[i].id = frames[i].id
    BY <1>1, <1>6 DEF SameFrame
  <2>2. FiledLocal(locals[s], frames[i].name, frames[i].id)
    BY <1>2, <2>1 DEF FrameFits
  <2> QED BY <1>4, <2>1, <2>2, FiledLocalStays
<1>7. ASSUME frames'[i].fn = "do_for"
      PROVE  frames'[i].info # NoInfo /\ frames'[i].info.domain = "local" => Filed(locals'[s], frames'[i].info)
  <2>1. frames[i].fn = "do_for" /\ frames'[i].info = frames[i].info
    BY <1>1, <1>7 DEF SameFrame
  <2>2. frames[i].info # NoInfo /\ frames[i].info.domain = "local" => Filed(locals[s], frames[i].info)
    BY <1>2, <2>1 DEF FrameFits
  <2> QED BY <1>4, <2>1, <2>2, FiledStays
<1>8. ASSUME frames'[i].fn = "do_expr_stmt"
      PROVE  /\ frames'[i].dest = "none" <=> frames'[i].info = NoInfo
             /\ frames'[i].dest # "none" => frames'[i].dest = frames'[i].info.domain
             /\ frames'[i].dest \in {"local", "upval"} => Filed(locals'[s], frames'[i].info)
  <2>1. frames[i].fn = "do_expr_stmt" /\ frames'[i].info = frames[i].info /\ frames'[i].dest = frames[i].dest
    BY <1>1, <1>8 DEF SameFrame
  <2>2. /\ frames[i].dest = "none" <=> frames[i].info = NoInfo
        /\ frames[i].dest # "none" => frames[i].dest = frames[i].info.domain
        /\ frames[i].dest \in {"local", "upval"} => Filed(locals[s], frames[i].info)
    BY <1>2, <2>1 DEF FrameFits
  <2> QED BY <1>4, <2>1, <2>2, FiledStays
<1>9. ASSUME frames'[i].fn = "do_lambda"
      PROVE  LET captures == chunks'[own[i].chunk].captures
             IN /\ Len(frames'[i].used_local_ids) = Len(captures)
                /\ \A k \in DOMAIN captures :
                     FiledLocal(locals'[own2[i - 1].scopes], captures[k], frames'[i].used_local_ids[k])
  <2>1. frames[i].fn = "do_lambda" /\ frames'[i].used_local_ids = frames[i].used_local_ids
    BY <1>1, <1>9 DEF SameFrame
  <2>2. i # 1
    <3>1. frames[1].fn = "do_source"
      BY DEF Nested
    <3> QED BY <2>1, <3>1
  <2>3. i - 1 \in DOMAIN own /\ i - 1 \in 1 .. i
    BY <1>0, <2>2
  <2>4. own2[i - 1] = own[i - 1] /\ i - 1 \in DOMAIN own2
    <3>1. DOMAIN own2 = 1 .. Len(own2) /\ Len(own2) \in Nat
      BY DEF Nested
    <3> QED BY <1>0, <2>2, <2>3, <3>1 DEF Continues
  <2>5. PICK t : t = own[i - 1].scopes
    OBVIOUS
  <2>6. t \in DOMAIN locals /\ t \in DOMAIN locals'
    BY <2>3, <2>4, <2>5, OwnedInside, OwnedInsideNext
  <2>7. ScopeGrows(locals[t], locals'[t])
    BY <2>6 DEF LocalsGrow
  <2>8. PICK captures : captures = chunks[own[i].chunk].captures
    OBVIOUS
  <2>9. /\ Len(frames[i].used_local_ids) = Len(captures)
        /\ \A k \in DOMAIN captures : FiledLocal(locals[t], captures[k], frames[i].used_local_ids[k])
    BY <2>1, <2>5, <2>8 DEF FrameFits
  <2>10. \A k \in DOMAIN captures : FiledLocal(locals'[t], captures[k], frames[i].used_local_ids[k])
    BY <2>7, <2>9, FiledLocalStays
  <2> QED BY <1>5, <2>1, <2>4, <2>5, <2>8, <2>9, <2>10
<1> QED BY <1>1, <1>2, <1>6, <1>7, <1>8, <1>9 DEF FrameFits

LEMMA ChunkTyped ==
  ASSUME ScopesTypeOK, NEW c \in DOMAIN chunks
  PROVE  /\ chunks[c] \in ChunkRecs /\ chunks[c].code \in Seq(AllInsts) /\ chunks[c].constants \in Seq(Values)
         /\ chunks[c].params \in Seq(Names) /\ chunks[c].captures \in Seq(Names)
<1>1. chunks[c] \in ChunkRecs
  BY DEF ScopesTypeOK
<1> QED BY <1>1 DEF ChunkRecs

LEMMA ChunkTypedNext ==
  ASSUME ScopesTypeOK', NEW c \in DOMAIN chunks'
  PROVE  /\ chunks'[c] \in ChunkRecs /\ chunks'[c].code \in Seq(AllInsts) /\ chunks'[c].constants \in Seq(Values)
         /\ chunks'[c].params \in Seq(Names) /\ chunks'[c].captures \in Seq(Names)
<1>1. chunks'[c] \in ChunkRecs
  BY DEF ScopesTypeOK
<1> QED BY <1>1 DEF ChunkRecs

\* The calls that go on, with their tables and the code they add to.
LEMMA NamesStay ==
  ASSUME ScopesTypeOK, ScopesTypeOK', ChunksGrow, LocalsGrow, NEW own, Nested(own), NamesFit(own),
         NEW own2, Nested(own2)', NEW m, m \in DOMAIN own \cap DOMAIN own2, Continues(own, own2, m),
         NEW here, here = chunk_idx, NEW scope,
         \A s \in DOMAIN locals \cap DOMAIN locals' :
           locals'[s] = locals[s] \/ (s = Len(locals) /\ locals'[s] = scope /\ ScopeFits(scope, here)'),
         \A i \in 1 .. m : chunks'[own[i].chunk].code = chunks[own[i].chunk].code \/ Unfinished(own[i].chunk)'
  PROVE  \A i \in 1 .. m : /\ ScopeFits(locals[own2[i].scopes], own2[i].chunk)' /\ FrameFits(own2, i)'
                           /\ Unfinished(own2[i].chunk)'
<1> SUFFICES ASSUME NEW i \in 1 .. m
             PROVE  /\ ScopeFits(locals[own2[i].scopes], own2[i].chunk)' /\ FrameFits(own2, i)'
                    /\ Unfinished(own2[i].chunk)'
  OBVIOUS
<1>1. /\ DOMAIN own = 1 .. Len(own) /\ Len(own) \in Nat /\ DOMAIN own2 = 1 .. Len(own2) /\ Len(own2) \in Nat
  BY DEF Nested
<1>2. i \in DOMAIN own /\ i \in DOMAIN own2 /\ m \in Nat /\ i \in Nat /\ i <= m
  BY <1>1
<1>3. Continues(own, own2, i) /\ own2[i] = own[i]
  BY <1>2 DEF Continues
<1>4. ScopeFits(locals[own[i].scopes], own[i].chunk) /\ FrameFits(own, i) /\ Unfinished(own[i].chunk)
  BY <1>2 DEF NamesFit
<1>5. FrameFits(own2, i)'
  BY <1>2, <1>3, <1>4, FrameStaysFit
<1>6. PICK c : c = own[i].chunk
  OBVIOUS
<1>7. PICK s : s = own[i].scopes
  OBVIOUS
<1>8. /\ s \in DOMAIN locals /\ s \in DOMAIN locals' /\ c \in DOMAIN chunks
      /\ s = Len(locals) => c = chunk_idx
  BY <1>2, <1>3, <1>6, <1>7, OwnedInside, OwnedInsideNext
<1>9. ScopeFits(locals[s], c)'
  <2>1. PICK table : table = locals'[s]
    OBVIOUS
  <2>2. CASE table = locals[s]
    <3>1. ScopeFits(table, c)
      BY <1>4, <1>6, <1>7, <2>2
    <3>2. ScopeFits(table, c)'
      BY <1>8, <3>1, ScopeStaysFit
    <3> QED BY <2>1, <3>2
  <2>3. CASE table # locals[s]
    <3>1. table = scope /\ c = here /\ ScopeFits(scope, here)'
      BY <1>8, <2>1, <2>3
    <3> QED BY <2>1, <3>1
  <2> QED BY <2>2, <2>3
<1>10. Unfinished(c)'
  <2>1. CASE chunks'[c].code = chunks[c].code
    BY <1>4, <1>6, <2>1 DEF Unfinished, CodeOf
  <2>2. CASE chunks'[c].code # chunks[c].code
    BY <1>6, <2>2
  <2> QED BY <2>1, <2>2
<1> QED BY <1>3, <1>5, <1>6, <1>7, <1>9, <1>10

\* The slots of code that is added to.
LEMMA SlotsStayFiled ==
  ASSUME ChunksGrow, WidesStay, NEW c \in DOMAIN chunks, NEW old, NEW new, ScopeGrows(old, new),
         SlotsFiled(old, c), chunks[c].code[1].op = "reserve",
         \A i \in DOMAIN chunks'[c].code \ DOMAIN chunks[c].code :
           OfSlot(chunks'[c].code[i]) /\ Good(chunks'[c].code[i]) =>
             FiledLocal(new, chunks'[c].code[i].for, chunks'[c].code[i].wide)
  PROVE  SlotsFiled(new, c)'
<1> SUFFICES ASSUME NEW i \in DOMAIN chunks'[c].code, NEW inst, inst = chunks'[c].code[i], OfSlot(inst), Good(inst)
             PROVE  FiledLocal(new, inst.for, inst.wide)
  BY DEF SlotsFiled, CodeOf
<1>1. CASE i \in DOMAIN chunks[c].code
  <2>1. PICK was : was = chunks[c].code[i]
    OBVIOUS
  <2>2. inst.op = was.op /\ inst.for = was.for /\ inst.info = was.info
    BY <1>1, <2>1 DEF ChunksGrow, ChunkGrows
  <2>3. OfSlot(was) /\ Good(was)
    BY <2>2 DEF OfSlot, Good
  <2>4. i # 1 /\ ~ IsJump(was)
    BY <2>1, <2>3 DEF OfSlot, IsJump
  <2>5. inst.wide = was.wide
    BY <1>1, <2>1, <2>4 DEF WidesStay
  <2>6. FiledLocal(old, was.for, was.wide)
    BY <1>1, <2>1, <2>3 DEF SlotsFiled, CodeOf
  <2> QED BY <2>2, <2>5, <2>6, FiledLocalStays
<1>2. CASE i \notin DOMAIN chunks[c].code
  BY <1>2
<1> QED BY <1>1, <1>2

LEMMA OpenStays ==
  ASSUME ScopesTypeOK, ScopesTypeOK', ChunksGrow, LocalsGrow, WidesStay, NEW own, Nested(own), OpenFit(own),
         \A c \in DOMAIN chunks : CodeFits(c),
         NEW own2, Nested(own2)', NEW m, m \in DOMAIN own \cap DOMAIN own2, Continues(own, own2, m),
         \A i \in 1 .. m : \A k \in DOMAIN chunks'[own[i].chunk].code \ DOMAIN chunks[own[i].chunk].code :
           LET inst == chunks'[own[i].chunk].code[k]
           IN OfSlot(inst) /\ Good(inst) => FiledLocal(locals'[own[i].scopes], inst.for, inst.wide)
  PROVE  \A i \in 1 .. m : SlotsFiled(locals[own2[i].scopes], own2[i].chunk)'
<1> SUFFICES ASSUME NEW i \in 1 .. m
             PROVE  SlotsFiled(locals[own2[i].scopes], own2[i].chunk)'
  OBVIOUS
<1>1. /\ DOMAIN own = 1 .. Len(own) /\ Len(own) \in Nat /\ DOMAIN own2 = 1 .. Len(own2) /\ Len(own2) \in Nat
  BY DEF Nested
<1>2. i \in DOMAIN own /\ i \in DOMAIN own2 /\ m \in Nat /\ i \in Nat /\ i <= m
  BY <1>1
<1>3. own2[i] = own[i]
  BY <1>2 DEF Continues
<1>4. PICK c : c = own[i].chunk
  OBVIOUS
<1>5. PICK s : s = own[i].scopes
  OBVIOUS
<1>6. s \in DOMAIN locals /\ s \in DOMAIN locals' /\ c \in DOMAIN chunks
  BY <1>2, <1>3, <1>4, <1>5, OwnedInside, OwnedInsideNext
<1>7. ScopeGrows(locals[s], locals'[s])
  BY <1>6 DEF LocalsGrow
<1>8. SlotsFiled(locals[s], c) /\ chunks[c].code[1].op = "reserve"
  BY <1>2, <1>4, <1>5, <1>6 DEF OpenFit, CodeFits, CodeOf
<1>9. \A k \in DOMAIN chunks'[c].code \ DOMAIN chunks[c].code :
           OfSlot(chunks'[c].code[k]) /\ Good(chunks'[c].code[k]) =>
             FiledLocal(locals'[s], chunks'[c].code[k].for, chunks'[c].code[k].wide)
  BY <1>4, <1>5
<1>10. PICK old : old = locals[s]
  OBVIOUS
<1>11. PICK new : new = locals'[s]
  OBVIOUS
<1>12. SlotsFiled(new, c)'
  BY <1>6, <1>7, <1>8, <1>9, <1>10, <1>11, SlotsStayFiled
<1> QED BY <1>3, <1>4, <1>5, <1>11, <1>12

\* Filed slots are apart.
LEMMA FiledApart ==
  ASSUME NEW c, NEW scope, SlotsFiled(scope, c)', LocalsFit(scope), ParamsFit(scope, chunks'[c].params),
         NamedApart(c)'
  PROVE  SlotsApart(c)'
<1>1. PICK code : code = chunks'[c].code
  OBVIOUS
<1>2. PICK params : params = chunks'[c].params
  OBVIOUS
<1>3. PICK reached : reached = {i \in DOMAIN code : OfSlot(code[i]) /\ Good(code[i])}
  OBVIOUS
<1>4. ASSUME NEW i \in reached
      PROVE  \E k \in DOMAIN scope.infos : /\ scope.infos[k].domain = "local" /\ scope.infos[k].name = code[i].for
                                           /\ scope.infos[k].id = code[i].wide
  <2>1. FiledLocal(scope, code[i].for, code[i].wide)
    BY <1>1, <1>3 DEF SlotsFiled, CodeOf
  <2>2. PICK k \in DOMAIN scope.infos : scope.infos[k] = make_symbol_info(code[i].for, code[i].wide, "local")
    BY <2>1 DEF FiledLocal, Filed
  <2> QED BY <2>2 DEF make_symbol_info
<1>5. ASSUME NEW i \in reached, NEW j \in reached
      PROVE  code[i].wide = code[j].wide <=> code[i].for = code[j].for
  <2>1. PICK a \in DOMAIN scope.infos : /\ scope.infos[a].domain = "local" /\ scope.infos[a].name = code[i].for
                                        /\ scope.infos[a].id = code[i].wide
    BY <1>4
  <2>2. PICK b \in DOMAIN scope.infos : /\ scope.infos[b].domain = "local" /\ scope.infos[b].name = code[j].for
                                        /\ scope.infos[b].id = code[j].wide
    BY <1>4
  <2>3. scope.infos[b].name = scope.infos[a].name <=> scope.infos[b].id = scope.infos[a].id
    BY <2>1, <2>2 DEF LocalsFit
  <2> QED BY <2>1, <2>2, <2>3
<1>6. ASSUME NEW i \in reached, NEW k \in DOMAIN params, params[k] = code[i].for
      PROVE  code[i].wide = k
  <2>1. PICK a \in DOMAIN scope.infos : /\ scope.infos[a].domain = "local" /\ scope.infos[a].name = code[i].for
                                        /\ scope.infos[a].id = code[i].wide
    BY <1>4
  <2>2. IsInjective(params)
    BY <1>2 DEF NamedApart
  <2>3. PICK b \in DOMAIN scope.infos : /\ scope.infos[b].domain = "local" /\ scope.infos[b].name = params[k]
                                        /\ scope.infos[b].id = k
    BY <1>2, <2>2 DEF ParamsFit
  <2>4. scope.infos[b].name = scope.infos[a].name <=> scope.infos[b].id = scope.infos[a].id
    BY <2>1, <2>3 DEF LocalsFit
  <2> QED BY <1>6, <2>1, <2>3, <2>4
<1> QED BY <1>1, <1>2, <1>3, <1>5, <1>6 DEF SlotsApart, CodeOf

\* Code that is not finished need not be reserved for.
LEMMA UnfinishedReserved ==
  ASSUME ScopesTypeOK', NEW c \in DOMAIN chunks', Unfinished(c)'
  PROVE  SlotsReserved(c)'
<1>1. PICK code : code = chunks'[c].code
  OBVIOUS
<1>2. code \in Seq(AllInsts)
  BY <1>1, ChunkTypedNext
<1>3. code # <<>> /\ \A i \in DOMAIN code : code[i].op # "ret"
  BY <1>1 DEF Unfinished, CodeOf
<1>4. Len(code) \in DOMAIN code /\ Last(code) = code[Len(code)]
  BY <1>2, <1>3 DEF Last
<1>5. ~ Finished(c)'
  BY <1>1, <1>3, <1>4 DEF Finished, CodeOf
<1> QED BY <1>5 DEF SlotsReserved

\* Code that is added to stays fit when what is added is.
LEMMA LiteralStaysFit ==
  ASSUME ChunksGrow, WidesStay, StringsGrow, NEW c \in DOMAIN chunks, chunks[c].code[1].op = "reserve",
         NEW i \in DOMAIN chunks[c].code, LiteralFits(c, i)
  PROVE  LiteralFits(c, i)'
<1>1. PICK was : was = chunks[c].code[i]
  OBVIOUS
<1>2. PICK inst : inst = chunks'[c].code[i]
  OBVIOUS
<1>3. inst.op = was.op /\ inst.for = was.for
  BY <1>1, <1>2 DEF ChunksGrow, ChunkGrows
<1>4. was.op = "put_k" => ConstantOf(c, was.for.lexeme, was.wide)
  BY <1>1 DEF LiteralFits, CodeOf
<1>5. was.op = "load_string_k" => Holds(strings, was.wide, was.for.text)
  BY <1>1 DEF LiteralFits, CodeOf
<1>6. ASSUME was.op \in {"put_k", "load_string_k"} PROVE inst.wide = was.wide
  <2>1. i # 1 /\ ~ IsJump(was)
    BY <1>1, <1>6 DEF IsJump
  <2> QED BY <1>1, <1>2, <2>1 DEF WidesStay
<1>7. ASSUME inst.op = "put_k" PROVE ConstantOf(c, inst.for.lexeme, inst.wide)'
  <2>1. ConstantOf(c, was.for.lexeme, was.wide)
    BY <1>3, <1>4, <1>7
  <2>2. ConstantOf(c, was.for.lexeme, was.wide)'
    BY <2>1, ConstantStays
  <2> QED BY <1>3, <1>6, <1>7, <2>2
<1>8. ASSUME inst.op = "load_string_k" PROVE Holds(strings', inst.wide, inst.for.text)
  <2>1. Holds(strings, was.wide, was.for.text)
    BY <1>3, <1>5, <1>8
  <2>2. Holds(strings', was.wide, was.for.text)
    BY <2>1 DEF Holds, StringsGrow
  <2> QED BY <1>3, <1>6, <1>8, <2>2
<1> QED BY <1>2, <1>7, <1>8 DEF LiteralFits, CodeOf

LEMMA CaptureStaysFit ==
  ASSUME ScopesTypeOK, ChunksGrow, WidesStay, NEW c \in DOMAIN chunks, chunks[c].code[1].op = "reserve",
         NEW i \in DOMAIN chunks[c].code, CaptureFits(c, i)
  PROVE  CaptureFits(c, i)'
<1>1. PICK code : code = chunks[c].code
  OBVIOUS
<1>2. PICK next : next = chunks'[c].code
  OBVIOUS
<1>3. \A k \in DOMAIN code : k \in DOMAIN next /\ next[k].op = code[k].op /\ next[k].for = code[k].for /\ next[k].info = code[k].info
  BY <1>1, <1>2 DEF ChunksGrow, ChunkGrows
<1>4. ASSUME NEW k \in DOMAIN code, code[k].op # "reserve", ~ IsJump(code[k]) PROVE next[k].wide = code[k].wide
  <2>1. k # 1
    BY <1>1, <1>4
  <2> QED BY <1>1, <1>2, <1>4, <2>1 DEF WidesStay
<1>5. i \in DOMAIN code /\ code \in Seq(AllInsts) /\ DOMAIN code = 1 .. Len(code) /\ Len(code) \in Nat
  BY <1>1, ChunkTyped
<1>6. ASSUME OfUpval(next[i]), Good(next[i]) PROVE Holds(chunks'[c].captures, next[i].wide, next[i].for)
  <2>1. OfUpval(code[i]) /\ Good(code[i]) /\ next[i].wide = code[i].wide
    <3>1. OfUpval(code[i]) /\ Good(code[i])
      BY <1>3, <1>5, <1>6 DEF OfUpval, Good
    <3>2. code[i].op # "reserve" /\ ~ IsJump(code[i])
      BY <3>1 DEF OfUpval, IsJump
    <3> QED BY <1>4, <1>5, <3>1, <3>2
  <2>2. Holds(chunks[c].captures, code[i].wide, code[i].for)
    BY <1>1, <2>1 DEF CaptureFits, CodeOf
  <2>3. chunks'[c].captures = chunks[c].captures
    BY DEF ChunksGrow, ChunkGrows
  <2> QED BY <1>3, <1>5, <2>1, <2>2, <2>3
<1>7. ASSUME next[i].op = "mk_closure"
      PROVE  /\ next[i].wide \in Nat /\ i - next[i].wide - 1 \in DOMAIN next
             /\ next[i - next[i].wide - 1].op = "load_imm_gid" /\ next[i - next[i].wide - 1].wide \in DOMAIN chunks'
             /\ [k \in 1 .. next[i].wide |-> next[i - next[i].wide + k - 1].for]
                  = chunks'[next[i - next[i].wide - 1].wide].captures
  <2>1. code[i].op = "mk_closure" /\ ~ IsJump(code[i])
    BY <1>3, <1>5, <1>7 DEF IsJump
  <2>2. PICK w : w = code[i].wide
    OBVIOUS
  <2>3. next[i].wide = w
    BY <1>4, <1>5, <2>1, <2>2
  <2>4. PICK at : at = i - w - 1
    OBVIOUS
  <2>5. /\ w \in Nat /\ at \in DOMAIN code /\ code[at].op = "load_imm_gid" /\ code[at].wide \in DOMAIN chunks
        /\ [k \in 1 .. w |-> code[i - w + k - 1].for] = chunks[code[at].wide].captures
    BY <1>1, <2>1, <2>2, <2>4 DEF CaptureFits, CodeOf
  <2>6. next[at].op = "load_imm_gid" /\ next[at].wide = code[at].wide
    <3>1. ~ IsJump(code[at])
      BY <2>5 DEF IsJump
    <3> QED BY <1>3, <1>4, <2>5, <3>1
  <2>7. code[at].wide \in DOMAIN chunks' /\ chunks'[code[at].wide].captures = chunks[code[at].wide].captures
    BY <2>5 DEF ChunksGrow, ChunkGrows
  <2>8. ASSUME NEW k \in 1 .. w PROVE next[i - w + k - 1].for = code[i - w + k - 1].for
    <3>1. i - w + k - 1 \in DOMAIN code
      BY <1>5, <2>4, <2>5
    <3> QED BY <1>3, <3>1
  <2>9. [k \in 1 .. w |-> next[i - w + k - 1].for] = [k \in 1 .. w |-> code[i - w + k - 1].for]
    BY <2>8
  <2>10. at \in DOMAIN next
    BY <1>3, <2>5
  <2> QED BY <2>3, <2>4, <2>5, <2>6, <2>7, <2>9, <2>10
<1> QED BY <1>2, <1>6, <1>7 DEF CaptureFits, CodeOf

LEMMA CodeStaysFit ==
  ASSUME ScopesTypeOK, ChunksGrow, WidesStay, StringsGrow, NEW c \in DOMAIN chunks, CodeFits(c),
         \A i \in DOMAIN chunks'[c].code \ DOMAIN chunks[c].code : LiteralFits(c, i)' /\ CaptureFits(c, i)',
         chunks'[c] = chunks[c] \/ (NamedApart(c)' => SlotsApart(c)' /\ SlotsReserved(c)')
  PROVE  CodeFits(c)'
<1>1. /\ chunks[c].code # <<>> /\ chunks[c].code[1].op = "reserve"
      /\ \A i \in DOMAIN chunks[c].code : LiteralFits(c, i) /\ CaptureFits(c, i)
      /\ NamedApart(c) => SlotsApart(c) /\ SlotsReserved(c)
  BY DEF CodeFits, CodeOf
<1>2. 1 \in DOMAIN chunks[c].code
  <2>1. chunks[c].code \in Seq(AllInsts)
    BY ChunkTyped
  <2> QED BY <1>1, <2>1
<1>3. \A i \in DOMAIN chunks[c].code : LiteralFits(c, i)' /\ CaptureFits(c, i)'
  BY <1>1, LiteralStaysFit, CaptureStaysFit
<1>4. \A i \in DOMAIN chunks'[c].code : LiteralFits(c, i)' /\ CaptureFits(c, i)'
  BY <1>3
<1>5. chunks'[c].code # <<>> /\ chunks'[c].code[1].op = "reserve"
  <2>1. 1 \in DOMAIN chunks'[c].code /\ chunks'[c].code[1].op = chunks[c].code[1].op
    BY <1>2 DEF ChunksGrow, ChunkGrows
  <2> QED BY <1>1, <2>1
<1>6. NamedApart(c)' => SlotsApart(c)' /\ SlotsReserved(c)'
  <2>1. CASE chunks'[c] = chunks[c]
    <3>1. NamedApart(c)' <=> NamedApart(c)
      BY <2>1 DEF NamedApart
    <3>2. SlotsApart(c)' <=> SlotsApart(c)
      BY <2>1 DEF SlotsApart, CodeOf
    <3>3. SlotsReserved(c)' <=> SlotsReserved(c)
      BY <2>1 DEF SlotsReserved, CodeOf, Finished
    <3> QED BY <1>1, <3>1, <3>2, <3>3
  <2> QED BY <2>1
<1> QED BY <1>4, <1>5, <1>6 DEF CodeFits, CodeOf

(***************************************************************************)
(* A step that adds to the current chunk and to the current scope, for the *)
(* calls up to m and, if there is one more then, for that one.             *)
(***************************************************************************)
LEMMA OnlyHereGrows ==
  ASSUME ScopesTypeOK, DOMAIN chunks' = DOMAIN chunks, NEW here \in DOMAIN chunks,
         \A c \in DOMAIN chunks : c # here => chunks'[c] = chunks[c],
         ChunkGrows(chunks[here], chunks'[here])
  PROVE  ChunksGrow
<1> SUFFICES ASSUME NEW c \in DOMAIN chunks PROVE ChunkGrows(chunks[c], chunks'[c])
  BY DEF ChunksGrow
<1>1. CASE c = here
  BY <1>1
<1>2. CASE c # here
  <2>1. chunks'[c] = chunks[c]
    BY <1>2
  <2> QED BY <2>1 DEF ChunkGrows
<1> QED BY <1>1, <1>2

LEMMA CurrScopeTyped ==
  ASSUME ScopesTypeOK, NEW own, Nested(own)
  PROVE  /\ CurrScope = locals[Len(locals)] /\ CurrScope \in ScopeRecs /\ Len(locals) \in DOMAIN locals
         /\ chunk_idx \in DOMAIN chunks /\ locals \in Seq(ScopeRecs) /\ Len(locals) \in Nat \ {0}
         /\ DOMAIN locals = 1 .. Len(locals)
<1>1. locals \in Seq(ScopeRecs) /\ chunk_idx \in DOMAIN chunks
  BY DEF ScopesTypeOK
<1>2. PICK n : n = Len(frames)
  OBVIOUS
<1>3. n \in DOMAIN own /\ own[n].scopes = Len(locals)
  BY <1>2, FramesFacts
<1>4. Len(locals) \in DOMAIN locals
  BY <1>3, OwnedInside
<1> QED BY <1>1, <1>4 DEF CurrScope, Last

LEMMA TheScopeGrows ==
  ASSUME ScopesTypeOK, NEW own, Nested(own), NEW scope, locals' = [locals EXCEPT ![Len(locals)] = scope],
         ScopeGrows(CurrScope, scope)
  PROVE  /\ LocalsGrow /\ DOMAIN locals' = DOMAIN locals /\ locals'[Len(locals)] = scope /\ Len(locals') = Len(locals)
         /\ \A s \in DOMAIN locals : s # Len(locals) => locals'[s] = locals[s]
<1>1. /\ CurrScope = locals[Len(locals)] /\ Len(locals) \in DOMAIN locals /\ locals \in Seq(ScopeRecs)
  BY CurrScopeTyped
<1>2. /\ DOMAIN locals' = DOMAIN locals /\ locals'[Len(locals)] = scope /\ Len(locals') = Len(locals)
      /\ \A s \in DOMAIN locals : s # Len(locals) => locals'[s] = locals[s]
  BY <1>1
<1>3. ASSUME NEW s \in DOMAIN locals PROVE ScopeGrows(locals[s], locals'[s])
  <2>1. CASE s = Len(locals)
    BY <1>1, <1>2, <2>1
  <2>2. CASE s # Len(locals)
    <3>1. locals'[s] = locals[s] /\ locals[s] \in ScopeRecs
      BY <1>1, <1>2, <2>2
    <3>2. locals[s].next_local_id \in Nat
      BY <3>1 DEF ScopeRecs
    <3> QED BY <3>1, <3>2 DEF ScopeGrows
  <2> QED BY <2>1, <2>2
<1> QED BY <1>2, <1>3 DEF LocalsGrow

LEMMA StraightStep ==
  ASSUME ScopesTypeOK, ScopesTypeOK', ProgramFits, NEW own, Compiling(own), NEW own2, Nested(own2)',
         NEW m, m \in DOMAIN own \cap DOMAIN own2, Len(own2) \in {m, m + 1}, Continues(own, own2, m),
         NEW here, here = chunk_idx, chunk_idx' = here,
         DOMAIN chunks' = DOMAIN chunks, \A c \in DOMAIN chunks : c # here => chunks'[c] = chunks[c],
         ChunkGrows(chunks[here], chunks'[here]), ~ StrayJump' => WidesStay, StringsGrow,
         NEW scope, locals' = [locals EXCEPT ![Len(locals)] = scope],
         ScopeGrows(CurrScope, scope), ScopeFits(scope, here)',
         \A i \in DOMAIN chunks'[here].code \ DOMAIN chunks[here].code :
           LET inst == chunks'[here].code[i]
           IN /\ inst.op # "ret" /\ LiteralFits(here, i)' /\ CaptureFits(here, i)'
              /\ OfSlot(inst) /\ Good(inst) => FiledLocal(scope, inst.for, inst.wide),
         Len(own2) = m + 1 => FrameFits(own2, m + 1)'
  PROVE  /\ NamesFit(own2)'
         /\ ~ StrayJump' => OpenFit(own2)' /\ \A c \in DOMAIN chunks' : CodeFits(c)'
<1>1. Nested(own) /\ NamesFit(own) /\ here \in DOMAIN chunks
  BY DEF Compiling, ScopesTypeOK
<1>2. ChunksGrow
  BY <1>1, OnlyHereGrows
<1>3. /\ LocalsGrow /\ DOMAIN locals' = DOMAIN locals /\ locals'[Len(locals)] = scope /\ Len(locals') = Len(locals)
      /\ \A s \in DOMAIN locals : s # Len(locals) => locals'[s] = locals[s]
  BY <1>1, TheScopeGrows
<1>4. PICK n : n = Len(frames)
  OBVIOUS
<1>5. n \in DOMAIN own /\ own[n].chunk = here /\ own[n].scopes = Len(locals)
  BY <1>1, <1>4, FramesFacts
<1>6. Unfinished(here)'
  <2>1. Unfinished(here)
    BY <1>1, <1>5 DEF NamesFit
  <2>2. \A i \in DOMAIN chunks[here].code :
          i \in DOMAIN chunks'[here].code /\ chunks'[here].code[i].op = chunks[here].code[i].op
    BY DEF ChunkGrows
  <2>3. \A i \in DOMAIN chunks'[here].code : chunks'[here].code[i].op # "ret"
    BY <2>1, <2>2 DEF Unfinished, CodeOf
  <2>4. chunks'[here].code # <<>>
    <3>1. chunks[here].code \in Seq(AllInsts) /\ chunks[here].code # <<>>
      BY <1>1, <2>1, ChunkTyped DEF Unfinished, CodeOf
    <3>2. 1 \in DOMAIN chunks[here].code
      BY <3>1
    <3> QED BY <2>2, <3>2
  <2> QED BY <2>3, <2>4 DEF Unfinished, CodeOf
<1>7. \A i \in 1 .. m : /\ ScopeFits(locals[own2[i].scopes], own2[i].chunk)' /\ FrameFits(own2, i)'
                        /\ Unfinished(own2[i].chunk)'
  <2>1. \A s \in DOMAIN locals \cap DOMAIN locals' :
          locals'[s] = locals[s] \/ (s = Len(locals) /\ locals'[s] = scope /\ ScopeFits(scope, here)')
    BY <1>3
  <2>2. ASSUME NEW i \in 1 .. m
        PROVE  chunks'[own[i].chunk].code = chunks[own[i].chunk].code \/ Unfinished(own[i].chunk)'
    <3>1. i \in DOMAIN own
      <4>1. DOMAIN own = 1 .. Len(own) /\ Len(own) \in Nat
        BY <1>1 DEF Nested
      <4> QED BY <4>1
    <3>2. PICK c : c = own[i].chunk
      OBVIOUS
    <3>3. c \in DOMAIN chunks
      BY <1>1, <3>1, <3>2 DEF Nested
    <3> QED BY <1>6, <3>2, <3>3
  <2> QED BY <1>1, <1>2, <1>3, <2>1, <2>2, NamesStay
<1>8. DOMAIN own2 = 1 .. Len(own2) /\ Len(own2) \in Nat /\ m \in Nat
  <2>1. DOMAIN own2 = 1 .. Len(own2) /\ Len(own2) \in Nat
    BY DEF Nested
  <2> QED BY <2>1
<1>9. /\ own2[Len(own2)].scopes = Len(locals') /\ own2[Len(own2)].chunk = here /\ locals'[Len(locals')] = scope
  BY <1>3 DEF Nested
<1>10. ASSUME Len(own2) = m + 1
       PROVE  /\ ScopeFits(locals[own2[m + 1].scopes], own2[m + 1].chunk)' /\ FrameFits(own2, m + 1)'
              /\ Unfinished(own2[m + 1].chunk)'
  BY <1>6, <1>9, <1>10
<1>11. ASSUME NEW i \in DOMAIN own2, i \notin 1 .. m PROVE i = m + 1 /\ Len(own2) = m + 1
  <2>1. PICK l \in Nat : l = Len(own2)
    BY <1>8
  <2>2. l = m \/ l = m + 1
    BY <2>1
  <2>3. i \in 1 .. l
    BY <1>8, <2>1
  <2> QED BY <1>8, <1>11, <2>1, <2>2, <2>3, OneMore
<1>12. NamesFit(own2)'
  <2>1. ASSUME NEW i \in DOMAIN own2
        PROVE  /\ ScopeFits(locals[own2[i].scopes], own2[i].chunk)' /\ FrameFits(own2, i)'
               /\ Unfinished(own2[i].chunk)'
    <3>1. CASE i \in 1 .. m
      BY <1>7, <3>1
    <3>2. CASE i \notin 1 .. m
      BY <1>10, <1>11, <3>2
    <3> QED BY <3>1, <3>2
  <2> QED BY <2>1 DEF NamesFit
<1>13. ASSUME ~ StrayJump'
       PROVE  OpenFit(own2)' /\ \A c \in DOMAIN chunks' : CodeFits(c)'
  <2>1. ~ StrayJump
    BY <1>2, <1>13, StrayStays
  <2>2. WidesStay /\ OpenFit(own) /\ \A c \in DOMAIN chunks : CodeFits(c)
    BY <1>13, <2>1 DEF Compiling, ProgramFits
  <2>3. SlotsFiled(scope, here)'
    <3>1. SlotsFiled(CurrScope, here)
      <4>1. CurrScope = locals[Len(locals)]
        BY <1>1, CurrScopeTyped
      <4> QED BY <1>5, <2>2, <4>1 DEF OpenFit
    <3>2. chunks[here].code[1].op = "reserve"
      BY <1>1, <2>2 DEF CodeFits, CodeOf
    <3>3. PICK old : old = CurrScope
      OBVIOUS
    <3> QED BY <1>1, <1>2, <2>2, <3>1, <3>2, <3>3, SlotsStayFiled
  <2>4. ASSUME NEW i \in 1 .. m PROVE SlotsFiled(locals[own2[i].scopes], own2[i].chunk)'
    <3>1. ASSUME NEW k \in 1 .. m, NEW l \in DOMAIN chunks'[own[k].chunk].code \ DOMAIN chunks[own[k].chunk].code,
                 NEW inst, inst = chunks'[own[k].chunk].code[l], OfSlot(inst), Good(inst)
          PROVE  FiledLocal(locals'[own[k].scopes], inst.for, inst.wide)
      <4>1. DOMAIN own = 1 .. Len(own) /\ Len(own) \in Nat
        BY <1>1 DEF Nested
      <4>2. k \in DOMAIN own
        BY <4>1
      <4>3. PICK c : c = own[k].chunk
        OBVIOUS
      <4>4. c \in DOMAIN chunks /\ (c = here => own[k].scopes = Len(locals))
        BY <1>1, <4>2, <4>3, OwnedInside
      <4>5. c = here
        BY <3>1, <4>3, <4>4
      <4>6. locals'[own[k].scopes] = scope
        BY <1>3, <4>4, <4>5
      <4> QED BY <3>1, <4>3, <4>5, <4>6
    <3> QED BY <1>1, <1>2, <1>3, <2>2, <3>1, OpenStays
  <2>5. OpenFit(own2)'
    <3>1. ASSUME NEW i \in DOMAIN own2 PROVE SlotsFiled(locals[own2[i].scopes], own2[i].chunk)'
      <4>1. CASE i \in 1 .. m
        BY <2>4, <4>1
      <4>2. CASE i \notin 1 .. m
        <5>1. i = Len(own2)
          BY <1>11, <4>2
        <5> QED BY <1>9, <2>3, <5>1
      <4> QED BY <4>1, <4>2
    <3> QED BY <3>1 DEF OpenFit
  <2>6. ASSUME NEW c \in DOMAIN chunks' PROVE CodeFits(c)'
    <3>1. CASE c # here
      <4>1. chunks'[c] = chunks[c] /\ c \in DOMAIN chunks
        BY <3>1
      <4>2. \A i \in DOMAIN chunks'[c].code \ DOMAIN chunks[c].code : LiteralFits(c, i)' /\ CaptureFits(c, i)'
        BY <4>1
      <4> QED BY <1>2, <2>2, <4>1, <4>2, CodeStaysFit
    <3>2. CASE c = here
      <4>1. \A i \in DOMAIN chunks'[c].code \ DOMAIN chunks[c].code : LiteralFits(c, i)' /\ CaptureFits(c, i)'
        BY <3>2
      <4>2. LocalsFit(scope) /\ ParamsFit(scope, chunks'[here].params)
        <5>1. LocalsFit(scope)' /\ ParamsFit(scope, chunks'[here].params)
          BY DEF ScopeFits
        <5> QED BY <5>1 DEF LocalsFit
      <4>3. NamedApart(here)' => SlotsApart(here)'
        BY <2>3, <4>2, FiledApart
      <4>4. SlotsReserved(here)'
        BY <1>1, <1>6, UnfinishedReserved
      <4> QED BY <1>1, <1>2, <2>2, <3>2, <4>1, <4>3, <4>4, CodeStaysFit
    <3> QED BY <3>1, <3>2
  <2> QED BY <2>5, <2>6
<1> QED BY <1>12, <1>13

(***************************************************************************)
(* Jumps.  A step touches those of the loops of a set Ls alone.            *)
(***************************************************************************)
MeetsAt(c, i) ==
  LET code == CodeOf(c)
      Role(role, loop) == {j \in DOMAIN code : IsJump(code[j]) /\ code[j].for = [role |-> role, loop |-> loop]}
      loop == code[i].for.loop
  IN IsJump(code[i]) /\ code[i].for.role = "again" =>
       /\ \A j \in Role("break", loop), out \in Role("out", loop) : Target(code, j) = Target(code, out)
       /\ \A j \in Role("continue", loop) : Target(code, j) = Target(code, i)

OnlyJumpsOf(Ls) ==
  \A c \in DOMAIN chunks' : \A i \in DOMAIN chunks'[c].code :
    IsJump(chunks'[c].code[i]) =>
      \/ c \in DOMAIN chunks /\ i \in DOMAIN chunks[c].code /\ chunks'[c].code[i] = chunks[c].code[i]
      \/ chunks'[c].code[i].for.loop \in Ls

LEMMA MeetAtAll ==
  LoopJumpsMeet <=> (~ StrayJump => \A c \in DOMAIN chunks : \A i \in DOMAIN CodeOf(c) : MeetsAt(c, i))
BY DEF LoopJumpsMeet, MeetsAt

LEMMA MeetAtAllNext ==
  LoopJumpsMeet' <=> (~ StrayJump' => \A c \in DOMAIN chunks' : \A i \in DOMAIN chunks'[c].code : MeetsAt(c, i)')
BY DEF LoopJumpsMeet, MeetsAt, CodeOf

\* A closed loop that is not touched still meets.
LEMMA MeetsStays ==
  ASSUME ChunksGrow, NEW Ls, OnlyJumpsOf(Ls), NEW c \in DOMAIN chunks', NEW i \in DOMAIN chunks'[c].code,
         IsJump(chunks'[c].code[i]), chunks'[c].code[i].for.loop \notin Ls,
         c \in DOMAIN chunks => \A k \in DOMAIN chunks[c].code : MeetsAt(c, k)
  PROVE  MeetsAt(c, i)'
<1>1. PICK code : code = chunks[c].code
  OBVIOUS
<1>2. PICK next : next = chunks'[c].code
  OBVIOUS
<1>3. PICK loop : loop = next[i].for.loop
  OBVIOUS
<1>4. c \in DOMAIN chunks /\ i \in DOMAIN code /\ next[i] = code[i] /\ loop \notin Ls
  BY <1>1, <1>2, <1>3 DEF OnlyJumpsOf
<1>5. MeetsAt(c, i)
  BY <1>1, <1>4
<1>6. ASSUME NEW j \in DOMAIN next, NEW role, IsJump(next[j]), next[j].for = [role |-> role, loop |-> loop]
      PROVE  j \in DOMAIN code /\ next[j] = code[j]
  <2>1. next[j].for.loop = loop
    BY <1>6
  <2> QED BY <1>1, <1>2, <1>4, <1>6, <2>1 DEF OnlyJumpsOf
<1>7. ASSUME IsJump(next[i]), next[i].for.role = "again"
      PROVE  /\ \A j \in {k \in DOMAIN code : IsJump(code[k]) /\ code[k].for = [role |-> "break", loop |-> loop]},
                   out \in {k \in DOMAIN code : IsJump(code[k]) /\ code[k].for = [role |-> "out", loop |-> loop]} :
                  Target(code, j) = Target(code, out)
             /\ \A j \in {k \in DOMAIN code : IsJump(code[k]) /\ code[k].for = [role |-> "continue", loop |-> loop]} :
                  Target(code, j) = Target(code, i)
  BY <1>1, <1>3, <1>4, <1>5, <1>7 DEF MeetsAt, CodeOf
<1>8. \A j \in DOMAIN code : next[j] = code[j] => Target(next, j) = Target(code, j)
  BY DEF Target
<1>9. ASSUME IsJump(next[i]), next[i].for.role = "again",
             NEW j \in {k \in DOMAIN next : IsJump(next[k]) /\ next[k].for = [role |-> "break", loop |-> loop]},
             NEW out \in {k \in DOMAIN next : IsJump(next[k]) /\ next[k].for = [role |-> "out", loop |-> loop]}
      PROVE  Target(next, j) = Target(next, out)
  <2>1. /\ j \in DOMAIN next /\ IsJump(next[j]) /\ next[j].for = [role |-> "break", loop |-> loop]
        /\ out \in DOMAIN next /\ IsJump(next[out]) /\ next[out].for = [role |-> "out", loop |-> loop]
    OBVIOUS
  <2>2. j \in DOMAIN code /\ next[j] = code[j] /\ out \in DOMAIN code /\ next[out] = code[out]
    BY <1>6, <2>1
  <2>3. Target(code, j) = Target(code, out)
    BY <1>7, <1>9, <2>1, <2>2
  <2> QED BY <1>8, <2>2, <2>3
<1>10. ASSUME IsJump(next[i]), next[i].for.role = "again",
              NEW j \in {k \in DOMAIN next : IsJump(next[k]) /\ next[k].for = [role |-> "continue", loop |-> loop]}
       PROVE  Target(next, j) = Target(next, i)
  <2>1. j \in DOMAIN next /\ IsJump(next[j]) /\ next[j].for = [role |-> "continue", loop |-> loop]
    OBVIOUS
  <2>2. j \in DOMAIN code /\ next[j] = code[j]
    BY <1>6, <2>1
  <2>3. Target(code, j) = Target(code, i)
    BY <1>7, <1>10, <2>1, <2>2
  <2> QED BY <1>4, <1>8, <2>2, <2>3
<1> QED BY <1>2, <1>3, <1>9, <1>10 DEF MeetsAt, CodeOf

LEMMA JumpsMeetOn ==
  ASSUME ChunksGrow, LoopJumpsMeet, ~ StrayJump', NEW Ls, OnlyJumpsOf(Ls),
         \A c \in DOMAIN chunks' : \A i \in DOMAIN chunks'[c].code :
           IsJump(chunks'[c].code[i]) /\ chunks'[c].code[i].for.loop \in Ls => MeetsAt(c, i)'
  PROVE  LoopJumpsMeet'
<1>1. ~ StrayJump
  BY StrayStays
<1>2. \A c \in DOMAIN chunks : \A i \in DOMAIN chunks[c].code : MeetsAt(c, i)
  BY <1>1, MeetAtAll DEF CodeOf
<1>3. ASSUME NEW c \in DOMAIN chunks', NEW i \in DOMAIN chunks'[c].code
      PROVE  MeetsAt(c, i)'
  <2>1. CASE ~ IsJump(chunks'[c].code[i])
    BY <2>1 DEF MeetsAt, CodeOf
  <2>2. CASE IsJump(chunks'[c].code[i]) /\ chunks'[c].code[i].for.loop \in Ls
    BY <2>2
  <2>3. CASE IsJump(chunks'[c].code[i]) /\ chunks'[c].code[i].for.loop \notin Ls
    BY <1>2, <2>3, MeetsStays
  <2> QED BY <2>1, <2>2, <2>3
<1> QED BY <1>3, MeetAtAllNext

LEMMA JumpsOfOn ==
  ASSUME ChunksGrow, NEW Ls, OnlyJumpsOf(Ls), NEW loop, loop \notin Ls, loop.chunk \in DOMAIN chunks, NEW role
  PROVE  JumpsOf(role, loop)' = JumpsOf(role, loop)
<1>1. PICK code : code = chunks[loop.chunk].code
  OBVIOUS
<1>2. PICK next : next = chunks'[loop.chunk].code
  OBVIOUS
<1>3. JumpsOf(role, loop) = {i \in DOMAIN code : IsJump(code[i]) /\ code[i].for = [role |-> role, loop |-> loop]}
  BY <1>1 DEF JumpsOf, CodeOf
<1>4. JumpsOf(role, loop)' = {i \in DOMAIN next : IsJump(next[i]) /\ next[i].for = [role |-> role, loop |-> loop]}
  BY <1>2 DEF JumpsOf, CodeOf
<1>5. ASSUME NEW i \in DOMAIN code, IsJump(code[i]), code[i].for = [role |-> role, loop |-> loop]
      PROVE  i \in DOMAIN next /\ IsJump(next[i]) /\ next[i].for = [role |-> role, loop |-> loop]
  BY <1>1, <1>2, <1>5 DEF ChunksGrow, ChunkGrows, IsJump
<1>6. ASSUME NEW i \in DOMAIN next, IsJump(next[i]), next[i].for = [role |-> role, loop |-> loop]
      PROVE  i \in DOMAIN code /\ IsJump(code[i]) /\ code[i].for = [role |-> role, loop |-> loop]
  <2>1. next[i].for.loop = loop /\ loop.chunk \in DOMAIN chunks'
    BY <1>6 DEF ChunksGrow
  <2>2. i \in DOMAIN code /\ next[i] = code[i]
    BY <1>1, <1>2, <1>6, <2>1 DEF OnlyJumpsOf
  <2> QED BY <1>6, <2>2
<1> QED BY <1>3, <1>4, <1>5, <1>6

LEMMA JumpFitsOn ==
  ASSUME \A c \in DOMAIN chunks : \A i \in DOMAIN CodeOf(c) : JumpFits(c, i), NEW Ls, OnlyJumpsOf(Ls),
         \A c \in DOMAIN chunks' : \A i \in DOMAIN chunks'[c].code :
           IsJump(chunks'[c].code[i]) /\ chunks'[c].code[i].for.loop \in Ls => JumpFits(c, i)'
  PROVE  \A c \in DOMAIN chunks' : \A i \in DOMAIN chunks'[c].code : JumpFits(c, i)'
<1> SUFFICES ASSUME NEW c \in DOMAIN chunks', NEW i \in DOMAIN chunks'[c].code PROVE JumpFits(c, i)'
  OBVIOUS
<1>1. CASE ~ IsJump(chunks'[c].code[i])
  BY <1>1 DEF JumpFits, CodeOf
<1>2. CASE IsJump(chunks'[c].code[i]) /\ chunks'[c].code[i].for.loop \in Ls
  BY <1>2
<1>3. CASE IsJump(chunks'[c].code[i]) /\ chunks'[c].code[i].for.loop \notin Ls
  <2>1. c \in DOMAIN chunks /\ i \in DOMAIN chunks[c].code /\ chunks'[c].code[i] = chunks[c].code[i]
    BY <1>3 DEF OnlyJumpsOf
  <2>2. JumpFits(c, i)
    BY <2>1 DEF CodeOf
  <2> QED BY <2>1, <2>2 DEF JumpFits, CodeOf
<1> QED BY <1>1, <1>2, <1>3

\* The loop of a call.
LEMMA LoopInside ==
  ASSUME ScopesTypeOK, NEW own, Nested(own), NEW i \in DOMAIN own, frames[i].fn \in LoopFns
  PROVE  /\ own[i].loops \in DOMAIN loops /\ own[i].loops \in 1 .. Len(loops) /\ frames[i].loop \in LoopIds
         /\ frames[i].out \in Nat
<1>1. PICK n : n = Len(frames)
  OBVIOUS
<1>2. n \in Nat \ {0} /\ DOMAIN own = 1 .. n /\ \A k \in 1 .. n : own[k] \in Owners /\ frames[k] \in AllFrames
  BY <1>1, FramesFacts
<1>3. i # 1
  <2>1. frames[1].fn = "do_source"
    BY DEF Nested
  <2> QED BY <2>1 DEF LoopFns
<1>4. own[i].loops \in 0 .. Len(loops)
  BY OwnedInside
<1>5. own[i].loops # 0
  <2>1. 1 \in DOMAIN own /\ 1 < i
    BY <1>2, <1>3
  <2>2. FarAbove(own, 1, i)
    BY <2>1 DEF Nested
  <2>3. own[1].loops < own[i].loops /\ own[1].loops = 0
    BY <2>2 DEF FarAbove, Nested
  <2> QED BY <1>4, <2>3
<1>6. own[i].loops \in 1 .. Len(loops) /\ own[i].loops \in DOMAIN loops
  <2>1. loops \in Seq(LoopRecs)
    BY DEF ScopesTypeOK
  <2>2. DOMAIN loops = 1 .. Len(loops) /\ Len(loops) \in Nat
    BY <2>1
  <2> QED BY <1>4, <1>5, <2>2
<1>7. frames[i] \in WhileFrames \cup ForFrames
  <2>1. frames[i] \in AllFrames
    BY <1>2
  <2> QED BY <2>1 DEF AllFrames, LoopFns, PlainFrames, FuncFrames, LambdaFrames, VarsFrames, ExprFrames
<1>8. frames[i].loop \in LoopIds /\ frames[i].out \in Nat
  BY <1>7 DEF WhileFrames, ForFrames
<1> QED BY <1>6, <1>8

\* A loop that is not touched.
LEMMA LoopStaysFit ==
  ASSUME ScopesTypeOK, ScopesTypeOK', ChunksGrow, NEW Ls, OnlyJumpsOf(Ls), NEW own, Nested(own), NEW own2,
         NEW i \in DOMAIN own, own2[i] = own[i], SameFrame(frames[i], frames'[i]), SameLoop(frames[i], frames'[i]),
         frames[i].fn \in LoopFns, frames[i].loop \notin Ls, LoopFits(own, i),
         loops'[own[i].loops] = loops[own[i].loops],
         \A j \in DOMAIN own2 : j # i /\ frames'[j].fn \in LoopFns => frames'[j].loop # frames[i].loop
  PROVE  LoopFits(own2, i)'
<1>1. PICK frame : frame = frames[i]
  OBVIOUS
<1>2. PICK next : next = frames'[i]
  OBVIOUS
<1>3. PICK loop : loop = frame.loop
  OBVIOUS
<1>4. /\ next.fn = frame.fn /\ next.loop = loop /\ next.out = frame.out /\ (Settled(next) <=> Settled(frame))
      /\ frame.fn = "do_while" => next.check = frame.check
  BY <1>1, <1>2, <1>3 DEF SameFrame, SameLoop
<1>5. PICK tracked : tracked = loops[own[i].loops]
  OBVIOUS
<1>6. /\ loop.chunk = own[i].chunk /\ loop.begin <= Len(chunks[loop.chunk].code)
      /\ tracked.loop_breaks = {j - 1 : j \in JumpsOf("break", loop)}
      /\ tracked.loop_continues = {j - 1 : j \in JumpsOf("continue", loop)}
      /\ JumpsOf("again", loop) = {}
      /\ JumpsOf("out", loop) = IF Settled(frame) THEN {frame.out + 1} ELSE {}
      /\ frame.fn = "do_while" => frame.check = loop.begin
      /\ frame.fn = "do_for" /\ Settled(frame) => frame.out + 2 \in JumpsOf("skip", loop)
  BY <1>1, <1>3, <1>5 DEF LoopFits, CodeOf
<1>7. loop.chunk \in DOMAIN chunks /\ loop \notin Ls /\ loop \in LoopIds
  BY <1>1, <1>3, <1>6, OwnedInside, LoopInside
<1>8. \A role : JumpsOf(role, loop)' = JumpsOf(role, loop)
  BY <1>7, JumpsOfOn
<1>9. loop.begin <= Len(chunks'[loop.chunk].code)
  <2>1. PICK a \in Nat : a = Len(chunks[loop.chunk].code) /\ DOMAIN chunks[loop.chunk].code = 1 .. a
    BY <1>7, ChunkTyped
  <2>2. PICK b \in Nat : b = Len(chunks'[loop.chunk].code) /\ DOMAIN chunks'[loop.chunk].code = 1 .. b
    <3>1. loop.chunk \in DOMAIN chunks'
      BY <1>7 DEF ChunksGrow
    <3> QED BY <3>1, ChunkTypedNext
  <2>3. 1 .. a \subseteq 1 .. b
    BY <1>7, <2>1, <2>2 DEF ChunksGrow, ChunkGrows
  <2>4. a <= b
    BY <2>3
  <2>5. PICK begin \in Nat : begin = loop.begin
    BY <1>7 DEF LoopIds
  <2> QED BY <1>6, <2>1, <2>2, <2>4, <2>5
<1>10. PICK breaks : breaks = JumpsOf("break", loop)
  OBVIOUS
<1>11. PICK continues : continues = JumpsOf("continue", loop)
  OBVIOUS
<1>12. /\ JumpsOf("break", loop)' = breaks /\ JumpsOf("continue", loop)' = continues
       /\ JumpsOf("again", loop)' = {} /\ JumpsOf("out", loop)' = (IF Settled(next) THEN {next.out + 1} ELSE {})
       /\ next.fn = "do_for" /\ Settled(next) => next.out + 2 \in JumpsOf("skip", loop)'
  BY <1>4, <1>6, <1>8, <1>10, <1>11
<1>13. /\ tracked.loop_breaks = {j - 1 : j \in breaks} /\ tracked.loop_continues = {j - 1 : j \in continues}
  BY <1>6, <1>10, <1>11
<1>14. /\ next.fn = "do_while" => next.check = loop.begin
       /\ \A j \in DOMAIN own2 : j # i /\ frames'[j].fn \in LoopFns => frames'[j].loop # loop
  BY <1>1, <1>3, <1>4, <1>6
<1>15. loops'[own2[i].loops] = tracked /\ own2[i].chunk = loop.chunk
  BY <1>5, <1>6
<1> QED BY <1>2, <1>4, <1>9, <1>12, <1>13, <1>14, <1>15 DEF LoopFits, CodeOf

LEMMA JumpsStep ==
  ASSUME ScopesTypeOK, ScopesTypeOK', ChunksGrow, ~ StrayJump', LoopJumpsMeet, NEW own, Nested(own), JumpsFit(own),
         NEW own2, Nested(own2)', NEW m, m \in DOMAIN own \cap DOMAIN own2, Continues(own, own2, m),
         NEW Ls, OnlyJumpsOf(Ls),
         \A c \in DOMAIN chunks' : \A i \in DOMAIN chunks'[c].code :
           IsJump(chunks'[c].code[i]) /\ chunks'[c].code[i].for.loop \in Ls => JumpFits(c, i)' /\ MeetsAt(c, i)',
         \A i \in 1 .. m : frames[i].fn \in LoopFns /\ frames[i].loop \notin Ls =>
           SameLoop(frames[i], frames'[i]) /\ loops'[own[i].loops] = loops[own[i].loops],
         \A i \in DOMAIN own2 : frames'[i].fn \in LoopFns =>
           (i \in 1 .. m /\ frames[i].loop \notin Ls) \/ LoopFits(own2, i)'
  PROVE  JumpsFit(own2)'
<1>1. LoopJumpsMeet'
  BY JumpsMeetOn
<1>2. \A c \in DOMAIN chunks' : \A i \in DOMAIN chunks'[c].code : JumpFits(c, i)'
  <2>1. \A c \in DOMAIN chunks : \A i \in DOMAIN CodeOf(c) : JumpFits(c, i)
    BY DEF JumpsFit
  <2> QED BY <2>1, JumpFitsOn
<1>3. ASSUME NEW i \in DOMAIN own2, frames'[i].fn \in LoopFns
      PROVE  LoopFits(own2, i)'
  <2>1. SUFFICES ASSUME i \in 1 .. m, frames[i].loop \notin Ls PROVE LoopFits(own2, i)'
    BY <1>3
  <2>2. /\ DOMAIN own = 1 .. Len(own) /\ Len(own) \in Nat /\ DOMAIN own2 = 1 .. Len(own2) /\ Len(own2) \in Nat
    BY DEF Nested
  <2>3. i \in DOMAIN own /\ \A j \in 1 .. m : j \in DOMAIN own
    BY <2>1, <2>2
  <2>4. own2[i] = own[i] /\ SameFrame(frames[i], frames'[i])
    BY <2>1 DEF Continues
  <2>5. frames[i].fn \in LoopFns
    BY <1>3, <2>4 DEF SameFrame
  <2>6. LoopFits(own, i) /\ SameLoop(frames[i], frames'[i]) /\ loops'[own[i].loops] = loops[own[i].loops]
    BY <2>1, <2>3, <2>5 DEF JumpsFit
  <2>7. ASSUME NEW j \in DOMAIN own2, j # i, frames'[j].fn \in LoopFns
        PROVE  frames'[j].loop # frames[i].loop
    <3>1. CASE j \in 1 .. m
      <4>1. SameFrame(frames[j], frames'[j])
        BY <3>1 DEF Continues
      <4>2. frames[j].fn \in LoopFns /\ frames'[j].loop = frames[j].loop
        BY <2>7, <4>1 DEF SameFrame
      <4> QED BY <2>3, <2>6, <2>7, <3>1, <4>2 DEF LoopFits
    <3>2. CASE j \notin 1 .. m
      <4>1. LoopFits(own2, j)'
        BY <2>7, <3>2
      <4>2. \A k \in DOMAIN own2 : k # j /\ frames'[k].fn \in LoopFns => frames'[k].loop # frames'[j].loop
        BY <4>1 DEF LoopFits
      <4>3. frames'[i].loop # frames'[j].loop
        BY <1>3, <2>7, <4>2
      <4>4. frames'[i].loop = frames[i].loop
        BY <2>4, <2>5 DEF SameFrame
      <4> QED BY <4>3, <4>4
    <3> QED BY <3>1, <3>2
  <2> QED BY <2>1, <2>3, <2>4, <2>5, <2>6, <2>7, LoopStaysFit
<1> QED BY <1>1, <1>2, <1>3 DEF JumpsFit, CodeOf

(***************************************************************************)
(* A step in the current function keeps the invariant.                     *)
(***************************************************************************)
AddsHere(here, scope) ==
  /\ chunk_idx' = here /\ DOMAIN chunks' = DOMAIN chunks
  /\ \A c \in DOMAIN chunks : c # here => chunks'[c] = chunks[c]
  /\ ChunkGrows(chunks[here], chunks'[here])
  /\ locals' = [locals EXCEPT ![Len(locals)] = scope]
  /\ ScopeGrows(CurrScope, scope) /\ ScopeFits(scope, here)'
  /\ \A i \in DOMAIN chunks'[here].code \ DOMAIN chunks[here].code :
       LET inst == chunks'[here].code[i]
       IN /\ inst.op # "ret" /\ LiteralFits(here, i)' /\ CaptureFits(here, i)'
          /\ OfSlot(inst) /\ Good(inst) => FiledLocal(scope, inst.for, inst.wide)

LEMMA StepKeeps ==
  ASSUME ScopesIInv, ScopesTypeOK', StringsFit', StringsGrow, NEW own, Compiling(own), NEW own2, Nested(own2)',
         NEW m, m \in DOMAIN own \cap DOMAIN own2, Len(own2) \in {m, m + 1}, Continues(own, own2, m),
         NEW here, here = chunk_idx, NEW scope, AddsHere(here, scope),
         Len(own2) = m + 1 => FrameFits(own2, m + 1)',
         ~ StrayJump' => WidesStay /\ JumpsFit(own2)'
  PROVE  ScopesIInv'
<1>1. ScopesTypeOK /\ ProgramFits
  BY DEF ScopesIInv
<1>2. /\ NamesFit(own2)'
      /\ ~ StrayJump' => OpenFit(own2)' /\ \A c \in DOMAIN chunks' : CodeFits(c)'
  BY <1>1, StraightStep DEF AddsHere
<1>3. Compiling(own2)'
  BY <1>2 DEF Compiling
<1>4. ProgramFits'
  BY <1>2 DEF ProgramFits
<1>5. LoopJumpsMeet'
  <2>1. CASE StrayJump'
    BY <2>1, MeetAtAllNext
  <2>2. CASE ~ StrayJump'
    BY <2>2 DEF JumpsFit
  <2> QED BY <2>1, <2>2
<1>6. own2 \in Seq(Owners)
  BY DEF Nested
<1> QED BY <1>3, <1>4, <1>5, <1>6 DEF ScopesIInv

\* A step without jumps.
LEMMA QuietStep ==
  ASSUME ScopesIInv, ScopesTypeOK', StringsFit', StringsGrow, NEW own, Compiling(own), NEW own2, Nested(own2)',
         NEW m, m \in DOMAIN own \cap DOMAIN own2, Len(own2) \in {m, m + 1}, Continues(own, own2, m),
         NEW here, here = chunk_idx, NEW scope, AddsHere(here, scope),
         Len(own2) = m + 1 => FrameFits(own2, m + 1)',
         \A i \in DOMAIN chunks[here].code : chunks'[here].code[i] = chunks[here].code[i],
         \A i \in DOMAIN chunks'[here].code \ DOMAIN chunks[here].code : ~ IsJump(chunks'[here].code[i]),
         \A i \in 1 .. m : SameLoop(frames[i], frames'[i]),
         \A k \in DOMAIN loops : loops'[k] = loops[k],
         ~ StrayJump /\ Len(own2) = m + 1 /\ frames'[m + 1].fn \in LoopFns => LoopFits(own2, m + 1)'
  PROVE  ScopesIInv'
<1>1. ScopesTypeOK /\ Nested(own) /\ LoopJumpsMeet /\ here \in DOMAIN chunks
  BY DEF ScopesIInv, Compiling, ScopesTypeOK
<1>2. ChunksGrow
  BY <1>1, OnlyHereGrows DEF AddsHere
<1>3. WidesStay
  <2>1. ASSUME NEW c \in DOMAIN chunks, NEW i \in DOMAIN chunks[c].code PROVE chunks'[c].code[i] = chunks[c].code[i]
    <3>1. CASE c = here
      BY <3>1
    <3>2. CASE c # here
      BY <3>2 DEF AddsHere
    <3> QED BY <3>1, <3>2
  <2> QED BY <2>1 DEF WidesStay
<1>4. OnlyJumpsOf({})
  <2>1. ASSUME NEW c \in DOMAIN chunks', NEW i \in DOMAIN chunks'[c].code, IsJump(chunks'[c].code[i])
        PROVE  c \in DOMAIN chunks /\ i \in DOMAIN chunks[c].code /\ chunks'[c].code[i] = chunks[c].code[i]
    <3>1. CASE c = here
      BY <1>1, <2>1, <3>1
    <3>2. CASE c # here
      BY <3>2 DEF AddsHere
    <3> QED BY <3>1, <3>2
  <2> QED BY <2>1 DEF OnlyJumpsOf
<1>5. ASSUME ~ StrayJump' PROVE JumpsFit(own2)'
  <2>1. ~ StrayJump /\ JumpsFit(own)
    <3>1. ~ StrayJump
      BY <1>2, <1>5, StrayStays
    <3> QED BY <3>1 DEF Compiling
  <2>2. DOMAIN own2 = 1 .. Len(own2) /\ m \in Nat /\ 1 .. m \subseteq DOMAIN own
    <3>1. DOMAIN own2 = 1 .. Len(own2) /\ Len(own2) \in Nat /\ DOMAIN own = 1 .. Len(own) /\ Len(own) \in Nat
      BY <1>1 DEF Nested
    <3> QED BY <3>1
  <2>3. ASSUME NEW i \in 1 .. m, frames[i].fn \in LoopFns
        PROVE  SameLoop(frames[i], frames'[i]) /\ loops'[own[i].loops] = loops[own[i].loops]
    <3>1. own[i].loops \in DOMAIN loops
      BY <1>1, <2>2, <2>3, LoopInside
    <3> QED BY <3>1
  <2>4. ASSUME NEW i \in DOMAIN own2, frames'[i].fn \in LoopFns
        PROVE  (i \in 1 .. m /\ frames[i].loop \notin {}) \/ LoopFits(own2, i)'
    <3>1. CASE i \in 1 .. m
      BY <3>1
    <3>2. CASE i \notin 1 .. m
      <4>1. Len(own2) = m + 1 /\ i = m + 1
        <5>1. PICK l \in Nat : l = Len(own2) /\ (l = m \/ l = m + 1)
          BY <2>2
        <5>2. i \in 1 .. l
          BY <2>2, <5>1
        <5>3. m \in Nat /\ (l = m \/ l = m + 1)
          BY <2>2, <5>1
        <5>4. l = m + 1 /\ i = m + 1
          BY <3>2, <5>2, <5>3, OneMore
        <5> QED BY <5>1, <5>4
      <4> QED BY <2>1, <2>4, <4>1
    <3> QED BY <3>1, <3>2
  <2> QED BY <1>1, <1>2, <1>4, <1>5, <2>1, <2>3, <2>4, JumpsStep
<1> QED BY <1>3, <1>5, StepKeeps

(***************************************************************************)
(* What the actions do to code and to frames.                              *)
(***************************************************************************)
IsEmitted(old, new, here, insts) ==
  /\ new \in Seq(ChunkRecs) /\ DOMAIN new = DOMAIN old /\ here \in DOMAIN old
  /\ \A c \in DOMAIN old : c # here => new[c] = old[c]
  /\ ChunkGrows(old[here], new[here])
  /\ new[here].code = old[here].code \o insts
  /\ \A i \in DOMAIN old[here].code : i \in DOMAIN new[here].code /\ new[here].code[i] = old[here].code[i]
  /\ \A i \in DOMAIN new[here].code \ DOMAIN old[here].code :
       \E k \in DOMAIN insts : i = Len(old[here].code) + k /\ new[here].code[i] = insts[k]

LEMMA Emitted ==
  ASSUME ScopesTypeOK, NEW here, here = chunk_idx, NEW insts \in Seq(AllInsts),
         chunks' \in Seq(ChunkRecs), DOMAIN chunks' = DOMAIN chunks,
         \A c \in DOMAIN chunks : c # here => chunks'[c] = chunks[c],
         chunks'[here].code = chunks[here].code \o insts,
         chunks'[here].params = chunks[here].params, chunks'[here].captures = chunks[here].captures,
         \A k \in DOMAIN chunks[here].constants :
           k \in DOMAIN chunks'[here].constants /\ chunks'[here].constants[k] = chunks[here].constants[k]
  PROVE  IsEmitted(chunks, chunks', here, insts)
<1>1. here \in DOMAIN chunks /\ chunks \in Seq(ChunkRecs)
  BY DEF ScopesTypeOK
<1>2. PICK old : old = chunks[here]
  OBVIOUS
<1>3. PICK new : new = chunks'[here]
  OBVIOUS
<1>4. old \in ChunkRecs /\ old.code \in Seq(AllInsts)
  BY <1>1, <1>2, ChunkTyped
<1>9. PICK code : code = old.code
  OBVIOUS
<1>10. /\ \A i \in DOMAIN code : i \in DOMAIN (code \o insts) /\ (code \o insts)[i] = code[i]
       /\ \A i \in DOMAIN (code \o insts) \ DOMAIN code :
            \E k \in DOMAIN insts : i = Len(code) + k /\ (code \o insts)[i] = insts[k]
  <2>1. code \in Seq(AllInsts)
    BY <1>4, <1>9
  <2>2. \A i \in DOMAIN code : i \in DOMAIN (code \o insts) /\ (code \o insts)[i] = code[i]
    BY <2>1
  <2>3. ASSUME NEW i \in DOMAIN (code \o insts) \ DOMAIN code
        PROVE  \E k \in DOMAIN insts : i = Len(code) + k /\ (code \o insts)[i] = insts[k]
    <3>1. i \in 1 .. Len(code) + Len(insts) /\ i \notin 1 .. Len(code) /\ Len(code) \in Nat /\ Len(insts) \in Nat
      BY <2>1
    <3>2. PICK k : k = i - Len(code)
      OBVIOUS
    <3>3. k \in 1 .. Len(insts) /\ i = Len(code) + k
      BY <3>1, <3>2
    <3>4. k \in DOMAIN insts
      BY <3>3
    <3>5. (code \o insts)[i] = insts[k]
      BY <2>1, <3>1, <3>3
    <3> QED BY <3>3, <3>4, <3>5
  <2> QED BY <2>2, <2>3
<1>11. new.code = code \o insts
  BY <1>2, <1>3, <1>9
<1>12. ChunkGrows(old, new)
  <2>1. \A i \in DOMAIN old.code : i \in DOMAIN new.code /\ new.code[i] = old.code[i]
    BY <1>9, <1>10, <1>11
  <2> QED BY <1>2, <1>3, <2>1 DEF ChunkGrows
<1>13. ChunkGrows(chunks[here], chunks'[here])
  BY <1>2, <1>3, <1>12
<1>14. \A i \in DOMAIN chunks[here].code : i \in DOMAIN chunks'[here].code /\ chunks'[here].code[i] = chunks[here].code[i]
  BY <1>2, <1>3, <1>9, <1>10, <1>11
<1>15. \A i \in DOMAIN chunks'[here].code \ DOMAIN chunks[here].code :
              \E k \in DOMAIN insts : i = Len(chunks[here].code) + k /\ chunks'[here].code[i] = insts[k]
  BY <1>2, <1>3, <1>9, <1>10, <1>11
<1> QED BY <1>1, <1>13, <1>14, <1>15 DEF IsEmitted

LEMMA SameFrameItself ==
  ASSUME NEW frame PROVE SameFrame(frame, frame) /\ SameLoop(frame, frame)
BY DEF SameFrame, SameLoop

\* The top call moves on.
LEMMA MovesOn ==
  ASSUME ScopesTypeOK, NEW own, Nested(own), NEW top \in AllFrames, SameFrame(TopFrame, top),
         frames' = [frames EXCEPT ![Len(frames)] = top],
         chunk_idx' = chunk_idx, DOMAIN chunks \subseteq DOMAIN chunks',
         Len(locals') = Len(locals), Len(loops') = Len(loops), NEW n, n = Len(frames)
  PROVE  /\ Nested(own)' /\ frames' \in Seq(AllFrames) /\ n \in DOMAIN own \cap DOMAIN own /\ Len(own) = n
         /\ Continues(own, own, n) /\ frames'[n] = top /\ TopFrame = frames[n] /\ n \in Nat \ {0}
         /\ \A i \in 1 .. n : i # n => frames'[i] = frames[i]
         /\ SameLoop(TopFrame, top) => \A i \in 1 .. n : SameLoop(frames[i], frames'[i])
<1>1. /\ n \in Nat \ {0} /\ n \in DOMAIN frames /\ DOMAIN frames = 1 .. n /\ DOMAIN own = 1 .. n /\ Len(own) = n
      /\ TopFrame = frames[n] /\ frames \in Seq(AllFrames)
  BY FramesFacts
<1>2. Nested(own)'
  BY NestedRetop
<1>3. frames' \in Seq(AllFrames) /\ frames'[n] = top /\ \A i \in 1 .. n : i # n => frames'[i] = frames[i]
  BY <1>1
<1>4. ASSUME NEW i \in 1 .. n PROVE SameFrame(frames[i], frames'[i])
  <2>1. CASE i = n
    BY <1>1, <1>3, <2>1
  <2>2. CASE i # n
    BY <1>3, <2>2, SameFrameItself
  <2> QED BY <2>1, <2>2
<1>5. Continues(own, own, n)
  BY <1>4 DEF Continues
<1>6. ASSUME SameLoop(TopFrame, top), NEW i \in 1 .. n PROVE SameLoop(frames[i], frames'[i])
  <2>1. CASE i = n
    BY <1>1, <1>3, <1>6, <2>1
  <2>2. CASE i # n
    BY <1>3, <2>2, SameFrameItself
  <2> QED BY <2>1, <2>2
<1> QED BY <1>1, <1>2, <1>3, <1>5, <1>6

\* From "value" to "then".
LEMMA GoesToThen ==
  ASSUME ScopesTypeOK, NEW own, Nested(own), TopFrame.at = "value", GoTo("then"),
         chunk_idx' = chunk_idx, DOMAIN chunks \subseteq DOMAIN chunks',
         Len(locals') = Len(locals), Len(loops') = Len(loops), NEW n, n = Len(frames)
  PROVE  /\ Nested(own)' /\ frames' \in Seq(AllFrames) /\ n \in DOMAIN own \cap DOMAIN own /\ Len(own) = n
         /\ Continues(own, own, n) /\ \A i \in 1 .. n : SameLoop(frames[i], frames'[i])
<1>1. n \in DOMAIN frames /\ TopFrame = frames[n] /\ TopFrame \in AllFrames
  BY FramesFacts
<1>2. PICK top : top = [TopFrame EXCEPT !.at = "then"]
  OBVIOUS
<1>3. frames' = [frames EXCEPT ![Len(frames)] = top]
  BY <1>1, <1>2 DEF GoTo
<1>4. "then" \in Places
  BY DEF Places
<1>5. top \in AllFrames /\ SameFrame(TopFrame, top) /\ top.at = "then" /\ (TopFrame.fn \in LoopFns => top.out = TopFrame.out)
  BY <1>1, <1>2, <1>4, FrameMoves
<1>6. SameLoop(TopFrame, top)
  BY <1>5 DEF SameLoop, Settled
<1> QED BY <1>3, <1>5, <1>6, MovesOn

\* A call begins in a statement.
LEMMA BeginsCall ==
  ASSUME ScopesTypeOK, NEW own, Nested(own), TopFrame.at \in {"block", "body", "update"},
         NEW frame \in AllFrames, frame.fn \notin {"do_source", "do_lambda"}, frames' = Append(Past, frame),
         DOMAIN chunks \subseteq DOMAIN chunks', chunk_idx' \in DOMAIN chunks',
         frame.fn \in FunctionFns =>
           frame.old_chunk_idx = chunk_idx /\ chunk_idx' = Len(chunks) + 1 /\ Len(locals') = Len(locals) + 1,
         frame.fn \notin FunctionFns => chunk_idx' = chunk_idx /\ Len(locals') = Len(locals),
         Len(loops') = Len(loops) + (IF frame.fn \in LoopFns THEN 1 ELSE 0),
         NEW own2, own2 = Append(own, [chunk |-> chunk_idx', scopes |-> Len(locals'), loops |-> Len(loops')]),
         NEW n, n = Len(frames)
  PROVE  /\ Nested(own2)' /\ frames' \in Seq(AllFrames) /\ n \in DOMAIN own \cap DOMAIN own2 /\ Len(own2) = n + 1
         /\ Continues(own, own2, n) /\ \A i \in 1 .. n : SameLoop(frames[i], frames'[i])
         /\ frames'[n + 1] = frame /\ n \in Nat \ {0}
         /\ own2[n + 1] = [chunk |-> chunk_idx', scopes |-> Len(locals'), loops |-> Len(loops')]
<1>1. /\ n \in Nat \ {0} /\ n \in DOMAIN frames /\ DOMAIN frames = 1 .. n /\ DOMAIN own = 1 .. n /\ Len(own) = n
      /\ TopFrame = frames[n] /\ frames \in Seq(AllFrames) /\ TopFrame \in AllFrames /\ own \in Seq(Owners)
  BY FramesFacts
<1>2. PICK place : place = IF TopFrame.at = "update" THEN "updated" ELSE "body"
  OBVIOUS
<1>3. place \in {"body", "updated"} /\ place \in Places
  BY <1>2 DEF Places
<1>4. Past = [frames EXCEPT ![Len(frames)] = [@ EXCEPT !.at = place]]
  BY <1>1, <1>2 DEF Past
<1>5. PICK top : top = [TopFrame EXCEPT !.at = place]
  OBVIOUS
<1>6. top \in AllFrames /\ SameFrame(TopFrame, top) /\ top.at = place /\ (TopFrame.fn \in LoopFns => top.out = TopFrame.out)
  BY <1>1, <1>3, <1>5, FrameMoves
<1>7. SameLoop(TopFrame, top)
  BY <1>3, <1>6 DEF SameLoop, Settled
<1>8. Nested(own2)'
  BY <1>3, <1>4, NestedPush
<1>9. /\ Past \in Seq(AllFrames) /\ Len(Past) = n /\ Past[n] = top /\ \A i \in 1 .. n : i # n => Past[i] = frames[i]
  <2>1. Past = [frames EXCEPT ![n] = top]
    BY <1>1, <1>4, <1>5
  <2> QED BY <1>1, <1>6, <2>1, Replaced
<1>10. /\ frames' \in Seq(AllFrames) /\ frames'[n + 1] = frame /\ \A i \in 1 .. n : frames'[i] = Past[i]
  BY <1>1, <1>9
<1>11. ASSUME NEW i \in 1 .. n PROVE SameFrame(frames[i], frames'[i]) /\ SameLoop(frames[i], frames'[i])
  <2>1. CASE i = n
    BY <1>1, <1>6, <1>7, <1>9, <1>10, <2>1
  <2>2. CASE i # n
    <3>1. frames'[i] = frames[i]
      BY <1>9, <1>10, <2>2
    <3> QED BY <3>1, SameFrameItself
  <2> QED BY <2>1, <2>2
<1>12. PICK last : last = [chunk |-> chunk_idx', scopes |-> Len(locals'), loops |-> Len(loops')]
  OBVIOUS
<1>13. own2 = Append(own, last)
  BY <1>12
<1>14. /\ Len(own2) = n + 1 /\ own2[n + 1] = last /\ n \in DOMAIN own2 /\ \A i \in 1 .. n : own2[i] = own[i]
  BY <1>1, <1>13
<1>15. Continues(own, own2, n)
  BY <1>11, <1>14 DEF Continues
<1> QED BY <1>1, <1>8, <1>10, <1>11, <1>12, <1>14, <1>15

\* The top call returns.
LEMMA ReturnsCall ==
  ASSUME ScopesTypeOK, NEW own, Nested(own), TopFrame.fn # "do_source", frames' = Front(frames),
         DOMAIN chunks \subseteq DOMAIN chunks',
         TopFrame.fn \in FunctionFns => chunk_idx' = TopFrame.old_chunk_idx /\ Len(locals') = Len(locals) - 1,
         TopFrame.fn \notin FunctionFns => chunk_idx' = chunk_idx /\ Len(locals') = Len(locals),
         Len(loops') = Len(loops) - (IF TopFrame.fn \in LoopFns THEN 1 ELSE 0),
         NEW own2, own2 = Front(own), NEW n, n = Len(frames)
  PROVE  /\ Nested(own2)' /\ frames' \in Seq(AllFrames) /\ n - 1 \in DOMAIN own \cap DOMAIN own2 /\ Len(own2) = n - 1
         /\ Continues(own, own2, n - 1) /\ \A i \in 1 .. n - 1 : frames'[i] = frames[i] /\ SameLoop(frames[i], frames'[i])
         /\ n \in Nat /\ n > 1
<1>1. /\ n \in Nat \ {0} /\ n \in DOMAIN frames /\ DOMAIN frames = 1 .. n /\ DOMAIN own = 1 .. n /\ Len(own) = n
      /\ frames \in Seq(AllFrames) /\ own \in Seq(Owners)
  BY FramesFacts
<1>2. Nested(own2)' /\ n > 1
  BY NestedPop
<1>3. /\ frames' \in Seq(AllFrames) /\ \A i \in 1 .. n - 1 : frames'[i] = frames[i]
  <2>1. frames \in Seq(AllFrames) /\ Len(frames) > 0 /\ Len(frames) = n
    BY <1>1
  <2>2. Front(frames) \in Seq(AllFrames) /\ \A i \in 1 .. Len(frames) - 1 : Front(frames)[i] = frames[i]
    BY <2>1, LastItem
  <2> QED BY <2>1, <2>2
<1>4. own2 \in Seq(Owners) /\ Len(own2) = n - 1 /\ \A i \in 1 .. n - 1 : own2[i] = own[i]
  <2>1. own \in Seq(Owners) /\ Len(own) > 0 /\ Len(own) = n
    BY <1>1
  <2>2. /\ Front(own) \in Seq(Owners)
        /\ Len(Front(own)) = Len(own) - 1 /\ \A i \in 1 .. Len(own) - 1 : Front(own)[i] = own[i]
    BY <2>1, LastItem
  <2> QED BY <2>1, <2>2
<1>5. ASSUME NEW i \in 1 .. n - 1 PROVE SameFrame(frames[i], frames'[i]) /\ SameLoop(frames[i], frames'[i])
  <2>1. frames'[i] = frames[i]
    BY <1>3
  <2> QED BY <2>1, SameFrameItself
<1>6. Continues(own, own2, n - 1)
  BY <1>4, <1>5 DEF Continues
<1>7. n - 1 \in DOMAIN own /\ n - 1 \in DOMAIN own2
  BY <1>1, <1>2, <1>4
<1> QED BY <1>1, <1>2, <1>3, <1>4, <1>5, <1>6, <1>7

(***************************************************************************)
(* The actions that add plain instructions, or none.                       *)
(***************************************************************************)
PlainFits(inst, scope, here) ==
  /\ inst.op \notin {"ret", "jmp", "jmp_false", "mk_closure", "put_k"}
  /\ inst.op = "load_string_k" => Holds(strings', inst.wide, inst.for.text)
  /\ OfUpval(inst) /\ Good(inst) => Holds(chunks[here].captures, inst.wide, inst.for)
  /\ OfSlot(inst) /\ Good(inst) => FiledLocal(scope, inst.for, inst.wide)

\* The table has more locals than before and nothing else.
MoreLocals(scope) ==
  /\ scope \in ScopeRecs /\ ScopeGrows(CurrScope, scope) /\ LocalsFit(scope)
  /\ \A i \in DOMAIN scope.infos : i \in DOMAIN CurrScope.infos \/ scope.infos[i].domain = "local"

LEMMA CurrScopeFits ==
  ASSUME ScopesTypeOK, NEW own, Compiling(own), NEW here, here = chunk_idx
  PROVE  ScopeFits(CurrScope, here) /\ here \in DOMAIN chunks /\ MoreLocals(CurrScope)
<1>1. PICK n : n = Len(frames)
  OBVIOUS
<1>2. Nested(own) /\ NamesFit(own)
  BY DEF Compiling
<1>3. n \in DOMAIN own /\ own[n].chunk = here /\ own[n].scopes = Len(locals)
  BY <1>1, <1>2, FramesFacts
<1>4. CurrScope = locals[Len(locals)] /\ here \in DOMAIN chunks /\ CurrScope \in ScopeRecs
  BY <1>2, CurrScopeTyped
<1>5. ScopeFits(CurrScope, here)
  BY <1>2, <1>3, <1>4 DEF NamesFit
<1>6. CurrScope.next_local_id \in Nat
  BY <1>4 DEF ScopeRecs
<1>7. ScopeGrows(CurrScope, CurrScope)
  BY <1>6 DEF ScopeGrows
<1> QED BY <1>4, <1>5, <1>7 DEF MoreLocals, ScopeFits

LEMMA MoreLocalsFit ==
  ASSUME ScopesTypeOK, ChunksGrow, NEW own, Compiling(own), NEW here, here = chunk_idx, NEW scope, MoreLocals(scope)
  PROVE  ScopeFits(scope, here)'
<1>1. ScopeFits(CurrScope, here) /\ here \in DOMAIN chunks
  BY CurrScopeFits
<1>2. PICK old : old = CurrScope
  OBVIOUS
<1>3. ScopeFits(old, here)
  BY <1>1, <1>2
<1>4. ScopeFits(old, here)'
  BY <1>1, <1>3, ScopeStaysFit
<1>5. ScopeGrows(old, scope) /\ LocalsFit(scope)
  BY <1>2 DEF MoreLocals
<1>6. ASSUME NEW i \in DOMAIN scope.infos, scope.infos[i].domain # "local"
      PROVE  i \in DOMAIN old.infos /\ scope.infos[i] = old.infos[i]
  BY <1>2, <1>5, <1>6 DEF MoreLocals, ScopeGrows
<1>7. LocalsFit(scope)'
  BY <1>5 DEF LocalsFit
<1>8. UpvalsFit(scope, chunks[here].captures)'
  <2>1. UpvalsFit(old, chunks'[here].captures)
    BY <1>4 DEF ScopeFits
  <2>2. UpvalsFit(scope, chunks'[here].captures)
    BY <1>6, <2>1 DEF UpvalsFit
  <2> QED BY <2>2
<1>9. ConstantsFit(scope, here)'
  <2>1. \A i \in DOMAIN old.infos : old.infos[i].domain = "constant" =>
          ConstantOf(here, old.infos[i].name, old.infos[i].id)'
    BY <1>4 DEF ScopeFits, ConstantsFit
  <2>2. ASSUME NEW i \in DOMAIN scope.infos, scope.infos[i].domain = "constant"
        PROVE  ConstantOf(here, scope.infos[i].name, scope.infos[i].id)'
    BY <1>6, <2>1, <2>2
  <2> QED BY <2>2 DEF ConstantsFit
<1>10. ParamsFit(scope, chunks[here].params)'
  <2>1. ParamsFit(old, chunks'[here].params)
    BY <1>4 DEF ScopeFits
  <2>2. ParamsFit(scope, chunks'[here].params)
    BY <1>5, <2>1, ParamsStayFit
  <2> QED BY <2>2
<1> QED BY <1>7, <1>8, <1>9, <1>10 DEF ScopeFits

LEMMA OneChunkPut ==
  ASSUME NEW old \in Seq(ChunkRecs), NEW new, NEW here \in DOMAIN old, NEW chunk \in ChunkRecs,
         new = [old EXCEPT ![here] = chunk]
  PROVE  /\ new \in Seq(ChunkRecs) /\ DOMAIN new = DOMAIN old /\ new[here] = chunk
         /\ \A c \in DOMAIN old : c # here => new[c] = old[c]
OBVIOUS

LEMMA EmittedAlone ==
  ASSUME ScopesTypeOK, NEW here, here = chunk_idx, NEW insts \in Seq(AllInsts),
         chunks' = [chunks EXCEPT ![here].code = @ \o insts]
  PROVE  IsEmitted(chunks, chunks', here, insts) /\ chunks'[here].constants = chunks[here].constants
<1>1. here \in DOMAIN chunks /\ chunks \in Seq(ChunkRecs) /\ chunks[here] \in ChunkRecs
  BY DEF ScopesTypeOK
<1>3. PICK new : new = [chunks[here] EXCEPT !.code = chunks[here].code \o insts]
  OBVIOUS
<1>4. /\ new \in ChunkRecs /\ new.code = chunks[here].code \o insts /\ new.constants = chunks[here].constants
      /\ new.params = chunks[here].params /\ new.captures = chunks[here].captures
  <2>1. chunks[here].code \o insts \in Seq(AllInsts)
    BY <1>1, ChunkTyped
  <2> QED BY <1>1, <1>3, <2>1 DEF ChunkRecs
<1>5. chunks' = [chunks EXCEPT ![here] = new]
  BY <1>1, <1>3
<1>6. /\ chunks' \in Seq(ChunkRecs) /\ DOMAIN chunks' = DOMAIN chunks /\ chunks'[here] = new
      /\ \A c \in DOMAIN chunks : c # here => chunks'[c] = chunks[c]
  BY <1>1, <1>4, <1>5, OneChunkPut
<1>7. IsEmitted(chunks, chunks', here, insts)
  BY <1>4, <1>6, Emitted
<1> QED BY <1>4, <1>6, <1>7

LEMMA PlainStep ==
  ASSUME ScopesIInv, NEW own, Compiling(own), NEW own2, Nested(own2)',
         NEW m, m \in DOMAIN own \cap DOMAIN own2, Len(own2) \in {m, m + 1}, Continues(own, own2, m),
         NEW here, here = chunk_idx, chunk_idx' = here, NEW insts \in Seq(AllInsts),
         chunks' = [chunks EXCEPT ![here].code = @ \o insts],
         NEW scope, MoreLocals(scope), locals' = [locals EXCEPT ![Len(locals)] = scope],
         \A k \in DOMAIN insts : PlainFits(insts[k], scope, here),
         StringsFit', StringsGrow, globals' \in Seq(FuncInfos \cup StringInfos), strings' \in Seq(Contents),
         saved_info' \in Resolved \cup {NoInfo}, status' \in {"parsing", "done", "dead", "crashed"},
         frames' \in Seq(AllFrames), loops' \in Seq(LoopRecs),
         Len(own2) = m + 1 => FrameFits(own2, m + 1)',
         \A i \in 1 .. m : SameLoop(frames[i], frames'[i]), \A k \in DOMAIN loops : loops'[k] = loops[k],
         ~ StrayJump /\ Len(own2) = m + 1 /\ frames'[m + 1].fn \in LoopFns => LoopFits(own2, m + 1)'
  PROVE  ScopesIInv'
<1>1. ScopesTypeOK /\ Nested(own)
  BY DEF ScopesIInv, Compiling
<1>a. IsEmitted(chunks, chunks', here, insts)
  BY <1>1, EmittedAlone
<1>2. /\ chunks' \in Seq(ChunkRecs) /\ DOMAIN chunks' = DOMAIN chunks /\ here \in DOMAIN chunks
      /\ \A c \in DOMAIN chunks : c # here => chunks'[c] = chunks[c]
      /\ ChunkGrows(chunks[here], chunks'[here])
      /\ \A i \in DOMAIN chunks[here].code : i \in DOMAIN chunks'[here].code /\ chunks'[here].code[i] = chunks[here].code[i]
      /\ \A i \in DOMAIN chunks'[here].code \ DOMAIN chunks[here].code :
           \E k \in DOMAIN insts : i = Len(chunks[here].code) + k /\ chunks'[here].code[i] = insts[k]
  BY <1>a DEF IsEmitted
<1>3. ChunksGrow
  BY <1>1, <1>2, OnlyHereGrows
<1>4. ScopeFits(scope, here)'
  BY <1>1, <1>3, MoreLocalsFit
<1>5. locals' \in Seq(ScopeRecs)
  <2>1. Len(locals) \in DOMAIN locals /\ locals \in Seq(ScopeRecs) /\ scope \in ScopeRecs
    BY <1>1, CurrScopeTyped DEF MoreLocals
  <2> QED BY <2>1, Replaced
<1>6. ScopesTypeOK'
  BY <1>2, <1>5 DEF ScopesTypeOK
<1>7. ASSUME NEW i \in DOMAIN chunks'[here].code \ DOMAIN chunks[here].code
      PROVE  PlainFits(chunks'[here].code[i], scope, here)
  BY <1>2, ZenonT(30)
<1>8. chunks'[here].captures = chunks[here].captures
  BY <1>2 DEF ChunkGrows
<1>9. ASSUME NEW i \in DOMAIN chunks'[here].code \ DOMAIN chunks[here].code, NEW inst, inst = chunks'[here].code[i]
      PROVE  /\ inst.op # "ret" /\ ~ IsJump(inst) /\ LiteralFits(here, i)' /\ CaptureFits(here, i)'
             /\ OfSlot(inst) /\ Good(inst) => FiledLocal(scope, inst.for, inst.wide)
  <2>1. PlainFits(inst, scope, here)
    BY <1>7, <1>9
  <2>2. LiteralFits(here, i)'
    BY <1>9, <2>1 DEF PlainFits, LiteralFits, CodeOf
  <2>3. CaptureFits(here, i)'
    BY <1>8, <1>9, <2>1 DEF PlainFits, CaptureFits, CodeOf
  <2> QED BY <2>1, <2>2, <2>3 DEF PlainFits, IsJump
<1>10. AddsHere(here, scope)
  BY <1>2, <1>4, <1>9, ZenonT(30) DEF AddsHere, MoreLocals
<1>11. \A i \in DOMAIN chunks[here].code : chunks'[here].code[i] = chunks[here].code[i]
  BY <1>2
<1>12. \A i \in DOMAIN chunks'[here].code \ DOMAIN chunks[here].code : ~ IsJump(chunks'[here].code[i])
  BY <1>9
<1> QED BY <1>6, <1>10, <1>11, <1>12, QuietStep

LEMMA NothingEmitted ==
  ASSUME ScopesTypeOK, chunks' = chunks, NEW here, here = chunk_idx
  PROVE  chunks' = [chunks EXCEPT ![here].code = @ \o <<>>] /\ <<>> \in Seq(AllInsts)
<1>1. here \in DOMAIN chunks /\ chunks \in Seq(ChunkRecs)
  BY DEF ScopesTypeOK
<1>2. chunks[here] \in ChunkRecs /\ chunks[here].code \in Seq(AllInsts)
  BY <1>1, ChunkTyped
<1>3. chunks[here].code \o <<>> = chunks[here].code
  BY <1>2
<1>4. [chunks[here] EXCEPT !.code = chunks[here].code] = chunks[here]
  BY <1>2 DEF ChunkRecs
<1>5. [chunks EXCEPT ![here] = chunks[here]] = chunks
  BY <1>1
<1>6. [chunks EXCEPT ![here].code = @ \o <<>>] = [chunks EXCEPT ![here] = [chunks[here] EXCEPT !.code = chunks[here].code \o <<>>]]
  BY <1>1
<1> QED BY <1>3, <1>4, <1>5, <1>6

LEMMA SameLocals ==
  ASSUME ScopesTypeOK, NEW own, Nested(own), locals' = locals
  PROVE  locals' = [locals EXCEPT ![Len(locals)] = CurrScope]
<1>1. /\ CurrScope = locals[Len(locals)] /\ Len(locals) \in DOMAIN locals /\ locals \in Seq(ScopeRecs)
  BY CurrScopeTyped
<1> QED BY <1>1

LEMMA SameStrings ==
  ASSUME ScopesIInv, globals' = globals, strings' = strings
  PROVE  StringsFit' /\ StringsGrow /\ globals' \in Seq(FuncInfos \cup StringInfos) /\ strings' \in Seq(Contents)
<1>1. StringsFit /\ globals \in Seq(FuncInfos \cup StringInfos) /\ strings \in Seq(Contents)
  BY DEF ScopesIInv, ScopesTypeOK
<1> QED BY <1>1 DEF StringsFit, StringsGrow

\* What is known while the source is parsed.
LEMMA Parsing ==
  ASSUME ScopesIInv, status = "parsing"
  PROVE  /\ ScopesTypeOK
         /\ \E own \in Seq(Owners) : Compiling(own) /\ Nested(own) /\ NamesFit(own)
BY DEF ScopesIInv, Compiling

\* The current table as it is.
LEMMA SameScope ==
  ASSUME ScopesIInv, status = "parsing", locals' = locals
  PROVE  MoreLocals(CurrScope) /\ locals' = [locals EXCEPT ![Len(locals)] = CurrScope]
<1>1. ScopesTypeOK
  BY Parsing
<1>2. PICK own \in Seq(Owners) : Compiling(own) /\ Nested(own) /\ NamesFit(own)
  BY Parsing
<1> QED BY <1>1, <1>2, CurrScopeFits, SameLocals

\* An operand is compiled.
LEMMA OperandStep ==
  ASSUME ScopesIInv, status = "parsing", TopFrame.at = "value", GoTo("then"), NEW here, here = chunk_idx,
         chunk_idx' = here, NEW insts \in Seq(AllInsts), chunks' = [chunks EXCEPT ![here].code = @ \o insts],
         NEW scope, MoreLocals(scope), locals' = [locals EXCEPT ![Len(locals)] = scope],
         \A k \in DOMAIN insts : PlainFits(insts[k], scope, here),
         StringsFit', StringsGrow, globals' \in Seq(FuncInfos \cup StringInfos), strings' \in Seq(Contents),
         loops' = loops, saved_info' = saved_info, status' = status
  PROVE  ScopesIInv'
<1>1. ScopesTypeOK
  BY Parsing
<1>2. PICK own \in Seq(Owners) : Compiling(own) /\ Nested(own) /\ NamesFit(own)
  BY Parsing
<1>3. DOMAIN chunks' = DOMAIN chunks
  BY <1>1, EmittedAlone DEF IsEmitted
<1>4. PICK n : n = Len(frames)
  OBVIOUS
<1>6. Len(locals') = Len(locals)
  BY <1>1, <1>2, TheScopeGrows DEF MoreLocals
<1>5. /\ Nested(own)' /\ frames' \in Seq(AllFrames) /\ n \in DOMAIN own \cap DOMAIN own /\ Len(own) = n
      /\ Continues(own, own, n) /\ \A i \in 1 .. n : SameLoop(frames[i], frames'[i])
  BY <1>1, <1>2, <1>3, <1>4, <1>6, GoesToThen
<1>8. n \in Nat /\ n # n + 1
  BY <1>1, <1>2, <1>4, FramesFacts
<1>9. /\ saved_info' \in Resolved \cup {NoInfo} /\ status' \in {"parsing", "done", "dead", "crashed"}
      /\ loops' \in Seq(LoopRecs)
  BY <1>1 DEF ScopesTypeOK
<1>11. \A k \in DOMAIN loops : loops'[k] = loops[k]
  OBVIOUS
<1>12. PICK own2 : own2 = own
  OBVIOUS
<1>13. /\ Nested(own2)' /\ n \in DOMAIN own \cap DOMAIN own2 /\ Len(own2) = n /\ Continues(own, own2, n)
  <2>1. Nested(own)' /\ own2 = own
    BY <1>5, <1>12
  <2> QED BY <1>5, <1>12
<1>14. \A i \in 1 .. n : SameLoop(frames[i], frames'[i])
  BY <1>5
<1>15. frames' \in Seq(AllFrames)
  BY <1>5
<1> QED BY <1>2, <1>8, <1>9, <1>11, <1>13, <1>14, <1>15, PlainStep

\* A statement ends.
LEMMA ReturnStep ==
  ASSUME ScopesIInv, status = "parsing", TopFrame.fn \notin {"do_source"} \cup FunctionFns \cup LoopFns,
         ReturnFrame, NEW here, here = chunk_idx,
         chunk_idx' = here, NEW insts \in Seq(AllInsts), chunks' = [chunks EXCEPT ![here].code = @ \o insts],
         NEW scope, MoreLocals(scope), locals' = [locals EXCEPT ![Len(locals)] = scope],
         \A k \in DOMAIN insts : PlainFits(insts[k], scope, here),
         strings' = strings, globals' = globals, loops' = loops, saved_info' = saved_info, status' = status
  PROVE  ScopesIInv'
<1>1. ScopesTypeOK
  BY Parsing
<1>2. PICK own \in Seq(Owners) : Compiling(own) /\ Nested(own) /\ NamesFit(own)
  BY Parsing
<1>3. DOMAIN chunks' = DOMAIN chunks
  BY <1>1, EmittedAlone DEF IsEmitted
<1>4. PICK n : n = Len(frames)
  OBVIOUS
<1>5. PICK own2 : own2 = Front(own)
  OBVIOUS
<1>6. Len(locals') = Len(locals)
  BY <1>1, <1>2, TheScopeGrows DEF MoreLocals
<1>7. /\ Nested(own2)' /\ frames' \in Seq(AllFrames) /\ n - 1 \in DOMAIN own \cap DOMAIN own2 /\ Len(own2) = n - 1
      /\ Continues(own, own2, n - 1) /\ \A i \in 1 .. n - 1 : frames'[i] = frames[i] /\ SameLoop(frames[i], frames'[i])
      /\ n \in Nat
  <2>1. Len(loops') = Len(loops) - (IF TopFrame.fn \in LoopFns THEN 1 ELSE 0)
    <3>1. Len(loops) \in Nat
      BY <1>1 DEF ScopesTypeOK
    <3> QED BY <3>1
  <2>2. frames' = Front(frames)
    BY DEF ReturnFrame
  <2> QED BY <1>1, <1>2, <1>3, <1>4, <1>5, <1>6, <2>1, <2>2, ReturnsCall
<1>8. PICK m : m = n - 1
  OBVIOUS
<1>9. m # m + 1 /\ m \in DOMAIN own \cap DOMAIN own2 /\ Len(own2) = m /\ Continues(own, own2, m)
  BY <1>7, <1>8
<1>10. /\ saved_info' \in Resolved \cup {NoInfo} /\ status' \in {"parsing", "done", "dead", "crashed"}
       /\ loops' \in Seq(LoopRecs)
  BY <1>1 DEF ScopesTypeOK
<1>11. \A i \in 1 .. m : SameLoop(frames[i], frames'[i])
  BY <1>7, <1>8
<1>12. \A k \in DOMAIN loops : loops'[k] = loops[k]
  OBVIOUS
<1>13. StringsFit' /\ StringsGrow /\ globals' \in Seq(FuncInfos \cup StringInfos) /\ strings' \in Seq(Contents)
  BY SameStrings
<1> QED BY <1>2, <1>7, <1>9, <1>10, <1>11, <1>12, <1>13, PlainStep, ZenonT(30)

\* A loop whose code is around the next instruction began before it.
LEMMA SettledBelow ==
  ASSUME ScopesTypeOK, NEW own, Nested(own), NEW j \in DOMAIN own, j # Len(own), own[j].chunk = chunk_idx,
         frames[j].fn \in LoopFns
  PROVE  Settled(frames[j])
<1>1. PICK n : n = Len(frames)
  OBVIOUS
<1>2. n \in Nat \ {0} /\ DOMAIN own = 1 .. n /\ Len(own) = n /\ own[n].chunk = chunk_idx
  BY <1>1, FramesFacts
<1>3. j \in 1 .. n /\ j < n
  BY <1>2
<1>4. PICK k : k = j + 1
  OBVIOUS
<1>5. k \in 2 .. n /\ k - 1 = j /\ j < k /\ (k = n \/ k < n)
  BY <1>3, <1>4, <1>2
<1>a. k \in DOMAIN own /\ j \in DOMAIN own /\ n \in DOMAIN own
  BY <1>2, <1>5
<1>6. Above(own, k) /\ FarAbove(own, j, k) /\ (k # n => FarAbove(own, k, n))
  <2>1. \A i \in 2 .. Len(own) : Above(own, i)
    BY DEF Nested
  <2>2. \A i, h \in DOMAIN own : i < h => FarAbove(own, i, h)
    BY DEF Nested
  <2>3. k \in 2 .. Len(own)
    BY <1>2, <1>5
  <2> QED BY <1>5, <1>a, <2>1, <2>2, <2>3
<1>7. own[j].chunk \in Nat /\ own[k].chunk \in Nat /\ own[n].chunk \in Nat
  <2>1. \A i \in 1 .. n : own[i] \in Owners
    BY <1>1, FramesFacts
  <2> QED BY <1>2, <1>a, <2>1 DEF Owners
<1>8. frames[k].fn # "do_lambda"
  <2>1. SUFFICES ASSUME frames[k].fn = "do_lambda" PROVE FALSE
    OBVIOUS
  <2>2. own[j].chunk < own[k].chunk
    BY <1>6, <2>1 DEF FarAbove, FunctionFns
  <2>3. own[k].chunk <= own[n].chunk
    BY <1>5, <1>6, <1>7 DEF FarAbove
  <2> QED BY <1>2, <1>7, <2>2, <2>3
<1>9. frames[j].at \in {"body", "updated"}
  BY <1>5, <1>6, <1>8 DEF Above
<1> QED BY <1>9 DEF Settled

LEMMA LoopBeganBefore ==
  ASSUME ScopesTypeOK, NEW own, Nested(own), JumpsFit(own), NEW j \in DOMAIN own, own[j].chunk = chunk_idx,
         frames[j].fn \in LoopFns, Settled(frames[j])
  PROVE  frames[j].loop.begin < Here
<1>1. PICK c : c = chunk_idx
  OBVIOUS
<1>2. LoopFits(own, j) /\ c \in DOMAIN chunks /\ frames[j].loop \in LoopIds /\ frames[j].out \in Nat
  BY <1>1, LoopInside DEF JumpsFit, ScopesTypeOK
<1>3. PICK loop : loop = frames[j].loop
  OBVIOUS
<1>4. PICK i : i = frames[j].out + 1
  OBVIOUS
<1>5. loop.chunk = c /\ i \in JumpsOf("out", loop)
  BY <1>1, <1>2, <1>3, <1>4 DEF LoopFits
<1>6. i \in DOMAIN chunks[c].code /\ IsJump(chunks[c].code[i]) /\ chunks[c].code[i].for = [role |-> "out", loop |-> loop]
  BY <1>5 DEF JumpsOf, CodeOf
<1>7. JumpFits(c, i)
  BY <1>2, <1>6 DEF JumpsFit, CodeOf
<1>8. loop.begin < i
  BY <1>6, <1>7 DEF JumpFits, CodeOf
<1>9. chunks[c].code \in Seq(AllInsts)
  BY <1>2, ChunkTyped
<1>10. Len(chunks[c].code) \in Nat /\ i \in 1 .. Len(chunks[c].code)
  BY <1>6, <1>9
<1>11. loop.begin \in Nat
  BY <1>2, <1>3 DEF LoopIds
<1> QED BY <1>1, <1>3, <1>8, <1>10, <1>11 DEF Here, Code

\* A loop that begins here has no jump and is none of the loops that are open.
LEMMA NoJumpYet ==
  ASSUME ScopesTypeOK, NEW own, JumpsFit(own), NEW loop, loop = [chunk |-> chunk_idx, begin |-> Here], NEW role
  PROVE  JumpsOf(role, loop) = {}
<1>1. PICK c : c = chunk_idx
  OBVIOUS
<1>2. PICK b : b = Here
  OBVIOUS
<1>3. c \in DOMAIN chunks /\ b = Len(chunks[c].code)
  BY <1>1, <1>2 DEF ScopesTypeOK, Here, Code
<1>4. loop.chunk = c /\ loop.begin = b
  BY <1>1, <1>2
<1>5. ASSUME NEW i \in JumpsOf(role, loop) PROVE FALSE
  <2>1. i \in DOMAIN chunks[c].code /\ IsJump(chunks[c].code[i]) /\ chunks[c].code[i].for = [role |-> role, loop |-> loop]
    BY <1>4, <1>5 DEF JumpsOf, CodeOf
  <2>2. JumpFits(c, i)
    BY <1>3, <2>1 DEF JumpsFit, CodeOf
  <2>3. b < i
    BY <1>4, <2>1, <2>2 DEF JumpFits, CodeOf
  <2>4. chunks[c].code \in Seq(AllInsts)
    BY <1>3, ChunkTyped
  <2>5. b \in Nat /\ i \in 1 .. b
    BY <1>3, <2>1, <2>4
  <2> QED BY <2>3, <2>5
<1> QED BY <1>5

LEMMA NewLoopIsNew ==
  ASSUME ScopesTypeOK, NEW own, Nested(own), JumpsFit(own), TopFrame.at \in {"block", "body", "update"},
         NEW loop, loop = [chunk |-> chunk_idx, begin |-> Here], NEW j \in DOMAIN own, frames[j].fn \in LoopFns
  PROVE  frames[j].loop # loop
<1>1. SUFFICES ASSUME frames[j].loop = loop PROVE FALSE
  OBVIOUS
<1>2. LoopFits(own, j)
  BY DEF JumpsFit
<1>3. frames[j].loop.chunk = own[j].chunk
  BY <1>2 DEF LoopFits
<1>4. own[j].chunk = chunk_idx
  BY <1>1, <1>3
<1>5. Settled(frames[j])
  <2>1. CASE j = Len(own)
    <3>1. frames[j] = TopFrame
      BY <2>1, FramesFacts
    <3> QED BY <3>1 DEF Settled
  <2>2. CASE j # Len(own)
    BY <1>4, <2>2, SettledBelow
  <2> QED BY <2>1, <2>2
<1>6. frames[j].loop.begin < Here
  BY <1>4, <1>5, LoopBeganBefore
<1>7. frames[j].loop.begin = Here
  BY <1>1
<1>8. Here \in Nat
  <2>1. chunk_idx \in DOMAIN chunks
    BY DEF ScopesTypeOK
  <2>2. chunks[chunk_idx].code \in Seq(AllInsts)
    BY <2>1, ChunkTyped
  <2> QED BY <2>2 DEF Here, Code
<1> QED BY <1>6, <1>7, <1>8

FrameKnows(scope, frame) ==
  /\ frame.fn = "do_vars" => FiledLocal(scope, frame.name, frame.id)
  /\ frame.fn = "do_for" =>
       (frame.info # NoInfo /\ frame.info.domain = "local" => Filed(scope, frame.info))
  /\ frame.fn = "do_expr_stmt" =>
       /\ frame.dest = "none" <=> frame.info = NoInfo
       /\ frame.dest # "none" => frame.dest = frame.info.domain
       /\ frame.dest \in {"local", "upval"} => Filed(scope, frame.info)

BeginsLoop(frame, here) ==
  /\ frame.loop = [chunk |-> here, begin |-> Len(chunks[here].code)] /\ frame.at = "value"
  /\ frame.fn = "do_while" => frame.check = frame.loop.begin

LEMMA NewLoopFits ==
  ASSUME ScopesTypeOK, NEW own, Nested(own), JumpsFit(own), TopFrame.at \in {"block", "body", "update"},
         chunks' = chunks, NEW here, here = chunk_idx, NEW frame, frame.fn \in LoopFns, BeginsLoop(frame, here),
         loops' = Append(loops, NoJumps), NEW n, n = Len(frames), NEW own2, Len(own2) = n + 1,
         own2[n + 1] = [chunk |-> here, scopes |-> Len(locals'), loops |-> Len(loops')],
         Continues(own, own2, n), frames'[n + 1] = frame, own2 \in Seq(Owners)
  PROVE  LoopFits(own2, n + 1)'
<1>1. PICK loop : loop = frame.loop
  OBVIOUS
<1>2. PICK k : k = n + 1
  OBVIOUS
<1>3. loop = [chunk |-> chunk_idx, begin |-> Here]
  BY <1>1 DEF BeginsLoop, Here, Code
<1>4. \A role : JumpsOf(role, loop)' = {}
  <2>1. \A role : JumpsOf(role, loop) = {}
    BY <1>3, NoJumpYet
  <2>2. ASSUME NEW role PROVE JumpsOf(role, loop)' = JumpsOf(role, loop)
    BY DEF JumpsOf, CodeOf
  <2> QED BY <2>1, <2>2
<1>5. own2[k].chunk = here /\ own2[k].loops = Len(loops')
  BY <1>2
<1>6. loops'[Len(loops')] = NoJumps
  <2>1. loops \in Seq(LoopRecs)
    BY DEF ScopesTypeOK
  <2> QED BY <2>1
<1>7. PICK tracked : tracked = loops'[own2[k].loops]
  OBVIOUS
<1>8. tracked.loop_breaks = {} /\ tracked.loop_continues = {}
  BY <1>5, <1>6, <1>7 DEF NoJumps
<1>9. loop.chunk = here /\ loop.begin = Len(chunks'[here].code) /\ loop.begin \in Nat
  <2>1. here \in DOMAIN chunks
    BY DEF ScopesTypeOK
  <2>2. Len(chunks[here].code) \in Nat
    BY <2>1, ChunkTyped
  <2> QED BY <1>1, <2>2 DEF BeginsLoop
<1>10. ~ Settled(frame)
  BY DEF BeginsLoop, Settled
<1>11. ASSUME NEW j \in DOMAIN own2, j # k, frames'[j].fn \in LoopFns PROVE frames'[j].loop # loop
  <2>1. n \in Nat /\ DOMAIN own = 1 .. n /\ DOMAIN own2 = 1 .. n + 1
    BY FramesFacts
  <2>2. j \in 1 .. n
    BY <1>2, <1>11, <2>1
  <2>3. SameFrame(frames[j], frames'[j])
    BY <2>2 DEF Continues
  <2>4. frames[j].fn \in LoopFns /\ frames'[j].loop = frames[j].loop
    BY <1>11, <2>3 DEF SameFrame
  <2> QED BY <1>3, <2>1, <2>2, <2>4, NewLoopIsNew
<1>12. frames'[k] = frame
  BY <1>2
<1>13. frame.fn = "do_while" => frame.check = loop.begin
  BY <1>1 DEF BeginsLoop
<1>14. /\ {j - 1 : j \in JumpsOf("break", loop)'} = {} /\ {j - 1 : j \in JumpsOf("continue", loop)'} = {}
  BY <1>4
<1>15. LoopFits(own2, k)'
  <2>1. /\ loop.chunk = own2[k].chunk /\ loop.begin <= Len(chunks'[loop.chunk].code)
    BY <1>5, <1>9
  <2>2. /\ tracked.loop_breaks = {j - 1 : j \in JumpsOf("break", loop)'}
        /\ tracked.loop_continues = {j - 1 : j \in JumpsOf("continue", loop)'}
    BY <1>8, <1>14
  <2>3. JumpsOf("again", loop)' = {} /\ JumpsOf("out", loop)' = {}
    BY <1>4
  <2> QED BY <1>1, <1>7, <1>10, <1>11, <1>12, <1>13, <2>1, <2>2, <2>3 DEF LoopFits, CodeOf
<1> QED BY <1>2, <1>15

LEMMA KnownFrameFits ==
  ASSUME NEW own2, NEW k, frames'[k].fn # "do_lambda", NEW scope, locals'[own2[k].scopes] = scope,
         FrameKnows(scope, frames'[k])
  PROVE  FrameFits(own2, k)'
<1>1. PICK frame : frame = frames'[k]
  OBVIOUS
<1>2. /\ frame.fn = "do_vars" => FiledLocal(scope, frame.name, frame.id)
      /\ frame.fn = "do_for" =>
           (frame.info # NoInfo /\ frame.info.domain = "local" => Filed(scope, frame.info))
      /\ frame.fn = "do_expr_stmt" =>
           /\ frame.dest = "none" <=> frame.info = NoInfo
           /\ frame.dest # "none" => frame.dest = frame.info.domain
           /\ frame.dest \in {"local", "upval"} => Filed(scope, frame.info)
  BY <1>1 DEF FrameKnows
<1> QED BY <1>1, <1>2 DEF FrameFits

\* A statement or a loop begins.
LEMMA BeginStep ==
  ASSUME ScopesIInv, status = "parsing", TopFrame.at \in {"block", "body", "update"},
         NEW frame \in AllFrames, frame.fn \notin {"do_source", "do_lambda", "do_func"}, frames' = Append(Past, frame),
         chunks' = chunks, NEW here, here = chunk_idx, chunk_idx' = here,
         NEW scope, MoreLocals(scope), locals' = [locals EXCEPT ![Len(locals)] = scope],
         strings' = strings, globals' = globals, saved_info' \in Resolved \cup {NoInfo}, status' = status,
         FrameKnows(scope, frame), loops' = IF frame.fn \in LoopFns THEN Append(loops, NoJumps) ELSE loops,
         frame.fn \in LoopFns => BeginsLoop(frame, here)
  PROVE  ScopesIInv'
<1>1. ScopesTypeOK
  BY Parsing
<1>2. PICK own \in Seq(Owners) : Compiling(own) /\ Nested(own) /\ NamesFit(own)
  BY Parsing
<1>3. DOMAIN chunks' = DOMAIN chunks /\ chunk_idx' \in DOMAIN chunks' /\ here \in DOMAIN chunks
  BY <1>1 DEF ScopesTypeOK
<1>4. PICK n : n = Len(frames)
  OBVIOUS
<1>5. Len(locals') = Len(locals) /\ locals'[Len(locals)] = scope
  BY <1>1, <1>2, TheScopeGrows DEF MoreLocals
<1>6. PICK own2 : own2 = Append(own, [chunk |-> chunk_idx', scopes |-> Len(locals'), loops |-> Len(loops')])
  OBVIOUS
<1>7. frame.fn \notin FunctionFns
  BY DEF FunctionFns
<1>8. /\ loops' \in Seq(LoopRecs) /\ Len(loops') = Len(loops) + (IF frame.fn \in LoopFns THEN 1 ELSE 0)
      /\ \A k \in DOMAIN loops : loops'[k] = loops[k]
  <2>1. loops \in Seq(LoopRecs) /\ NoJumps \in LoopRecs
    BY <1>1 DEF ScopesTypeOK, NoJumps, LoopRecs
  <2>2. CASE frame.fn \in LoopFns
    BY <2>1, <2>2
  <2>3. CASE frame.fn \notin LoopFns
    BY <2>1, <2>3
  <2> QED BY <2>2, <2>3
<1>9. /\ Nested(own2)' /\ frames' \in Seq(AllFrames) /\ n \in DOMAIN own \cap DOMAIN own2 /\ Len(own2) = n + 1
      /\ Continues(own, own2, n) /\ \A i \in 1 .. n : SameLoop(frames[i], frames'[i])
      /\ frames'[n + 1] = frame /\ n \in Nat \ {0}
      /\ own2[n + 1] = [chunk |-> chunk_idx', scopes |-> Len(locals'), loops |-> Len(loops')]
  <2>1. frame.fn \notin {"do_source", "do_lambda"} /\ DOMAIN chunks \subseteq DOMAIN chunks' /\ chunk_idx' \in DOMAIN chunks'
    BY <1>3
  <2>2. /\ frame.fn \in FunctionFns =>
             frame.old_chunk_idx = chunk_idx /\ chunk_idx' = Len(chunks) + 1 /\ Len(locals') = Len(locals) + 1
        /\ frame.fn \notin FunctionFns => chunk_idx' = chunk_idx /\ Len(locals') = Len(locals)
    BY <1>5, <1>7
  <2>3. Len(loops') = Len(loops) + (IF frame.fn \in LoopFns THEN 1 ELSE 0)
    BY <1>8
  <2>4. Nested(own2)'
    BY <1>1, <1>2, <1>4, <1>6, <2>1, <2>2, <2>3, BeginsCall
  <2>5. frames' \in Seq(AllFrames)
    BY <1>1, <1>2, <1>4, <1>6, <2>1, <2>2, <2>3, BeginsCall
  <2>6. n \in DOMAIN own \cap DOMAIN own2
    BY <1>1, <1>2, <1>4, <1>6, <2>1, <2>2, <2>3, BeginsCall
  <2>a. PICK last : last = [chunk |-> chunk_idx', scopes |-> Len(locals'), loops |-> Len(loops')]
    OBVIOUS
  <2>b. own2 = Append(own, last) /\ own \in Seq(Owners) /\ Len(own) = n
    BY <1>1, <1>2, <1>4, <1>6, <2>a, FramesFacts
  <2>c. Len(own2) = n + 1 /\ own2[n + 1] = last
    BY <2>b
  <2>7. Len(own2) = n + 1
    BY <2>c
  <2>8. Continues(own, own2, n)
    BY <1>1, <1>2, <1>4, <1>6, <2>1, <2>2, <2>3, BeginsCall
  <2>9. \A i \in 1 .. n : SameLoop(frames[i], frames'[i])
    BY <1>1, <1>2, <1>4, <1>6, <2>1, <2>2, <2>3, BeginsCall
  <2>10. frames'[n + 1] = frame
    BY <1>1, <1>2, <1>4, <1>6, <2>1, <2>2, <2>3, BeginsCall
  <2>11. n \in Nat \ {0}
    BY <1>1, <1>2, <1>4, <1>6, <2>1, <2>2, <2>3, BeginsCall
  <2>12. own2[n + 1] = [chunk |-> chunk_idx', scopes |-> Len(locals'), loops |-> Len(loops')]
    BY <2>a, <2>c
  <2> QED BY <2>4, <2>5, <2>6, <2>7, <2>8, <2>9, <2>10, <2>11, <2>12
<1>10. FrameFits(own2, n + 1)'
  <2>1. PICK k : k = n + 1
    OBVIOUS
  <2>a. PICK last : last = [chunk |-> chunk_idx', scopes |-> Len(locals'), loops |-> Len(loops')]
    OBVIOUS
  <2>b. own2[k] = last /\ last.scopes = Len(locals')
    BY <1>9, <2>1, <2>a
  <2>2. frames'[k] = frame /\ own2[k].scopes = Len(locals)
    BY <1>5, <1>9, <2>1, <2>b
  <2>3. FrameFits(own2, k)'
    BY <1>5, <2>2, KnownFrameFits
  <2> QED BY <2>1, <2>3
<1>11. ASSUME ~ StrayJump, frame.fn \in LoopFns PROVE LoopFits(own2, n + 1)'
  <2>1. JumpsFit(own)
    BY <1>2, <1>11 DEF Compiling
  <2>2. own2 \in Seq(Owners)
    BY <1>9 DEF Nested
  <2>3. loops' = Append(loops, NoJumps) /\ BeginsLoop(frame, here)
    BY <1>11
  <2>4. own2[n + 1] = [chunk |-> here, scopes |-> Len(locals'), loops |-> Len(loops')]
    BY <1>9
  <2> QED BY <1>1, <1>2, <1>4, <1>9, <1>11, <2>1, <2>2, <2>3, <2>4, NewLoopFits
<1>12. PICK insts : insts = <<>>
  OBVIOUS
<1>13. insts \in Seq(AllInsts) /\ chunks' = [chunks EXCEPT ![here].code = @ \o insts] /\ DOMAIN insts = {}
  BY <1>1, <1>12, NothingEmitted
<1>14. \A k \in DOMAIN insts : PlainFits(insts[k], scope, here)
  BY <1>13
<1>15. StringsFit' /\ StringsGrow /\ globals' \in Seq(FuncInfos \cup StringInfos) /\ strings' \in Seq(Contents)
  BY SameStrings
<1>16. status' \in {"parsing", "done", "dead", "crashed"}
  OBVIOUS
<1>17. ~ StrayJump /\ frames'[n + 1].fn \in LoopFns => LoopFits(own2, n + 1)'
  BY <1>9, <1>11
<1> QED BY <1>2, <1>8, <1>9, <1>10, <1>13, <1>14, <1>15, <1>16, <1>17, PlainStep

(***************************************************************************)
(* Each action.                                                            *)
(***************************************************************************)
NameOps == {"load_local", "store_local", "bind_lstmp", "get_upv", "set_upv", "load_imm_gid"}

LEMMA InstTyped ==
  ASSUME NEW op \in NameOps, NEW flag \in Int, NEW wide \in Int, NEW name \in Names,
         NEW info \in {"good", "moved", "overwritten"}, NEW inst,
         inst = [op |-> op, flag |-> flag, wide |-> wide, for |-> name, info |-> info]
  PROVE  inst \in AllInsts
<1>1. inst \in Insts(NameOps, Names)
  BY DEF Insts
<1> QED BY <1>1 DEF NameOps, AllInsts

LEMMA OneInst ==
  ASSUME NEW inst \in AllInsts, NEW insts, insts = <<inst>>
  PROVE  insts \in Seq(AllInsts) /\ \A k \in DOMAIN insts : insts[k] = inst
OBVIOUS

\* Nothing changes but perhaps the status, and nothing is being compiled.
LEMMA IdleStep ==
  ASSUME ScopesIInv, status' \in {"done", "dead", "crashed"},
         chunks' = chunks, chunk_idx' = chunk_idx, strings' = strings, globals' = globals,
         locals' = locals, loops' = loops, saved_info' = saved_info, frames' = frames
  PROVE  ScopesIInv'
<1>1. /\ chunks' = chunks /\ chunk_idx' = chunk_idx /\ strings' = strings /\ globals' = globals
      /\ locals' = locals /\ loops' = loops /\ saved_info' = saved_info /\ frames' = frames
  OBVIOUS
<1>2. ScopesTypeOK'
  BY <1>1 DEF ScopesIInv, ScopesTypeOK
<1>3. StringsFit'
  BY <1>1 DEF ScopesIInv, StringsFit
<1>7. ChunksGrow /\ WidesStay /\ StringsGrow
  BY <1>1 DEF ChunksGrow, ChunkGrows, WidesStay, StringsGrow
<1>4. ProgramFits'
  <2>1. ASSUME ~ StrayJump', NEW c \in DOMAIN chunks' PROVE CodeFits(c)'
    <3>1. ~ StrayJump /\ c \in DOMAIN chunks
      BY <1>1, <1>7, <2>1, StrayStays
    <3>2. CodeFits(c) /\ ScopesTypeOK
      BY <3>1 DEF ScopesIInv, ProgramFits
    <3>3. chunks'[c] = chunks[c] /\ DOMAIN chunks'[c].code \ DOMAIN chunks[c].code = {}
      BY <1>1
    <3> QED BY <1>7, <3>1, <3>2, <3>3, CodeStaysFit
  <2> QED BY <2>1 DEF ProgramFits
<1>5. LoopJumpsMeet'
  <2>1. OnlyJumpsOf({})
    BY <1>1 DEF OnlyJumpsOf
  <2>2. CASE StrayJump'
    BY <2>2, MeetAtAllNext
  <2>3. CASE ~ StrayJump'
    BY <1>7, <2>1, <2>3, JumpsMeetOn DEF ScopesIInv
  <2> QED BY <2>2, <2>3
<1>6. status' # "parsing"
  OBVIOUS
<1> QED BY <1>2, <1>3, <1>4, <1>5, <1>6 DEF ScopesIInv

\* A compile error.
LEMMA FailStep ==
  ASSUME ScopesIInv, NEW outcome \in {"dead", "crashed"}, Fail(outcome)
  PROVE  ScopesIInv'
BY IdleStep DEF Fail, programVars, scopeVars

\* A string, filed before or not.
LEMMA StringFiled ==
  ASSUME ScopesIInv, NEW literal \in Texts, NEW info, info = compiler_record_escaped_string(globals, literal),
         NEW known, known = Knows(globals, literal.lexeme, "string"),
         strings' = IF known THEN strings ELSE Append(strings, literal.text),
         globals' = IF known THEN globals ELSE Append(globals, info)
  PROVE  /\ StringsFit' /\ StringsGrow /\ globals' \in Seq(FuncInfos \cup StringInfos) /\ strings' \in Seq(Contents)
         /\ info.id \in Nat /\ Holds(strings', info.id, literal.text)
<1>1. StringsFit /\ globals \in Seq(FuncInfos \cup StringInfos) /\ strings \in Seq(Contents) /\ literal.text \in Contents
  BY DEF ScopesIInv, ScopesTypeOK, Contents
<1>2. CASE Knows(globals, literal.lexeme, "string")
  <2>1. info = SymbolTable_find(globals, literal.lexeme, "string") /\ info # NoInfo
    BY <1>2 DEF Knows, compiler_record_escaped_string
  <2>2. /\ info.name = literal.lexeme /\ info.domain = "string" /\ info \in FuncInfos \cup StringInfos
        /\ \E i \in DOMAIN globals : globals[i] = info
    BY <1>1, <2>1, FindsEntry
  <2>3. info \in StringInfos
    BY <2>2 DEF FuncInfos, StringInfos
  <2>4. PICK other \in Texts : other.text = literal.lexeme
    BY <2>2, <2>3 DEF StringInfos, Contents
  <2>5. literal.text = literal.lexeme
    BY <2>4, SpellingAssumption
  <2>6. strings' = strings /\ globals' = globals
    BY <1>2
  <2>7. Holds(strings, info.id, info.name)
    BY <1>1, <2>2 DEF StringsFit
  <2>8. StringsFit' /\ StringsGrow
    BY <1>1, <2>6 DEF StringsFit, StringsGrow
  <2> QED BY <1>1, <2>2, <2>3, <2>5, <2>6, <2>7, <2>8 DEF StringInfos
<1>3. CASE ~ Knows(globals, literal.lexeme, "string")
  <2>1. info = [name |-> literal.text, id |-> Len(strings), domain |-> "string"]
    BY <1>3 DEF compiler_record_escaped_string, make_symbol_info
  <2>2. strings' = Append(strings, literal.text) /\ globals' = Append(globals, info)
    BY <1>3
  <2>3. info \in StringInfos
    BY <1>1, <2>1 DEF StringInfos
  <2>4. strings' \in Seq(Contents) /\ globals' \in Seq(FuncInfos \cup StringInfos)
    BY <1>1, <2>2, <2>3
  <2>5. StringsGrow
    BY <1>1, <2>2 DEF StringsGrow
  <2>6. Holds(strings', info.id, literal.text)
    BY <1>1, <2>1, <2>2 DEF Holds
  <2>7. ASSUME NEW i \in DOMAIN globals', globals'[i].domain = "string"
        PROVE  Holds(strings', globals'[i].id, globals'[i].name)
    <3>1. CASE i \in DOMAIN globals
      <4>1. globals'[i] = globals[i]
        BY <1>1, <2>2, <3>1
      <4>2. Holds(strings, globals[i].id, globals[i].name)
        BY <1>1, <2>7, <3>1, <4>1 DEF StringsFit
      <4> QED BY <2>5, <4>1, <4>2 DEF Holds, StringsGrow
    <3>2. CASE i \notin DOMAIN globals
      <4>1. globals'[i] = info
        BY <1>1, <2>2, <2>7, <3>2
      <4> QED BY <2>1, <2>6, <4>1
    <3> QED BY <3>1, <3>2
  <2>8. StringsFit'
    BY <2>7 DEF StringsFit
  <2> QED BY <1>1, <2>1, <2>4, <2>5, <2>6, <2>8
<1> QED BY <1>2, <1>3

LEMMA StringStep ==
  ASSUME ScopesIInv, string_literal
  PROVE  ScopesIInv'
<1>1. ScopesTypeOK
  BY DEF ScopesIInv
<1>2. PICK here : here = chunk_idx
  OBVIOUS
<1>3. PICK literal \in Texts :
        /\ strings' = IF Knows(globals, literal.lexeme, "string") THEN strings ELSE Append(strings, literal.text)
        /\ globals' = IF Knows(globals, literal.lexeme, "string") THEN globals
                      ELSE Append(globals, compiler_record_escaped_string(globals, literal))
        /\ Emit(<<Inst("load_string_k", 0, compiler_record_escaped_string(globals, literal).id, literal)>>)
  BY DEF string_literal
<1>4. /\ status = "parsing" /\ TopFrame.at = "value" /\ GoTo("then") /\ chunk_idx' = here
      /\ locals' = locals /\ loops' = loops /\ saved_info' = saved_info /\ status' = status
  BY <1>2 DEF string_literal, At
<1>5. PICK info : info = compiler_record_escaped_string(globals, literal)
  OBVIOUS
<1>6. PICK known : known = Knows(globals, literal.lexeme, "string")
  OBVIOUS
<1>7. /\ strings' = IF known THEN strings ELSE Append(strings, literal.text)
      /\ globals' = IF known THEN globals ELSE Append(globals, info)
  BY <1>3, <1>5, <1>6
<1>8. /\ StringsFit' /\ StringsGrow /\ globals' \in Seq(FuncInfos \cup StringInfos) /\ strings' \in Seq(Contents)
      /\ info.id \in Nat /\ Holds(strings', info.id, literal.text)
  BY <1>5, <1>6, <1>7, StringFiled
<1>9. PICK inst : inst = Inst("load_string_k", 0, info.id, literal)
  OBVIOUS
<1>10. inst \in AllInsts
  <2>1. inst \in Insts({"load_string_k"}, Texts)
    BY <1>8, <1>9 DEF Inst, Insts
  <2> QED BY <2>1 DEF AllInsts
<1>11. PICK insts : insts = <<inst>>
  OBVIOUS
<1>12. insts \in Seq(AllInsts) /\ \A k \in DOMAIN insts : insts[k] = inst
  BY <1>10, <1>11, OneInst
<1>13. chunks' = [chunks EXCEPT ![here].code = @ \o insts]
  BY <1>2, <1>3, <1>5, <1>9, <1>11 DEF Emit
<1>14. PICK scope : scope = CurrScope
  OBVIOUS
<1>15. MoreLocals(scope) /\ locals' = [locals EXCEPT ![Len(locals)] = scope]
  BY <1>4, <1>14, SameScope
<1>16. PlainFits(inst, scope, here)
  BY <1>8, <1>9 DEF PlainFits, Inst, OfUpval, OfSlot
<1>17. \A k \in DOMAIN insts : PlainFits(insts[k], scope, here)
  BY <1>12, <1>16
<1> QED BY <1>2, <1>4, <1>8, <1>12, <1>13, <1>15, <1>17, OperandStep

LEMMA FitsName ==
  ASSUME NEW op \in NameOps, NEW flag, NEW wide, NEW name, NEW info,
         NEW inst, inst = [op |-> op, flag |-> flag, wide |-> wide, for |-> name, info |-> info], NEW scope, NEW here,
         op \in {"load_local", "store_local", "bind_lstmp"} /\ info = "good" => FiledLocal(scope, name, wide),
         op \in {"get_upv", "set_upv"} /\ info = "good" => Holds(chunks[here].captures, wide, name)
  PROVE  PlainFits(inst, scope, here)
BY DEF PlainFits, NameOps, OfUpval, OfSlot, Good

\* A name that is captured is in the list of captures.
LEMMA FiledCapture ==
  ASSUME NEW scope, NEW here, ScopeFits(scope, here), NEW info \in UpvalInfos, Filed(scope, info)
  PROVE  Holds(chunks[here].captures, info.id, info.name)
BY DEF ScopeFits, UpvalsFit, Filed, UpvalInfos

LEMMA NameStep ==
  ASSUME ScopesIInv, name_operand
  PROVE  ScopesIInv'
<1>1. ScopesTypeOK /\ status = "parsing" /\ TopFrame.at = "value"
  BY DEF ScopesIInv, name_operand, At
<1>2. PICK here : here = chunk_idx
  OBVIOUS
<1>3. PICK name \in Names :
        LET info == compiler_resolve_name(name)
        IN IF info = NoInfo THEN Fail("dead") /\ UNCHANGED parts
           ELSE /\ Emit(<<Inst(LoadOf[info.domain], 0, info.id, name)>>)
                /\ GoTo("then")
                /\ UNCHANGED <<chunk_idx, strings, scopeVars, status, parts>>
  BY DEF name_operand
<1>4. PICK info : info = compiler_resolve_name(name)
  OBVIOUS
<1>5. CASE info = NoInfo
  BY <1>3, <1>4, <1>5, FailStep
<1>6. CASE info # NoInfo
  <2>1. /\ Emit(<<Inst(LoadOf[info.domain], 0, info.id, name)>>) /\ GoTo("then") /\ chunk_idx' = here
        /\ locals' = locals /\ loops' = loops /\ saved_info' = saved_info /\ status' = status
        /\ globals' = globals /\ strings' = strings
    BY <1>2, <1>3, <1>4, <1>6 DEF scopeVars
  <2>2. PICK own \in Seq(Owners) : Compiling(own) /\ Nested(own)
    BY <1>1, Parsing
  <2>3. CurrScope \in ScopeRecs /\ ScopeFits(CurrScope, here)
    BY <1>1, <1>2, <2>2, CurrScopeTyped, CurrScopeFits
  <2>4. PICK scope : scope = CurrScope
    OBVIOUS
  <2>5. MoreLocals(scope) /\ locals' = [locals EXCEPT ![Len(locals)] = scope]
    BY <1>1, <2>1, <2>4, SameScope
  <2>6. info \in Resolved /\ info.name = name /\ (info.domain \in {"local", "upval"} => Filed(scope, info))
    <3>1. globals \in Seq(FuncInfos \cup StringInfos)
      BY <1>1 DEF ScopesTypeOK
    <3> QED BY <1>4, <1>6, <2>3, <2>4, <3>1, ResolvedName
  <2>7. PICK inst : inst = Inst(LoadOf[info.domain], 0, info.id, name)
    OBVIOUS
  <2>8. PICK op : op = LoadOf[info.domain]
    OBVIOUS
  <2>9. inst = [op |-> op, flag |-> 0, wide |-> info.id, for |-> name, info |-> "good"]
    BY <2>7, <2>8 DEF Inst
  <2>10. /\ op \in NameOps /\ info.id \in Int
         /\ op = "load_local" => FiledLocal(scope, name, info.id)
         /\ op = "get_upv" => Holds(chunks[here].captures, info.id, name)
         /\ op \notin {"store_local", "bind_lstmp", "set_upv"}
    <3>1. CASE info \in LocalInfos
      <4>1. info = make_symbol_info(name, info.id, "local") /\ info.domain = "local" /\ info.id \in Int
        BY <2>6, <3>1 DEF LocalInfos, make_symbol_info
      <4>2. op = "load_local"
        BY <2>8, <4>1 DEF LoadOf
      <4>3. FiledLocal(scope, name, info.id)
        BY <2>6, <4>1 DEF FiledLocal
      <4> QED BY <4>1, <4>2, <4>3 DEF NameOps
    <3>2. CASE info \in UpvalInfos
      <4>1. info.domain = "upval" /\ info.id \in Int
        BY <3>2 DEF UpvalInfos
      <4>2. op = "get_upv"
        BY <2>8, <4>1 DEF LoadOf
      <4>3. Holds(chunks[here].captures, info.id, name)
        BY <2>3, <2>4, <2>6, <3>2, <4>1, FiledCapture
      <4> QED BY <4>1, <4>2, <4>3 DEF NameOps
    <3>3. CASE info \in FuncInfos
      <4>1. info.domain = "func" /\ info.id \in Int
        BY <3>3 DEF FuncInfos
      <4>2. op = "load_imm_gid"
        BY <2>8, <4>1 DEF LoadOf
      <4> QED BY <4>1, <4>2 DEF NameOps
    <3> QED BY <2>6, <3>1, <3>2, <3>3 DEF Resolved
  <2>11. inst \in AllInsts
    BY <2>9, <2>10, InstTyped
  <2>12. PlainFits(inst, scope, here)
    BY <2>9, <2>10, FitsName
  <2>13. PICK insts : insts = <<inst>>
    OBVIOUS
  <2>14. insts \in Seq(AllInsts) /\ \A k \in DOMAIN insts : insts[k] = inst
    BY <2>11, <2>13, OneInst
  <2>15. chunks' = [chunks EXCEPT ![here].code = @ \o insts]
    BY <1>2, <2>1, <2>7, <2>13 DEF Emit
  <2>16. \A k \in DOMAIN insts : PlainFits(insts[k], scope, here)
    BY <2>12, <2>14
  <2>17. StringsFit' /\ StringsGrow /\ globals' \in Seq(FuncInfos \cup StringInfos) /\ strings' \in Seq(Contents)
    BY <2>1, SameStrings
  <2> QED BY <1>1, <1>2, <2>1, <2>5, <2>14, <2>15, <2>16, <2>17, OperandStep
<1> QED BY <1>5, <1>6

\* What the top call knows.
LEMMA TopKnows ==
  ASSUME ScopesIInv, status = "parsing"
  PROVE  TopFrame \in AllFrames /\ (TopFrame.fn # "do_lambda" => FrameKnows(CurrScope, TopFrame))
<1>1. ScopesTypeOK
  BY Parsing
<1>2. PICK own \in Seq(Owners) : Compiling(own) /\ Nested(own) /\ NamesFit(own)
  BY Parsing
<1>3. PICK n : n = Len(frames)
  OBVIOUS
<1>4. /\ n \in DOMAIN own /\ TopFrame = frames[n] /\ frames[n] \in AllFrames /\ own[n].scopes = Len(locals)
  BY <1>1, <1>2, <1>3, FramesFacts
<1>5. CurrScope = locals[own[n].scopes]
  BY <1>1, <1>2, <1>4, CurrScopeTyped
<1>6. FrameFits(own, n)
  BY <1>2, <1>4 DEF NamesFit
<1> QED BY <1>4, <1>5, <1>6 DEF FrameFits, FrameKnows

\* A store through what was found before the expression was compiled.
LEMMA StoredThrough ==
  ASSUME NEW id \in Int, NEW name \in Names, NEW scope, FiledLocal(scope, name, id), NEW here,
         NEW moved \in BOOLEAN, NEW used, used \in IF moved THEN {id, 0} ELSE {id}, NEW inst,
         inst = [Inst("store_local", 0, used, name) EXCEPT !.info = IF moved THEN "moved" ELSE @]
  PROVE  inst \in AllInsts /\ PlainFits(inst, scope, here)
<1>1. PICK info : info = IF moved THEN "moved" ELSE "good"
  OBVIOUS
<1>2. inst = [op |-> "store_local", flag |-> 0, wide |-> used, for |-> name, info |-> info]
  BY <1>1 DEF Inst
<1>3. used \in Int /\ (info = "good" => FiledLocal(scope, name, used)) /\ info \in {"good", "moved", "overwritten"}
  <2>1. CASE moved
    BY <1>1, <2>1
  <2>2. CASE ~ moved
    BY <1>1, <2>2
  <2> QED BY <2>1, <2>2
<1>4. "store_local" \in NameOps
  BY DEF NameOps
<1>5. inst \in AllInsts
  BY <1>2, <1>3, <1>4, InstTyped
<1>6. PlainFits(inst, scope, here)
  BY <1>2, <1>3, <1>4, FitsName
<1> QED BY <1>5, <1>6

LEMMA StoresThrough ==
  ASSUME NEW id \in Int, NEW name \in Names, NEW scope, FiledLocal(scope, name, id), NEW here, here = chunk_idx,
         StoreThrough(id, name)
  PROVE  \E insts \in Seq(AllInsts) :
           /\ chunks' = [chunks EXCEPT ![here].code = @ \o insts]
           /\ \A k \in DOMAIN insts : PlainFits(insts[k], scope, here)
<1>1. PICK used \in IdThrough(id) :
        Emit(<<[Inst("store_local", 0, used, name) EXCEPT !.info = IF Moved THEN "moved" ELSE @]>>)
  BY DEF StoreThrough
<1>2. PICK moved : moved = (CurrScope.capacity # TopFrame.capacity)
  OBVIOUS
<1>3. moved \in BOOLEAN /\ used \in IF moved THEN {id, 0} ELSE {id}
  BY <1>1, <1>2 DEF IdThrough, Moved
<1>4. PICK inst : inst = [Inst("store_local", 0, used, name) EXCEPT !.info = IF moved THEN "moved" ELSE @]
  OBVIOUS
<1>5. inst \in AllInsts /\ PlainFits(inst, scope, here)
  BY <1>3, <1>4, StoredThrough
<1>6. PICK insts : insts = <<inst>>
  OBVIOUS
<1>7. insts \in Seq(AllInsts) /\ \A k \in DOMAIN insts : insts[k] = inst
  BY <1>5, <1>6, OneInst
<1>8. chunks' = [chunks EXCEPT ![here].code = @ \o insts]
  BY <1>1, <1>2, <1>4, <1>6 DEF Emit, Moved
<1>9. \A k \in DOMAIN insts : PlainFits(insts[k], scope, here)
  BY <1>5, <1>7
<1> QED BY <1>7, <1>8, <1>9

LEMMA VarsEndStep ==
  ASSUME ScopesIInv, end_vars
  PROVE  ScopesIInv'
<1>1. status = "parsing" /\ TopFrame.fn = "do_vars"
  BY DEF end_vars, In, At
<1>2. PICK here : here = chunk_idx
  OBVIOUS
<1>3. /\ StoreThrough(TopFrame.id, TopFrame.name) /\ ReturnFrame /\ chunk_idx' = here /\ strings' = strings
      /\ globals' = globals /\ locals' = locals /\ loops' = loops /\ saved_info' = saved_info /\ status' = status
  BY <1>2 DEF end_vars, scopeVars
<1>4. PICK frame : frame = TopFrame
  OBVIOUS
<1>5. PICK scope : scope = CurrScope
  OBVIOUS
<1>6. frame \in AllFrames /\ FrameKnows(scope, frame)
  BY <1>1, <1>4, <1>5, TopKnows
<1>7. frame.fn = "do_vars" /\ FiledLocal(scope, frame.name, frame.id)
  BY <1>1, <1>4, <1>6 DEF FrameKnows
<1>8. frame \in VarsFrames
  BY <1>6, <1>7 DEF AllFrames, PlainFrames, FuncFrames, LambdaFrames, VarsFrames, ExprFrames, WhileFrames, ForFrames
<1>9. frame.id \in Int /\ frame.name \in Names
  BY <1>8 DEF VarsFrames
<1>10. StoreThrough(frame.id, frame.name)
  BY <1>3, <1>4
<1>11. PICK insts \in Seq(AllInsts) :
         /\ chunks' = [chunks EXCEPT ![here].code = @ \o insts]
         /\ \A k \in DOMAIN insts : PlainFits(insts[k], scope, here)
  <2>1. PICK id, name : id = frame.id /\ name = frame.name
    OBVIOUS
  <2>2. StoreThrough(id, name) /\ id \in Int /\ name \in Names /\ FiledLocal(scope, name, id)
    BY <1>7, <1>9, <1>10, <2>1
  <2> QED BY <1>2, <2>2, StoresThrough
<1>12. MoreLocals(scope) /\ locals' = [locals EXCEPT ![Len(locals)] = scope]
  BY <1>1, <1>3, <1>5, SameScope
<1>13. TopFrame.fn \notin {"do_source"} \cup FunctionFns \cup LoopFns
  BY <1>1 DEF FunctionFns, LoopFns
<1> QED BY <1>1, <1>2, <1>3, <1>11, <1>12, <1>13, ReturnStep

LEMMA ExprEndStep ==
  ASSUME ScopesIInv, end_expr_stmt
  PROVE  ScopesIInv'
<1>1. status = "parsing" /\ TopFrame.fn = "do_expr_stmt"
  BY DEF end_expr_stmt, In, At
<1>2. CASE TopFrame.dest = "func"
  BY <1>2, FailStep DEF end_expr_stmt
<1>3. CASE TopFrame.dest # "func"
  <2>1. PICK here : here = chunk_idx
    OBVIOUS
  <2>2. PICK frame : frame = TopFrame
    OBVIOUS
  <2>3. PICK inst : inst = [Inst(StoreOf[frame.dest], 0, saved_info.id, frame.info.name)
                             EXCEPT !.info = IF saved_info = frame.info THEN @ ELSE "overwritten"]
    OBVIOUS
  <2>4. /\ IF frame.dest = "none" THEN chunks' = chunks ELSE Emit(<<inst>>)
        /\ ReturnFrame /\ chunk_idx' = here /\ strings' = strings
        /\ globals' = globals /\ locals' = locals /\ loops' = loops /\ saved_info' = saved_info /\ status' = status
    BY <1>3, <2>1, <2>2, <2>3 DEF end_expr_stmt, scopeVars
  <2>5. PICK scope : scope = CurrScope
    OBVIOUS
  <2>6. frame \in AllFrames /\ FrameKnows(scope, frame)
    BY <1>1, <2>2, <2>5, TopKnows
  <2>7. frame.fn = "do_expr_stmt" /\ frame.dest # "func"
    BY <1>1, <1>3, <2>2
  <2>8. frame \in ExprFrames
    BY <2>6, <2>7 DEF AllFrames, PlainFrames, FuncFrames, LambdaFrames, VarsFrames, ExprFrames, WhileFrames, ForFrames
  <2>9. MoreLocals(scope) /\ locals' = [locals EXCEPT ![Len(locals)] = scope]
    BY <1>1, <2>4, <2>5, SameScope
  <2>10. ScopesTypeOK
    BY DEF ScopesIInv
  <2>11. \E insts \in Seq(AllInsts) :
           /\ chunks' = [chunks EXCEPT ![here].code = @ \o insts]
           /\ \A k \in DOMAIN insts : PlainFits(insts[k], scope, here)
    <3>1. CASE frame.dest = "none"
      <4>1. PICK insts : insts = <<>>
        OBVIOUS
      <4>2. insts \in Seq(AllInsts) /\ chunks' = [chunks EXCEPT ![here].code = @ \o insts] /\ DOMAIN insts = {}
        BY <2>1, <2>4, <2>10, <3>1, <4>1, NothingEmitted
      <4>3. \A k \in DOMAIN insts : PlainFits(insts[k], scope, here)
        BY <4>2
      <4> QED BY <4>2, <4>3
    <3>2. CASE frame.dest # "none"
      <4>1. frame.dest \in {"local", "upval"}
        BY <2>7, <2>8, <3>2 DEF ExprFrames
      <4>2. frame.info # NoInfo /\ frame.dest = frame.info.domain /\ Filed(scope, frame.info)
        BY <2>6, <2>7, <4>1 DEF FrameKnows
      <4>3. frame.info \in Resolved
        BY <2>8, <4>2 DEF ExprFrames
      <4>4. PICK info : info = frame.info
        OBVIOUS
      <4>5. PICK word : word = IF saved_info = info THEN "good" ELSE "overwritten"
        OBVIOUS
      <4>6. PICK op : op = StoreOf[frame.dest]
        OBVIOUS
      <4>7. inst = [op |-> op, flag |-> 0, wide |-> saved_info.id, for |-> info.name, info |-> word]
        BY <2>3, <4>4, <4>5, <4>6 DEF Inst
      <4>8. saved_info.id \in Int
        BY <2>10 DEF ScopesTypeOK, Resolved, LocalInfos, UpvalInfos, FuncInfos, NoInfo
      <4>9. info.name \in Names
        BY <4>3, <4>4 DEF Resolved, LocalInfos, UpvalInfos, FuncInfos
      <4>10. op \in NameOps /\ op \in {"store_local", "set_upv"} /\ (op = "store_local" => frame.dest = "local")
             /\ (op = "set_upv" => frame.dest = "upval")
        BY <4>1, <4>6 DEF StoreOf, NameOps
      <4>11. word = "good" => saved_info = info
        BY <4>5
      <4>12. frame.dest = "local" => FiledLocal(scope, info.name, info.id)
        <5>1. ASSUME frame.dest = "local" PROVE info = make_symbol_info(info.name, info.id, "local")
          BY <4>2, <4>3, <4>4, <5>1 DEF Resolved, LocalInfos, UpvalInfos, FuncInfos, make_symbol_info
        <5> QED BY <4>2, <4>4, <5>1 DEF FiledLocal
      <4>13. frame.dest = "upval" => Holds(chunks[here].captures, info.id, info.name)
        <5>1. ASSUME frame.dest = "upval" PROVE info \in UpvalInfos
          BY <4>2, <4>3, <4>4, <5>1 DEF Resolved, LocalInfos, UpvalInfos, FuncInfos
        <5>2. ScopeFits(scope, here)
          <6>1. PICK own \in Seq(Owners) : Compiling(own) /\ Nested(own)
            BY <1>1, Parsing
          <6> QED BY <2>1, <2>5, <2>10, <6>1, CurrScopeFits
        <5> QED BY <4>2, <4>4, <5>1, <5>2, FiledCapture
      <4>14. inst \in AllInsts
        <5>1. word \in {"good", "moved", "overwritten"}
          BY <4>5
        <5> QED BY <4>7, <4>8, <4>9, <4>10, <5>1, InstTyped
      <4>15. PlainFits(inst, scope, here)
        <5>1. /\ op \in {"load_local", "store_local", "bind_lstmp"} /\ word = "good" =>
                   FiledLocal(scope, info.name, saved_info.id)
              /\ op \in {"get_upv", "set_upv"} /\ word = "good" =>
                   Holds(chunks[here].captures, saved_info.id, info.name)
          BY <4>10, <4>11, <4>12, <4>13
        <5> QED BY <4>7, <4>10, <5>1, FitsName
      <4>16. PICK insts : insts = <<inst>>
        OBVIOUS
      <4>17. insts \in Seq(AllInsts) /\ \A k \in DOMAIN insts : insts[k] = inst
        BY <4>14, <4>16, OneInst
      <4>18. chunks' = [chunks EXCEPT ![here].code = @ \o insts]
        BY <2>1, <2>4, <3>2, <4>16 DEF Emit
      <4>19. \A k \in DOMAIN insts : PlainFits(insts[k], scope, here)
        BY <4>15, <4>17
      <4> QED BY <4>17, <4>18, <4>19
    <3> QED BY <3>1, <3>2
  <2>12. PICK insts \in Seq(AllInsts) :
           /\ chunks' = [chunks EXCEPT ![here].code = @ \o insts]
           /\ \A k \in DOMAIN insts : PlainFits(insts[k], scope, here)
    BY <2>11
  <2>13. TopFrame.fn \notin {"do_source"} \cup FunctionFns \cup LoopFns
    BY <1>1 DEF FunctionFns, LoopFns
  <2> QED BY <1>1, <2>1, <2>4, <2>9, <2>12, <2>13, ReturnStep
<1> QED BY <1>2, <1>3

\* Lists of names.
LEMMA NamesListed ==
  ASSUME NEW names \in NameLists
  PROVE  names \in Seq(Names)
<1>1. PICK n \in 0 .. HeaderNames : names \in [1 .. n -> Names]
  BY DEF NameLists
<1>2. n \in Nat
  BY <1>1
<1> QED BY <1>1, <1>2

LEMMA BindingEndStep ==
  ASSUME ScopesIInv, end_binding
  PROVE  ScopesIInv'
<1>1. status = "parsing" /\ TopFrame.fn = "do_binding" /\ ScopesTypeOK
  BY DEF ScopesIInv, end_binding, In, At
<1>2. PICK here : here = chunk_idx
  OBVIOUS
<1>3. /\ ReturnFrame /\ chunk_idx' = here /\ strings' = strings
      /\ globals' = globals /\ loops' = loops /\ saved_info' = saved_info /\ status' = status
  BY <1>2 DEF end_binding
<1>4. PICK names \in NameLists :
        /\ UpdateScope(WithLocals(CurrScope, names))
        /\ Emit(Append([k \in DOMAIN names |->
                          Inst("bind_lstmp", k - 1, SlotOf(WithLocals(CurrScope, names), names[k]), names[k])],
                       Plain("pop", 1, 0)))
  BY DEF end_binding
<1>5. PICK scope : scope = WithLocals(CurrScope, names)
  OBVIOUS
<1>6. PICK binds : binds = [k \in DOMAIN names |-> Inst("bind_lstmp", k - 1, SlotOf(scope, names[k]), names[k])]
  OBVIOUS
<1>7. PICK pop : pop = Plain("pop", 1, 0)
  OBVIOUS
<1>8. PICK insts : insts = Append(binds, pop)
  OBVIOUS
<1>9. /\ locals' = [locals EXCEPT ![Len(locals)] = scope]
      /\ chunks' = [chunks EXCEPT ![here].code = @ \o insts]
  BY <1>2, <1>4, <1>5, <1>6, <1>7, <1>8 DEF UpdateScope, Emit
<1>10. names \in Seq(Names)
  BY NamesListed
<1>11. PICK own \in Seq(Owners) : Compiling(own) /\ Nested(own)
  BY <1>1, Parsing
<1>12. CurrScope \in ScopeRecs /\ LocalsFit(CurrScope)
  BY <1>1, <1>11, CurrScopeTyped, CurrScopeFits DEF ScopeFits
<1>13. /\ scope \in ScopeRecs /\ LocalsFit(scope) /\ Listed(CurrScope, scope, names, Len(names))
       /\ \A k \in DOMAIN names : SlotOf(scope, names[k]) \in Nat /\ FiledLocal(scope, names[k], SlotOf(scope, names[k]))
  BY <1>5, <1>10, <1>12, RecordsLocals
<1>14. MoreLocals(scope)
  BY <1>13 DEF MoreLocals, Listed
<1>15. ASSUME NEW k \in DOMAIN binds
       PROVE  binds[k] \in AllInsts /\ PlainFits(binds[k], scope, here)
  <2>1. k \in DOMAIN names /\ binds[k] = Inst("bind_lstmp", k - 1, SlotOf(scope, names[k]), names[k])
    BY <1>6, <1>15
  <2>2. PICK flag, wide, name : flag = k - 1 /\ wide = SlotOf(scope, names[k]) /\ name = names[k]
    OBVIOUS
  <2>3. flag \in Int /\ wide \in Int /\ name \in Names /\ FiledLocal(scope, name, wide)
    BY <1>10, <1>13, <2>1, <2>2
  <2>4. PICK inst : inst = [op |-> "bind_lstmp", flag |-> flag, wide |-> wide, for |-> name, info |-> "good"]
    OBVIOUS
  <2>5. binds[k] = inst
    BY <2>1, <2>2, <2>4 DEF Inst
  <2>6. "bind_lstmp" \in NameOps
    BY DEF NameOps
  <2>7. inst \in AllInsts
    BY <2>3, <2>4, <2>6, InstTyped
  <2>8. PlainFits(inst, scope, here)
    BY <2>3, <2>4, <2>6, FitsName
  <2> QED BY <2>5, <2>7, <2>8
<1>16. pop \in AllInsts /\ PlainFits(pop, scope, here)
  <2>1. pop \in Insts({"reserve", "nop", "pop", "mk_closure", "load_imm_gid"}, {"none"})
    BY <1>7 DEF Plain, Inst, Insts
  <2>2. PlainFits(pop, scope, here)
    BY <1>7 DEF Plain, Inst, PlainFits, OfUpval, OfSlot
  <2> QED BY <2>1, <2>2 DEF AllInsts
<1>17. binds \in Seq(AllInsts)
  <2>1. DOMAIN binds = 1 .. Len(names) /\ Len(names) \in Nat
    BY <1>6, <1>10
  <2>2. binds \in [1 .. Len(names) -> AllInsts]
    BY <1>6, <1>15, <2>1
  <2> QED BY <2>1, <2>2
<1>18. insts \in Seq(AllInsts) /\ \A k \in DOMAIN insts : (k \in DOMAIN binds /\ insts[k] = binds[k]) \/ insts[k] = pop
  BY <1>8, <1>16, <1>17
<1>19. \A k \in DOMAIN insts : PlainFits(insts[k], scope, here)
  BY <1>15, <1>16, <1>18
<1>20. TopFrame.fn \notin {"do_source"} \cup FunctionFns \cup LoopFns
  BY <1>1 DEF FunctionFns, LoopFns
<1> QED BY <1>1, <1>2, <1>3, <1>9, <1>14, <1>18, <1>19, <1>20, ReturnStep

LEMMA VarsStep ==
  ASSUME ScopesIInv, compiler_do_vars
  PROVE  ScopesIInv'
<1>1. status = "parsing" /\ TopFrame.at \in {"block", "body", "update"} /\ ScopesTypeOK
  BY DEF ScopesIInv, compiler_do_vars, AtStatement, At
<1>2. PICK here : here = chunk_idx
  OBVIOUS
<1>3. PICK name \in Names :
        /\ UpdateScope(compiler_record_local(CurrScope, name))
        /\ Begin([fn |-> "do_vars", at |-> "value", name |-> name,
                  id |-> SlotOf(compiler_record_local(CurrScope, name), name),
                  capacity |-> compiler_record_local(CurrScope, name).capacity])
  BY DEF compiler_do_vars
<1>4. /\ chunks' = chunks /\ chunk_idx' = here /\ strings' = strings /\ globals' = globals /\ loops' = loops
      /\ saved_info' = saved_info /\ status' = status
  BY <1>2 DEF compiler_do_vars, programVars
<1>5. PICK scope : scope = compiler_record_local(CurrScope, name)
  OBVIOUS
<1>6. PICK frame : frame = [fn |-> "do_vars", at |-> "value", name |-> name, id |-> SlotOf(scope, name),
                            capacity |-> scope.capacity]
  OBVIOUS
<1>7. locals' = [locals EXCEPT ![Len(locals)] = scope] /\ frames' = Append(Past, frame)
  BY <1>3, <1>5, <1>6 DEF UpdateScope, Begin
<1>8. PICK own \in Seq(Owners) : Compiling(own) /\ Nested(own)
  BY <1>1, Parsing
<1>9. CurrScope \in ScopeRecs /\ LocalsFit(CurrScope)
  BY <1>1, <1>8, CurrScopeTyped, CurrScopeFits DEF ScopeFits
<1>10. Recorded(CurrScope, scope, name)
  BY <1>5, <1>9, RecordedLocal
<1>11. MoreLocals(scope)
  BY <1>10 DEF MoreLocals, Recorded
<1>12. SlotOf(scope, name) \in Nat /\ FiledLocal(scope, name, SlotOf(scope, name)) /\ scope.capacity \in Nat
  <2>1. \E i \in DOMAIN scope.infos : scope.infos[i].domain = "local" /\ scope.infos[i].name = name
    BY <1>10 DEF Recorded
  <2>2. scope \in ScopeRecs
    BY <1>10 DEF Recorded
  <2> QED BY <2>1, <2>2, SlotIsFiled DEF ScopeRecs
<1>13. frame \in VarsFrames
  BY <1>6, <1>12 DEF VarsFrames, Places
<1>14. frame \in AllFrames
  BY <1>13 DEF AllFrames
<1>15. FrameKnows(scope, frame)
  BY <1>6, <1>12 DEF FrameKnows
<1>16. /\ frame.fn \notin {"do_source", "do_lambda", "do_func"} /\ frame.fn \notin LoopFns
  BY <1>6 DEF LoopFns
<1>17. saved_info' \in Resolved \cup {NoInfo}
  BY <1>1, <1>4 DEF ScopesTypeOK
<1>18. loops' = IF frame.fn \in LoopFns THEN Append(loops, NoJumps) ELSE loops
  BY <1>4, <1>16
<1> QED BY <1>1, <1>2, <1>4, <1>7, <1>11, <1>14, <1>15, <1>16, <1>17, <1>18, BeginStep

\* The same, where the table and the strings are left alone.
LEMMA BeginAlone ==
  ASSUME ScopesIInv, status = "parsing", TopFrame.at \in {"block", "body", "update"},
         NEW frame \in AllFrames, frame.fn \notin {"do_source", "do_lambda", "do_func"}, Begin(frame),
         UNCHANGED <<programVars, globals, locals, status>>, saved_info' \in Resolved \cup {NoInfo},
         NEW scope, scope = CurrScope, FrameKnows(scope, frame),
         loops' = IF frame.fn \in LoopFns THEN Append(loops, NoJumps) ELSE loops,
         NEW here, here = chunk_idx, frame.fn \in LoopFns => BeginsLoop(frame, here)
  PROVE  ScopesIInv'
<1>1. /\ chunks' = chunks /\ chunk_idx' = here /\ strings' = strings /\ globals' = globals
      /\ locals' = locals /\ status' = status /\ frames' = Append(Past, frame)
  BY DEF programVars, Begin
<1>2. MoreLocals(scope) /\ locals' = [locals EXCEPT ![Len(locals)] = scope]
  BY <1>1, SameScope
<1> QED BY <1>1, <1>2, BeginStep

LEMMA ExprStep ==
  ASSUME ScopesIInv, compiler_do_expr_stmt
  PROVE  ScopesIInv'
<1>1. status = "parsing" /\ TopFrame.at \in {"block", "body", "update"} /\ ScopesTypeOK
  BY DEF ScopesIInv, compiler_do_expr_stmt, AtStatement, At
<1>2. PICK frame : frame = [fn |-> "do_expr_stmt", at |-> "value", dest |-> "none", info |-> NoInfo]
  OBVIOUS
<1>3. frame \in ExprFrames
  BY <1>2 DEF ExprFrames, Places
<1>4. frame \in AllFrames
  BY <1>3 DEF AllFrames
<1>5. Begin(frame) /\ UNCHANGED <<programVars, globals, locals, status>> /\ saved_info' = saved_info /\ loops' = loops
  BY <1>2 DEF compiler_do_expr_stmt, scopeVars
<1>6. PICK scope, here : scope = CurrScope /\ here = chunk_idx
  OBVIOUS
<1>7. frame.fn \notin {"do_source", "do_lambda", "do_func"} /\ frame.fn \notin LoopFns /\ FrameKnows(scope, frame)
  BY <1>2 DEF LoopFns, FrameKnows
<1>8. saved_info' \in Resolved \cup {NoInfo}
  BY <1>1, <1>5 DEF ScopesTypeOK
<1>9. loops' = IF frame.fn \in LoopFns THEN Append(loops, NoJumps) ELSE loops
  BY <1>5, <1>7
<1> QED BY <1>1, <1>4, <1>5, <1>6, <1>7, <1>8, <1>9, BeginAlone

LEMMA BindingStep ==
  ASSUME ScopesIInv, compiler_do_binding
  PROVE  ScopesIInv'
<1>1. status = "parsing" /\ TopFrame.at \in {"block", "body", "update"} /\ ScopesTypeOK
  BY DEF ScopesIInv, compiler_do_binding, AtStatement, At
<1>2. PICK frame : frame = [fn |-> "do_binding", at |-> "value"]
  OBVIOUS
<1>3. frame \in PlainFrames
  BY <1>2 DEF PlainFrames, Places
<1>4. frame \in AllFrames
  BY <1>3 DEF AllFrames
<1>5. Begin(frame) /\ UNCHANGED <<programVars, globals, locals, status>> /\ saved_info' = saved_info /\ loops' = loops
  BY <1>2 DEF compiler_do_binding, scopeVars, Frame
<1>6. PICK scope, here : scope = CurrScope /\ here = chunk_idx
  OBVIOUS
<1>7. frame.fn \notin {"do_source", "do_lambda", "do_func"} /\ frame.fn \notin LoopFns /\ FrameKnows(scope, frame)
  BY <1>2 DEF LoopFns, FrameKnows
<1>8. saved_info' \in Resolved \cup {NoInfo}
  BY <1>1, <1>5 DEF ScopesTypeOK
<1>9. loops' = IF frame.fn \in LoopFns THEN Append(loops, NoJumps) ELSE loops
  BY <1>5, <1>7
<1> QED BY <1>1, <1>4, <1>5, <1>6, <1>7, <1>8, <1>9, BeginAlone

\* The name of an assignment and of a counter.
LEMMA NameResolved ==
  ASSUME ScopesIInv, status = "parsing", NEW name \in Names, NEW info, info = compiler_resolve_name(name)
  PROVE  /\ info \in Resolved \cup {NoInfo}
         /\ info # NoInfo => info \in Resolved /\ info.domain \in {"local", "upval", "func"}
         /\ info # NoInfo /\ info.domain \in {"local", "upval"} => Filed(CurrScope, info)
<1>1. ScopesTypeOK
  BY Parsing
<1>2. PICK own \in Seq(Owners) : Compiling(own) /\ Nested(own)
  BY Parsing
<1>3. CurrScope \in ScopeRecs /\ globals \in Seq(FuncInfos \cup StringInfos)
  BY <1>1, <1>2, CurrScopeTyped DEF ScopesTypeOK
<1>4. ASSUME info # NoInfo
      PROVE  info \in Resolved /\ (info.domain \in {"local", "upval"} => Filed(CurrScope, info))
  BY <1>3, <1>4, ResolvedName
<1> QED BY <1>4 DEF Resolved, LocalInfos, UpvalInfos, FuncInfos

LEMMA AssignmentStep ==
  ASSUME ScopesIInv, compiler_do_assignment
  PROVE  ScopesIInv'
<1>1. status = "parsing" /\ TopFrame.at \in {"block", "body", "update"} /\ ScopesTypeOK
  BY DEF ScopesIInv, compiler_do_assignment, AtStatement, At
<1>2. PICK name \in Names :
        LET info == compiler_resolve_name(name)
        IN IF info = NoInfo THEN Fail("dead") /\ NewPart
           ELSE /\ saved_info' = IF info.domain = "func" THEN saved_info ELSE info
                /\ Begin([fn |-> "do_expr_stmt", at |-> "value", dest |-> info.domain, info |-> info])
                /\ UNCHANGED <<programVars, globals, locals, loops, status>>
  BY DEF compiler_do_assignment
<1>3. PICK info : info = compiler_resolve_name(name)
  OBVIOUS
<1>4. CASE info = NoInfo
  BY <1>2, <1>3, <1>4, FailStep
<1>5. CASE info # NoInfo
  <2>1. PICK frame : frame = [fn |-> "do_expr_stmt", at |-> "value", dest |-> info.domain, info |-> info]
    OBVIOUS
  <2>2. /\ saved_info' = IF info.domain = "func" THEN saved_info ELSE info
        /\ Begin(frame) /\ UNCHANGED <<programVars, globals, locals, status>> /\ loops' = loops
    BY <1>2, <1>3, <1>5, <2>1
  <2>3. PICK scope, here : scope = CurrScope /\ here = chunk_idx
    OBVIOUS
  <2>4. /\ info \in Resolved /\ info.domain \in {"local", "upval", "func"}
        /\ info.domain \in {"local", "upval"} => Filed(scope, info)
    BY <1>1, <1>3, <1>5, <2>3, NameResolved
  <2>5. frame \in ExprFrames
    BY <2>1, <2>4 DEF ExprFrames, Places
  <2>6. frame \in AllFrames
    BY <2>5 DEF AllFrames
  <2>7. frame.fn \notin {"do_source", "do_lambda", "do_func"} /\ frame.fn \notin LoopFns
    BY <2>1 DEF LoopFns
  <2>8. FrameKnows(scope, frame)
    BY <1>5, <2>1, <2>4 DEF FrameKnows
  <2>9. saved_info' \in Resolved \cup {NoInfo}
    BY <1>1, <2>2, <2>4 DEF ScopesTypeOK
  <2>10. loops' = IF frame.fn \in LoopFns THEN Append(loops, NoJumps) ELSE loops
    BY <2>2, <2>7
  <2> QED BY <1>1, <2>2, <2>3, <2>6, <2>7, <2>8, <2>9, <2>10, BeginAlone
<1> QED BY <1>4, <1>5

LEMMA HereIsNatural ==
  ASSUME ScopesTypeOK
  PROVE  chunk_idx \in Nat /\ Here \in Nat /\ Here = Len(chunks[chunk_idx].code)
<1>1. chunk_idx \in DOMAIN chunks /\ chunks \in Seq(ChunkRecs)
  BY DEF ScopesTypeOK
<1>2. chunks[chunk_idx].code \in Seq(AllInsts)
  BY <1>1, ChunkTyped
<1> QED BY <1>1, <1>2 DEF Here, Code

LEMMA WhileStep ==
  ASSUME ScopesIInv, compiler_do_while
  PROVE  ScopesIInv'
<1>1. status = "parsing" /\ TopFrame.at \in {"block", "body", "update"} /\ ScopesTypeOK
  BY DEF ScopesIInv, compiler_do_while, AtStatement, At
<1>2. PICK frame : frame = [fn |-> "do_while", at |-> "value", check |-> Here, out |-> 0,
                            loop |-> [chunk |-> chunk_idx, begin |-> Here]]
  OBVIOUS
<1>3. chunk_idx \in Nat /\ Here \in Nat /\ Here = Len(chunks[chunk_idx].code)
  BY <1>1, HereIsNatural
<1>4. frame \in WhileFrames
  BY <1>2, <1>3 DEF WhileFrames, Places, LoopIds
<1>5. frame \in AllFrames
  BY <1>4 DEF AllFrames
<1>6. Begin(frame) /\ UNCHANGED <<programVars, globals, locals, status>> /\ saved_info' = saved_info /\ loops' = Append(loops, NoJumps)
  BY <1>2 DEF compiler_do_while, compiler_enter_loop
<1>7. PICK scope, here : scope = CurrScope /\ here = chunk_idx
  OBVIOUS
<1>8. frame.fn \notin {"do_source", "do_lambda", "do_func"} /\ frame.fn \in LoopFns /\ FrameKnows(scope, frame)
  BY <1>2 DEF LoopFns, FrameKnows
<1>9. BeginsLoop(frame, here)
  BY <1>2, <1>3, <1>7 DEF BeginsLoop
<1>10. saved_info' \in Resolved \cup {NoInfo}
  BY <1>1, <1>6 DEF ScopesTypeOK
<1>11. loops' = IF frame.fn \in LoopFns THEN Append(loops, NoJumps) ELSE loops
  BY <1>6, <1>8
<1> QED BY <1>1, <1>5, <1>6, <1>7, <1>8, <1>9, <1>10, <1>11, BeginAlone

LEMMA ForStep ==
  ASSUME ScopesIInv, compiler_do_for
  PROVE  ScopesIInv'
<1>1. status = "parsing" /\ TopFrame.at \in {"block", "body", "update"} /\ ScopesTypeOK
  BY DEF ScopesIInv, compiler_do_for, AtStatement, At
<1>2. PICK name \in Names :
       Begin([fn |-> "do_for", at |-> "value", part |-> "counter", info |-> compiler_resolve_name(name),
              capacity |-> CurrScope.capacity, begin |-> 0, out |-> 0,
              loop |-> [chunk |-> chunk_idx, begin |-> Here]])
  BY DEF compiler_do_for
<1>3. PICK info : info = compiler_resolve_name(name)
  OBVIOUS
<1>4. PICK scope, here : scope = CurrScope /\ here = chunk_idx
  OBVIOUS
<1>5. PICK frame : frame = [fn |-> "do_for", at |-> "value", part |-> "counter", info |-> info,
              capacity |-> scope.capacity, begin |-> 0, out |-> 0,
              loop |-> [chunk |-> chunk_idx, begin |-> Here]]
  OBVIOUS
<1>6. Begin(frame) /\ UNCHANGED <<programVars, globals, locals, status>> /\ saved_info' = saved_info /\ loops' = Append(loops, NoJumps)
  BY <1>2, <1>3, <1>4, <1>5 DEF compiler_do_for, compiler_enter_loop
<1>7. chunk_idx \in Nat /\ Here \in Nat /\ Here = Len(chunks[chunk_idx].code)
  BY <1>1, HereIsNatural
<1>8. scope.capacity \in Nat
  <2>1. PICK own \in Seq(Owners) : Compiling(own) /\ Nested(own)
    BY <1>1, Parsing
  <2> QED BY <1>1, <1>4, <2>1, CurrScopeTyped DEF ScopeRecs
<1>9. /\ info \in Resolved \cup {NoInfo}
      /\ info # NoInfo /\ info.domain \in {"local", "upval"} => Filed(scope, info)
  BY <1>1, <1>3, <1>4, NameResolved
<1>10. frame \in ForFrames
  BY <1>5, <1>7, <1>8, <1>9 DEF ForFrames, Places, LoopIds
<1>11. frame \in AllFrames
  BY <1>10 DEF AllFrames
<1>12. frame.fn \notin {"do_source", "do_lambda", "do_func"} /\ frame.fn \in LoopFns
  BY <1>5 DEF LoopFns
<1>13. FrameKnows(scope, frame)
  BY <1>5, <1>9 DEF FrameKnows
<1>14. BeginsLoop(frame, here)
  BY <1>4, <1>5, <1>7 DEF BeginsLoop
<1>15. saved_info' \in Resolved \cup {NoInfo}
  BY <1>1, <1>6 DEF ScopesTypeOK
<1>16. loops' = IF frame.fn \in LoopFns THEN Append(loops, NoJumps) ELSE loops
  BY <1>6, <1>12
<1> QED BY <1>1, <1>4, <1>6, <1>11, <1>12, <1>13, <1>14, <1>15, <1>16, BeginAlone

TopBecomes(top) == frames' = [frames EXCEPT ![Len(frames)] = top]

\* The top call goes on after plain instructions.
LEMMA MoveStep ==
  ASSUME ScopesIInv, status = "parsing", NEW top \in AllFrames, SameFrame(TopFrame, top), SameLoop(TopFrame, top),
         TopBecomes(top), NEW here, here = chunk_idx,
         chunk_idx' = here, NEW insts \in Seq(AllInsts), chunks' = [chunks EXCEPT ![here].code = @ \o insts],
         NEW scope, MoreLocals(scope), locals' = [locals EXCEPT ![Len(locals)] = scope],
         \A k \in DOMAIN insts : PlainFits(insts[k], scope, here),
         strings' = strings, globals' = globals, loops' = loops, saved_info' = saved_info, status' = status
  PROVE  ScopesIInv'
<1>1. ScopesTypeOK
  BY Parsing
<1>2. PICK own \in Seq(Owners) : Compiling(own) /\ Nested(own) /\ NamesFit(own)
  BY Parsing
<1>3. DOMAIN chunks' = DOMAIN chunks
  BY <1>1, EmittedAlone DEF IsEmitted
<1>4. PICK n : n = Len(frames)
  OBVIOUS
<1>5. Len(locals') = Len(locals)
  BY <1>1, <1>2, TheScopeGrows DEF MoreLocals
<1>6. /\ Nested(own)' /\ frames' \in Seq(AllFrames) /\ n \in DOMAIN own \cap DOMAIN own /\ Len(own) = n
      /\ Continues(own, own, n) /\ \A i \in 1 .. n : SameLoop(frames[i], frames'[i])
  BY <1>1, <1>2, <1>3, <1>4, <1>5, MovesOn DEF TopBecomes
<1>7. n \in Nat /\ n # n + 1
  BY <1>1, <1>2, <1>4, FramesFacts
<1>8. /\ saved_info' \in Resolved \cup {NoInfo} /\ status' \in {"parsing", "done", "dead", "crashed"}
      /\ loops' \in Seq(LoopRecs)
  BY <1>1 DEF ScopesTypeOK
<1>9. \A k \in DOMAIN loops : loops'[k] = loops[k]
  OBVIOUS
<1>10. PICK own2 : own2 = own
  OBVIOUS
<1>11. /\ Nested(own2)' /\ n \in DOMAIN own \cap DOMAIN own2 /\ Len(own2) = n /\ Continues(own, own2, n)
  <2>1. Nested(own)' /\ own2 = own
    BY <1>6, <1>10
  <2> QED BY <1>6, <1>10
<1>12. \A i \in 1 .. n : SameLoop(frames[i], frames'[i])
  BY <1>6
<1>13. frames' \in Seq(AllFrames)
  BY <1>6
<1>14. StringsFit' /\ StringsGrow /\ globals' \in Seq(FuncInfos \cup StringInfos) /\ strings' \in Seq(Contents)
  BY SameStrings
<1> QED BY <1>2, <1>7, <1>8, <1>9, <1>11, <1>12, <1>13, <1>14, PlainStep

LEMMA TopIsFor ==
  ASSUME NEW frame \in AllFrames, frame.fn = "do_for"
  PROVE  frame \in ForFrames
BY DEF AllFrames, PlainFrames, FuncFrames, LambdaFrames, VarsFrames, ExprFrames, WhileFrames, ForFrames

LEMMA TopIsWhile ==
  ASSUME NEW frame \in AllFrames, frame.fn = "do_while"
  PROVE  frame \in WhileFrames
BY DEF AllFrames, PlainFrames, FuncFrames, LambdaFrames, VarsFrames, ExprFrames, WhileFrames, ForFrames

LEMMA CounterStep ==
  ASSUME ScopesIInv, for_counter
  PROVE  ScopesIInv'
<1>1. status = "parsing" /\ TopFrame.fn = "do_for" /\ TopFrame.at = "then" /\ ScopesTypeOK
  BY DEF ScopesIInv, for_counter, In, At
<1>2. CASE TopFrame.info = NoInfo
  BY <1>2, FailStep DEF for_counter
<1>3. CASE TopFrame.info # NoInfo /\ TopFrame.info.domain \in {"func", "upval"}
  BY <1>3, FailStep DEF for_counter
<1>4. CASE TopFrame.info # NoInfo /\ TopFrame.info.domain \notin {"func", "upval"}
  <2>1. PICK here, scope, frame : here = chunk_idx /\ scope = CurrScope /\ frame = TopFrame
    OBVIOUS
  <2>2. /\ StoreThrough(frame.info.id, frame.info.name)
        /\ frames' = [frames EXCEPT ![Len(frames)].at = "value", ![Len(frames)].part = "condition",
                                    ![Len(frames)].begin = Here + 1]
        /\ UNCHANGED <<chunk_idx, strings, scopeVars, status>>
    BY <1>4, <2>1 DEF for_counter
  <2>3. /\ chunk_idx' = here /\ strings' = strings /\ globals' = globals /\ locals' = locals /\ loops' = loops
        /\ saved_info' = saved_info /\ status' = status
    BY <2>1, <2>2 DEF scopeVars
  <2>4. frame \in AllFrames /\ FrameKnows(scope, frame)
    BY <1>1, <2>1, TopKnows
  <2>5. frame \in ForFrames
    BY <1>1, <2>1, <2>4, TopIsFor
  <2>6. frame.info \in LocalInfos /\ Filed(scope, frame.info)
    <3>1. frame.info \in Resolved
      BY <1>4, <2>1, <2>5 DEF ForFrames
    <3>2. frame.info \in LocalInfos /\ frame.info.domain = "local"
      BY <1>4, <2>1, <3>1 DEF Resolved, LocalInfos, UpvalInfos, FuncInfos
    <3> QED BY <1>1, <1>4, <2>1, <2>4, <3>2 DEF FrameKnows
  <2>7. PICK insts \in Seq(AllInsts) :
          /\ chunks' = [chunks EXCEPT ![here].code = @ \o insts]
          /\ \A k \in DOMAIN insts : PlainFits(insts[k], scope, here)
    <3>1. PICK id, name : id = frame.info.id /\ name = frame.info.name
      OBVIOUS
    <3>2. frame.info = make_symbol_info(name, id, "local") /\ id \in Int /\ name \in Names
      BY <2>6, <3>1 DEF LocalInfos, make_symbol_info
    <3>3. StoreThrough(id, name) /\ FiledLocal(scope, name, id)
      BY <2>2, <2>6, <3>1, <3>2 DEF FiledLocal
    <3> QED BY <2>1, <3>2, <3>3, StoresThrough
  <2>8. PICK next : next = Here + 1
    OBVIOUS
  <2>9. PICK top : top = [frame EXCEPT !.at = "value", !.part = "condition", !.begin = next]
    OBVIOUS
  <2>10. next \in Nat
    BY <1>1, <2>8, HereIsNatural
  <2>11. /\ top \in ForFrames /\ top.fn = "do_for" /\ top.at = "value" /\ top.info = frame.info /\ top.loop = frame.loop
         /\ top.out = frame.out /\ frame.fn = "do_for" /\ frame.at = "then"
    BY <1>1, <2>1, <2>5, <2>9, <2>10 DEF ForFrames, Places
  <2>12. top \in AllFrames /\ SameFrame(frame, top) /\ SameLoop(frame, top)
    BY <2>11 DEF AllFrames, SameFrame, SameLoop, Settled, FunctionFns, LoopFns
  <2>13. TopBecomes(top)
    <3>1. PICK own \in Seq(Owners) : Compiling(own) /\ Nested(own)
      BY <1>1, Parsing
    <3>2. Len(frames) \in DOMAIN frames /\ TopFrame = frames[Len(frames)]
      BY <1>1, <3>1, FramesFacts
    <3> QED BY <2>1, <2>2, <2>8, <2>9, <3>2 DEF TopBecomes
  <2>14. MoreLocals(scope) /\ locals' = [locals EXCEPT ![Len(locals)] = scope]
    BY <1>1, <2>1, <2>3, SameScope
  <2>15. SameFrame(TopFrame, top) /\ SameLoop(TopFrame, top)
    BY <2>1, <2>12
  <2> QED BY <1>1, <2>1, <2>3, <2>7, <2>12, <2>13, <2>14, <2>15, MoveStep
<1> QED BY <1>2, <1>3, <1>4

\* A step to the top call's "then" that keeps the invariant where the current chunk is added to.
LEMMA ThenStep ==
  ASSUME ScopesIInv, ScopesTypeOK', status = "parsing", TopFrame.at = "value", GoTo("then"), NEW here, here = chunk_idx,
         NEW scope, AddsHere(here, scope),
         strings' = strings, globals' = globals, loops' = loops,
         \A i \in DOMAIN chunks[here].code : chunks'[here].code[i] = chunks[here].code[i],
         \A i \in DOMAIN chunks'[here].code \ DOMAIN chunks[here].code : ~ IsJump(chunks'[here].code[i])
  PROVE  ScopesIInv'
<1>1. ScopesTypeOK
  BY Parsing
<1>2. PICK own \in Seq(Owners) : Compiling(own) /\ Nested(own) /\ NamesFit(own)
  BY Parsing
<1>3. DOMAIN chunks' = DOMAIN chunks /\ chunk_idx' = chunk_idx
  BY DEF AddsHere
<1>4. PICK n : n = Len(frames)
  OBVIOUS
<1>5. Len(locals') = Len(locals)
  BY <1>1, <1>2, TheScopeGrows DEF AddsHere
<1>6. /\ Nested(own)' /\ n \in DOMAIN own \cap DOMAIN own /\ Len(own) = n
      /\ Continues(own, own, n) /\ \A i \in 1 .. n : SameLoop(frames[i], frames'[i])
  BY <1>1, <1>2, <1>3, <1>4, <1>5, GoesToThen
<1>7. n \in Nat /\ n # n + 1
  BY <1>1, <1>2, <1>4, FramesFacts
<1>8. \A k \in DOMAIN loops : loops'[k] = loops[k]
  OBVIOUS
<1>9. PICK own2 : own2 = own
  OBVIOUS
<1>10. /\ Nested(own2)' /\ n \in DOMAIN own \cap DOMAIN own2 /\ Len(own2) = n /\ Continues(own, own2, n)
  <2>1. Nested(own)' /\ own2 = own
    BY <1>6, <1>9
  <2> QED BY <1>6, <1>9
<1>11. \A i \in 1 .. n : SameLoop(frames[i], frames'[i])
  BY <1>6
<1>12. StringsFit' /\ StringsGrow
  BY SameStrings
<1> QED BY <1>2, <1>7, <1>8, <1>10, <1>11, <1>12, QuietStep

LEMMA AppendHolds ==
  ASSUME NEW T, NEW s \in Seq(T), NEW item \in T
  PROVE  Holds(Append(s, item), Len(s), item)
BY DEF Holds

LEMMA IntegerStep ==
  ASSUME ScopesIInv, integer_literal
  PROVE  ScopesIInv'
<1>1. status = "parsing" /\ TopFrame.at = "value" /\ ScopesTypeOK
  BY DEF ScopesIInv, integer_literal, At
<1>2. PICK here : here = chunk_idx
  OBVIOUS
<1>3. PICK old : old = CurrScope
  OBVIOUS
<1>4. PICK own \in Seq(Owners) : Compiling(own) /\ Nested(own)
  BY <1>1, Parsing
<1>5. old \in ScopeRecs /\ ScopeFits(old, here) /\ here \in DOMAIN chunks
  BY <1>1, <1>2, <1>3, <1>4, CurrScopeTyped, CurrScopeFits
<1>6. PICK constants : constants = chunks[here].constants
  OBVIOUS
<1>7. PICK code : code = chunks[here].code
  OBVIOUS
<1>8. PICK literal \in Numerals :
       LET const == chunks[chunk_idx].constants
           scope == compiler_record_constant(CurrScope, const, literal)
           info == SymbolTable_find(scope.infos, literal.lexeme, "constant")
       IN /\ UpdateScope(scope)
          /\ chunks' = [chunks EXCEPT
               ![chunk_idx].constants = IF scope = CurrScope THEN @ ELSE Append(@, literal.value),
               ![chunk_idx].code = Append(@, Inst("put_k", 0, info.id, literal))]
  BY DEF integer_literal
<1>9. PICK scope : scope = compiler_record_constant(old, constants, literal)
  OBVIOUS
<1>10. PICK info : info = SymbolTable_find(scope.infos, literal.lexeme, "constant")
  OBVIOUS
<1>11. PICK inst : inst = Inst("put_k", 0, info.id, literal)
  OBVIOUS
<1>12. /\ locals' = [locals EXCEPT ![Len(locals)] = scope]
       /\ chunks' = [chunks EXCEPT ![here].constants = IF scope = old THEN @ ELSE Append(@, literal.value),
                                   ![here].code = Append(@, inst)]
  BY <1>2, <1>3, <1>6, <1>8, <1>9, <1>10, <1>11 DEF UpdateScope
<1>13. /\ GoTo("then") /\ chunk_idx' = here /\ strings' = strings /\ globals' = globals /\ loops' = loops
       /\ saved_info' = saved_info /\ status' = status
  BY <1>2 DEF integer_literal
<1>14. /\ chunks[here] \in ChunkRecs /\ code \in Seq(AllInsts) /\ constants \in Seq(Values)
       /\ chunks \in Seq(ChunkRecs)
  BY <1>1, <1>5, <1>6, <1>7, ChunkTyped DEF ScopesTypeOK
<1>15. /\ scope \in ScopeRecs /\ ScopeGrows(old, scope) /\ scope.next_local_id = old.next_local_id
       /\ info.name = literal.lexeme /\ info.domain = "constant" /\ info.id \in Nat
       /\ \E i \in DOMAIN scope.infos : scope.infos[i] = info
       /\ \/ scope = old
          \/ /\ scope # old /\ info.id = Len(constants)
             /\ \A i \in DOMAIN scope.infos : i \in DOMAIN old.infos \/ scope.infos[i] = info
  BY <1>5, <1>9, <1>10, <1>14, RecordedConstant
<1>16. inst \in AllInsts /\ inst.op = "put_k" /\ inst.for = literal /\ inst.wide = info.id
  <2>1. inst \in Insts({"put_k"}, Numerals)
    BY <1>11, <1>15 DEF Inst, Insts
  <2> QED BY <1>11, <2>1 DEF AllInsts, Inst
<1>17. PICK constants2 : constants2 = IF scope = old THEN constants ELSE Append(constants, literal.value)
  OBVIOUS
<1>18. PICK chunk : chunk = [chunks[here] EXCEPT !.constants = constants2, !.code = Append(code, inst)]
  OBVIOUS
<1>19. chunks' = [chunks EXCEPT ![here] = chunk]
  BY <1>5, <1>6, <1>7, <1>12, <1>14, <1>17, <1>18
<1>20. constants2 \in Seq(Values) /\ \A k \in DOMAIN constants : k \in DOMAIN constants2 /\ constants2[k] = constants[k]
  <2>1. literal.value \in Values
    BY DEF Values
  <2> QED BY <1>14, <1>17, <2>1
<1>21. /\ chunk \in ChunkRecs /\ chunk.constants = constants2 /\ chunk.code = Append(code, inst)
       /\ chunk.params = chunks[here].params /\ chunk.captures = chunks[here].captures
  <2>1. Append(code, inst) \in Seq(AllInsts)
    BY <1>14, <1>16
  <2> QED BY <1>14, <1>18, <1>20, <2>1 DEF ChunkRecs
<1>22. /\ chunks' \in Seq(ChunkRecs) /\ DOMAIN chunks' = DOMAIN chunks /\ chunks'[here] = chunk
       /\ \A c \in DOMAIN chunks : c # here => chunks'[c] = chunks[c]
  BY <1>5, <1>14, <1>19, <1>21, OneChunkPut
<1>23. PICK insts : insts = <<inst>>
  OBVIOUS
<1>24. insts \in Seq(AllInsts) /\ chunks'[here].code = chunks[here].code \o insts /\ \A k \in DOMAIN insts : insts[k] = inst
  <2>1. Append(code, inst) = code \o <<inst>>
    BY <1>14, <1>16
  <2> QED BY <1>7, <1>16, <1>21, <1>22, <1>23, <2>1, OneInst
<1>25. IsEmitted(chunks, chunks', here, insts)
  BY <1>1, <1>2, <1>6, <1>20, <1>21, <1>22, <1>24, Emitted
<1>26. /\ ChunkGrows(chunks[here], chunks'[here])
       /\ \A i \in DOMAIN chunks[here].code : i \in DOMAIN chunks'[here].code /\ chunks'[here].code[i] = chunks[here].code[i]
       /\ \A i \in DOMAIN chunks'[here].code \ DOMAIN chunks[here].code :
              \E k \in DOMAIN insts : i = Len(chunks[here].code) + k /\ chunks'[here].code[i] = insts[k]
  BY <1>25 DEF IsEmitted
<1>27. \A i \in DOMAIN chunks'[here].code \ DOMAIN chunks[here].code : chunks'[here].code[i] = inst
  BY <1>24, <1>26
<1>28. ChunksGrow
  BY <1>1, <1>5, <1>22, <1>26, OnlyHereGrows
<1>29. ScopeFits(old, here)'
  BY <1>5, <1>28, ScopeStaysFit
<1>30. LocalsFit(scope)
  <2>1. ASSUME NEW i \in DOMAIN scope.infos PROVE i \in DOMAIN old.infos \/ scope.infos[i].domain # "local"
    BY <1>15, <2>1
  <2>2. LocalsFit(old)
    BY <1>5 DEF ScopeFits
  <2> QED BY <1>15, <2>1, <2>2, LocalsStayFit
<1>31. UpvalsFit(scope, chunks[here].captures)'
  <2>1. UpvalsFit(old, chunks'[here].captures)
    BY <1>29 DEF ScopeFits
  <2>2. ASSUME NEW i \in DOMAIN scope.infos, scope.infos[i].domain = "upval"
        PROVE  i \in DOMAIN old.infos /\ scope.infos[i] = old.infos[i]
    BY <1>15, <2>2 DEF ScopeGrows
  <2>3. UpvalsFit(scope, chunks'[here].captures)
    BY <2>1, <2>2 DEF UpvalsFit
  <2> QED BY <2>3
<1>32. ASSUME scope # old PROVE ConstantOf(here, info.name, info.id)'
  <2>1. PICK j : j = Len(code) + 1
    OBVIOUS
  <2>2. j \in DOMAIN chunks'[here].code /\ chunks'[here].code[j] = inst
    BY <1>14, <1>16, <1>21, <1>22, <2>1
  <2>3. Holds(constants2, info.id, literal.value)
    <3>1. literal.value \in Values /\ info.id = Len(constants) /\ constants2 = Append(constants, literal.value)
      BY <1>15, <1>17, <1>32 DEF Values
    <3>2. constants \in Seq(Values)
      BY <1>14
    <3>3. Holds(Append(constants, literal.value), Len(constants), literal.value)
      BY <3>1, <3>2, AppendHolds
    <3> QED BY <3>1, <3>3
  <2>4. Holds(chunks'[here].constants, info.id, chunks'[here].code[j].for.value)
    BY <1>16, <1>21, <1>22, <2>2, <2>3
  <2>5. chunks'[here].code[j].op = "put_k" /\ chunks'[here].code[j].for.lexeme = info.name
    BY <1>15, <1>16, <2>2
  <2> QED BY <2>2, <2>4, <2>5 DEF ConstantOf, CodeOf
<1>33. ConstantsFit(scope, here)'
  <2>1. \A i \in DOMAIN old.infos : old.infos[i].domain = "constant" =>
          ConstantOf(here, old.infos[i].name, old.infos[i].id)'
    BY <1>29 DEF ScopeFits, ConstantsFit
  <2>2. ASSUME NEW i \in DOMAIN scope.infos, scope.infos[i].domain = "constant"
        PROVE  ConstantOf(here, scope.infos[i].name, scope.infos[i].id)'
    <3>1. CASE i \in DOMAIN old.infos
      <4>1. scope.infos[i] = old.infos[i]
        BY <1>15, <3>1 DEF ScopeGrows
      <4> QED BY <2>1, <2>2, <3>1, <4>1
    <3>2. CASE i \notin DOMAIN old.infos
      <4>1. scope # old /\ scope.infos[i] = info
        BY <1>15, <2>2, <3>2
      <4> QED BY <1>32, <4>1
    <3> QED BY <3>1, <3>2
  <2> QED BY <2>2 DEF ConstantsFit
<1>34. ParamsFit(scope, chunks[here].params)'
  <2>1. ParamsFit(old, chunks'[here].params)
    BY <1>29 DEF ScopeFits
  <2>2. ParamsFit(scope, chunks'[here].params)
    BY <1>15, <2>1, ParamsStayFit
  <2> QED BY <2>2
<1>35. ScopeFits(scope, here)'
  <2>1. LocalsFit(scope)'
    BY <1>30 DEF LocalsFit
  <2> QED BY <1>31, <1>33, <1>34, <2>1 DEF ScopeFits
<1>36. ConstantOf(here, literal.lexeme, info.id)'
  <2>1. PICK i \in DOMAIN scope.infos : scope.infos[i] = info
    BY <1>15
  <2>2. ConstantOf(here, scope.infos[i].name, scope.infos[i].id)'
    BY <1>15, <1>33, <2>1 DEF ConstantsFit
  <2> QED BY <1>15, <2>1, <2>2
<1>37. ASSUME NEW i \in DOMAIN chunks'[here].code \ DOMAIN chunks[here].code
       PROVE  /\ inst.op # "ret" /\ ~ IsJump(inst) /\ LiteralFits(here, i)' /\ CaptureFits(here, i)' /\ ~ OfSlot(inst)
              /\ chunks'[here].code[i] = inst
  <2>1. chunks'[here].code[i] = inst
    BY <1>27
  <2>2. LiteralFits(here, i)'
    BY <1>16, <1>36, <2>1 DEF LiteralFits, CodeOf
  <2>3. CaptureFits(here, i)'
    BY <1>16, <2>1 DEF CaptureFits, OfUpval, CodeOf
  <2> QED BY <1>16, <2>1, <2>2, <2>3 DEF IsJump, OfSlot
<1>38. AddsHere(here, scope)
  <2>1. ScopeGrows(CurrScope, scope)
    BY <1>3, <1>15
  <2>2. ASSUME NEW i \in DOMAIN chunks'[here].code \ DOMAIN chunks[here].code, NEW in, in = chunks'[here].code[i]
        PROVE  /\ in.op # "ret" /\ LiteralFits(here, i)' /\ CaptureFits(here, i)'
               /\ OfSlot(in) /\ Good(in) => FiledLocal(scope, in.for, in.wide)
    BY <1>37, <2>2
  <2> QED BY <1>12, <1>13, <1>22, <1>26, <1>35, <2>1, <2>2 DEF AddsHere
<1>39. ScopesTypeOK'
  <2>1. locals' \in Seq(ScopeRecs)
    BY <1>1, <1>4, <1>12, <1>15, CurrScopeTyped, Replaced
  <2>2. frames' \in Seq(AllFrames)
    BY <1>1, <1>4, <1>5, <1>12, <1>13, <1>22, <1>2, <1>15, <1>3, TheScopeGrows, GoesToThen
  <2>3. chunk_idx' \in DOMAIN chunks'
    BY <1>5, <1>13, <1>22
  <2> QED BY <1>1, <1>13, <1>22, <2>1, <2>2, <2>3 DEF ScopesTypeOK
<1>40. \A i \in DOMAIN chunks[here].code : chunks'[here].code[i] = chunks[here].code[i]
  BY <1>26
<1>41. \A i \in DOMAIN chunks'[here].code \ DOMAIN chunks[here].code : ~ IsJump(chunks'[here].code[i])
  BY <1>37
<1> QED BY <1>1, <1>2, <1>13, <1>38, <1>39, <1>40, <1>41, ThenStep


=============================================================================
