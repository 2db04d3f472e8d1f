---------------------------- MODULE ScopesProofs ----------------------------
(***************************************************************************)
(* Theorems about Scopes, for all names, literals and bounds.  The parts:  *)
(* loops and their jumps, the patching of instructions at the end of a     *)
(* loop and of a function, functions, lambdas and their captures, and the  *)
(* theorems.                                                               *)
(***************************************************************************)
EXTENDS ScopesInvariant

(***************************************************************************)
(* The actions of loops.                                                   *)
(***************************************************************************)
LEMMA LoopsApart ==
  ASSUME ScopesTypeOK, NEW own, Nested(own), NEW i \in DOMAIN own, NEW k \in DOMAIN own, i # k,
         frames[i].fn \in LoopFns, frames[k].fn \in LoopFns
  PROVE  own[i].loops # own[k].loops
<1>1. DOMAIN own = 1 .. Len(own) /\ Len(own) \in Nat /\ own[i].loops \in Nat /\ own[k].loops \in Nat
  <2>1. \A j \in 1 .. Len(own) : own[j] \in Owners
    BY FramesFacts
  <2>2. DOMAIN own = 1 .. Len(own) /\ Len(own) \in Nat
    BY FramesFacts
  <2> QED BY <2>1, <2>2 DEF Owners
<1>2. i < k \/ k < i
  BY <1>1
<1>3. (i < k => FarAbove(own, i, k)) /\ (k < i => FarAbove(own, k, i))
  BY DEF Nested
<1>4. (i < k => own[i].loops < own[k].loops) /\ (k < i => own[k].loops < own[i].loops)
  BY <1>3 DEF FarAbove
<1> QED BY <1>1, <1>2, <1>4

\* A step that adds jumps to the current chunk, or patches them.
LEMMA LoopStep ==
  ASSUME ScopesIInv, ScopesTypeOK', NEW own, Compiling(own), NEW own2, Nested(own2)',
         NEW m, m \in DOMAIN own \cap DOMAIN own2, Len(own2) = m, Continues(own, own2, m),
         NEW here, here = chunk_idx, chunk_idx' = here, DOMAIN chunks' = DOMAIN chunks,
         \A c \in DOMAIN chunks : c # here => chunks'[c] = chunks[c],
         ChunkGrows(chunks[here], chunks'[here]),
         \A i \in DOMAIN chunks'[here].code \ DOMAIN chunks[here].code :
           chunks'[here].code[i].op \in {"jmp", "jmp_false", "nop"},
         NEW scope, MoreLocals(scope), locals' = [locals EXCEPT ![Len(locals)] = scope],
         strings' = strings, globals' = globals,
         ~ StrayJump' => WidesStay /\ JumpsFit(own2)'
  PROVE  ScopesIInv'
<1>1. ScopesTypeOK /\ Nested(own) /\ here \in DOMAIN chunks
  BY DEF ScopesIInv, Compiling, ScopesTypeOK
<1>2. ChunksGrow
  BY <1>1, OnlyHereGrows
<1>3. ScopeFits(scope, here)'
  BY <1>1, <1>2, MoreLocalsFit
<1>4. ASSUME NEW i \in DOMAIN chunks'[here].code \ DOMAIN chunks[here].code, NEW inst, inst = chunks'[here].code[i]
      PROVE  /\ inst.op # "ret" /\ LiteralFits(here, i)' /\ CaptureFits(here, i)'
             /\ OfSlot(inst) /\ Good(inst) => FiledLocal(scope, inst.for, inst.wide)
  <2>1. inst.op \in {"jmp", "jmp_false", "nop"}
    BY <1>4
  <2>2. LiteralFits(here, i)'
    BY <1>4, <2>1 DEF LiteralFits, CodeOf
  <2>3. CaptureFits(here, i)'
    BY <1>4, <2>1 DEF CaptureFits, OfUpval, CodeOf
  <2> QED BY <2>1, <2>2, <2>3 DEF OfSlot
<1>5. AddsHere(here, scope)
  BY <1>3, <1>4 DEF AddsHere, MoreLocals
<1>6. StringsFit' /\ StringsGrow
  BY SameStrings
<1>7. m # m + 1
  <2>1. m \in Nat
    BY <1>1, FramesFacts
  <2> QED BY <2>1
<1>8. Len(own2) \in {m, m + 1} /\ Len(own2) # m + 1
  BY <1>7
<1> QED BY <1>5, <1>6, <1>8, StepKeeps

\* It is the jumps of the loop of call k.
LEMMA OneLoopStep ==
  ASSUME ScopesIInv, ScopesTypeOK', ChunksGrow, ~ StrayJump', NEW own, Compiling(own), NEW own2, Nested(own2)',
         NEW m, m \in DOMAIN own \cap DOMAIN own2, Len(own2) = m, Continues(own, own2, m),
         NEW k \in DOMAIN own, frames[k].fn \in LoopFns, NEW loop, loop = frames[k].loop, OnlyJumpsOf({loop}),
         \A c \in DOMAIN chunks' : \A i \in DOMAIN chunks'[c].code :
           IsJump(chunks'[c].code[i]) /\ chunks'[c].code[i].for.loop = loop => JumpFits(c, i)' /\ MeetsAt(c, i)',
         \A i \in 1 .. m : i # k => SameLoop(frames[i], frames'[i]),
         \A l \in DOMAIN loops : l # own[k].loops => loops'[l] = loops[l],
         k \in 1 .. m => LoopFits(own2, k)'
  PROVE  JumpsFit(own2)'
<1>1. ScopesTypeOK /\ Nested(own) /\ LoopJumpsMeet
  BY DEF ScopesIInv, Compiling
<1>2. JumpsFit(own)
  BY StrayStays DEF Compiling
<1>3. 1 .. m \subseteq DOMAIN own /\ DOMAIN own2 = 1 .. m
  <2>1. DOMAIN own = 1 .. Len(own) /\ Len(own) \in Nat
    BY <1>1, FramesFacts
  <2>2. own2 \in Seq(Owners)
    BY DEF Nested
  <2> QED BY <2>1, <2>2
<1>4. LoopFits(own, k)
  BY <1>2 DEF JumpsFit
<1>5. ASSUME NEW i \in 1 .. m, frames[i].fn \in LoopFns, frames[i].loop # loop
      PROVE  SameLoop(frames[i], frames'[i]) /\ loops'[own[i].loops] = loops[own[i].loops]
  <2>1. i # k /\ i \in DOMAIN own
    BY <1>3, <1>5
  <2>2. own[i].loops # own[k].loops /\ own[i].loops \in DOMAIN loops
    BY <1>1, <1>5, <2>1, LoopsApart, LoopInside
  <2> QED BY <2>1, <2>2
<1>6. ASSUME NEW i \in DOMAIN own2, frames'[i].fn \in LoopFns
      PROVE  (i \in 1 .. m /\ frames[i].loop # loop) \/ LoopFits(own2, i)'
  <2>1. i \in 1 .. m /\ i \in DOMAIN own
    BY <1>3
  <2>2. CASE i = k
    BY <2>1, <2>2
  <2>3. CASE i # k
    <3>1. frames[i].fn \in LoopFns
      BY <1>6, <2>1 DEF Continues, SameFrame
    <3>2. frames[i].loop # loop
      BY <1>4, <2>1, <2>3, <3>1 DEF LoopFits
    <3> QED BY <2>1, <3>2
  <2> QED BY <2>2, <2>3
<1>7. PICK Ls : Ls = {loop}
  OBVIOUS
<1>8. OnlyJumpsOf(Ls) /\ \A l : l \in Ls <=> l = loop
  BY <1>7
<1>9. \A c \in DOMAIN chunks' : \A i \in DOMAIN chunks'[c].code :
        IsJump(chunks'[c].code[i]) /\ chunks'[c].code[i].for.loop \in Ls => JumpFits(c, i)' /\ MeetsAt(c, i)'
  BY <1>8
<1>10. \A i \in 1 .. m : frames[i].fn \in LoopFns /\ frames[i].loop \notin Ls =>
         SameLoop(frames[i], frames'[i]) /\ loops'[own[i].loops] = loops[own[i].loops]
  BY <1>5, <1>8
<1>11. \A i \in DOMAIN own2 : frames'[i].fn \in LoopFns =>
         (i \in 1 .. m /\ frames[i].loop \notin Ls) \/ LoopFits(own2, i)'
  BY <1>6, <1>8
<1> QED BY <1>1, <1>2, <1>8, <1>9, <1>10, <1>11, JumpsStep

\* The jumps of a loop in the current chunk.
LEMMA JumpsAdded ==
  ASSUME NEW here \in DOMAIN chunks, ChunkGrows(chunks[here], chunks'[here]), NEW loop, loop.chunk = here, NEW role
  PROVE  JumpsOf(role, loop)' = JumpsOf(role, loop) \cup
           {i \in DOMAIN chunks'[here].code \ DOMAIN chunks[here].code :
              IsJump(chunks'[here].code[i]) /\ chunks'[here].code[i].for = [role |-> role, loop |-> loop]}
<1>1. PICK code, code2 : code = chunks[here].code /\ code2 = chunks'[here].code
  OBVIOUS
<1>2. \A i \in DOMAIN code : i \in DOMAIN code2 /\ code2[i].op = code[i].op /\ code2[i].for = code[i].for
  BY <1>1 DEF ChunkGrows
<1>3. JumpsOf(role, loop)' = {i \in DOMAIN code2 : IsJump(code2[i]) /\ code2[i].for = [role |-> role, loop |-> loop]}
  BY <1>1 DEF JumpsOf, CodeOf
<1>4. JumpsOf(role, loop) = {i \in DOMAIN code : IsJump(code[i]) /\ code[i].for = [role |-> role, loop |-> loop]}
  BY <1>1 DEF JumpsOf, CodeOf
<1>5. \A i \in DOMAIN code : IsJump(code2[i]) <=> IsJump(code[i])
  BY <1>2 DEF IsJump
<1> QED BY <1>1, <1>2, <1>3, <1>4, <1>5

\* A loop that is open has no jump back yet, so nothing to meet.
LEMMA OpenMeets ==
  ASSUME NEW loop, JumpsOf("again", loop)' = {}, NEW c, NEW i \in DOMAIN chunks'[c].code,
         IsJump(chunks'[c].code[i]), chunks'[c].code[i].for.loop = loop, loop.chunk = c,
         chunks'[c].code[i].for = [role |-> chunks'[c].code[i].for.role, loop |-> loop]
  PROVE  MeetsAt(c, i)'
<1>1. PICK inst : inst = chunks'[c].code[i]
  OBVIOUS
<1>2. inst.for.role # "again"
  <2>1. SUFFICES ASSUME inst.for.role = "again" PROVE FALSE
    OBVIOUS
  <2>2. i \in JumpsOf("again", loop)'
    BY <1>1, <2>1 DEF JumpsOf, CodeOf
  <2> QED BY <2>2
<1> QED BY <1>1, <1>2 DEF MeetsAt, CodeOf

\* What a jump is for.
LEMMA JumpIsFor ==
  ASSUME NEW inst \in AllInsts, IsJump(inst)
  PROVE  inst.for = [role |-> inst.for.role, loop |-> inst.for.loop] /\ inst.flag \in Int /\ inst.wide \in Int
<1>1. inst \in Insts({"jmp", "jmp_false"}, JumpFors)
  BY DEF IsJump, AllInsts, Insts
<1> QED BY <1>1 DEF Insts, JumpFors

\* In the current chunk jumps of a loop are added or patched.
JumpsPut(old, new, here, loop) ==
  /\ new \in Seq(ChunkRecs) /\ DOMAIN new = DOMAIN old /\ here \in DOMAIN old
  /\ \A c \in DOMAIN old : c # here => new[c] = old[c]
  /\ ChunkGrows(old[here], new[here])
  /\ \A i \in DOMAIN new[here].code :
       LET inst == new[here].code[i]
       IN \/ i \in DOMAIN old[here].code /\ inst = old[here].code[i]
          \/ i \notin DOMAIN old[here].code /\ inst.op = "nop"
          \/ /\ IsJump(inst) /\ inst.for.loop = loop
             /\ inst.for.role \in {"break", "out"} => inst.flag = 0

LEMMA JumpsPutAt ==
  ASSUME ScopesTypeOK, NEW here, NEW loop, JumpsPut(chunks, chunks', here, loop), loop.begin \in Nat,
         loop.begin <= Len(chunks[here].code), NEW i \in DOMAIN chunks'[here].code,
         i \in DOMAIN chunks[here].code => JumpFits(here, i), IsJump(chunks'[here].code[i]),
         loop.chunk = here, chunks'[here].code[i].for.loop = loop
  PROVE  JumpFits(here, i)'
<1>1. PICK code, code2, inst : code = chunks[here].code /\ code2 = chunks'[here].code /\ inst = code2[i]
  OBVIOUS
<1>2. code \in Seq(AllInsts) /\ code2 \in Seq(AllInsts)
  <2>1. here \in DOMAIN chunks /\ chunks' \in Seq(ChunkRecs) /\ here \in DOMAIN chunks'
    BY DEF JumpsPut
  <2>2. chunks'[here] \in ChunkRecs
    BY <2>1
  <2>3. code2 \in Seq(AllInsts)
    BY <1>1, <2>2 DEF ChunkRecs
  <2> QED BY <1>1, <2>1, <2>3, ChunkTyped
<1>3. CASE i \in DOMAIN code
  <2>1. JumpFits(here, i)
    BY <1>1, <1>3
  <2>2. inst.op = code[i].op /\ inst.for = code[i].for
    BY <1>1, <1>3 DEF JumpsPut, ChunkGrows
  <2>3. inst = code[i] \/ (inst.for.role \in {"break", "out"} => inst.flag = 0)
    BY <1>1, <1>3 DEF JumpsPut
  <2>4. IsJump(code[i])
    BY <1>1, <2>2 DEF IsJump
  <2>5. code[i].for.loop.begin < i /\ (code[i].for.role \in {"break", "out"} => code[i].flag = 0)
    BY <1>1, <2>1, <2>4 DEF JumpFits, CodeOf
  <2>6. inst.for.role \in {"break", "out"} => inst.flag = 0
    BY <2>2, <2>3, <2>5
  <2>7. inst.for.loop.begin < i
    BY <2>2, <2>5
  <2> QED BY <1>1, <2>6, <2>7 DEF JumpFits, CodeOf
<1>4. CASE i \notin DOMAIN code
  <2>1. i > Len(code)
    BY <1>1, <1>2, <1>4
  <2>2. loop.begin < i
    BY <1>1, <1>2, <2>1
  <2>3. inst.op # "nop"
    BY <1>1 DEF IsJump
  <2>4. inst.for.role \in {"break", "out"} => inst.flag = 0
    BY <1>1, <1>4, <2>3 DEF JumpsPut
  <2> QED BY <1>1, <2>2, <2>4 DEF JumpFits, CodeOf
<1> QED BY <1>3, <1>4

LEMMA JumpsPutApart ==
  ASSUME ScopesTypeOK, NEW here, NEW loop, JumpsPut(chunks, chunks', here, loop)
  PROVE  WidesStay /\ OnlyJumpsOf({loop}) /\ ChunksGrow /\ chunks' \in Seq(ChunkRecs) /\ DOMAIN chunks' = DOMAIN chunks
<1>1. /\ chunks' \in Seq(ChunkRecs) /\ DOMAIN chunks' = DOMAIN chunks /\ here \in DOMAIN chunks
      /\ \A c \in DOMAIN chunks : c # here => chunks'[c] = chunks[c]
      /\ ChunkGrows(chunks[here], chunks'[here])
  BY DEF JumpsPut
<1>2. PICK code, code2 : code = chunks[here].code /\ code2 = chunks'[here].code
  OBVIOUS
<1>3. \A i \in DOMAIN code2 : \/ i \in DOMAIN code /\ code2[i] = code[i]
                              \/ i \notin DOMAIN code /\ code2[i].op = "nop"
                              \/ IsJump(code2[i]) /\ code2[i].for.loop = loop
  BY <1>2 DEF JumpsPut
<1>4. \A i \in DOMAIN code : i \in DOMAIN code2 /\ code2[i].op = code[i].op
  BY <1>1, <1>2 DEF ChunkGrows
<1>5. WidesStay
  <2>1. ASSUME NEW i \in DOMAIN code, ~ IsJump(code[i]) PROVE code2[i] = code[i]
    <3>1. i \in DOMAIN code2 /\ ~ IsJump(code2[i])
      BY <1>4, <2>1 DEF IsJump
    <3> QED BY <1>3, <3>1
  <2>2. ASSUME NEW c \in DOMAIN chunks, NEW i \in DOMAIN chunks[c].code, i # 1, ~ IsJump(chunks[c].code[i])
        PROVE  chunks'[c].code[i].wide = chunks[c].code[i].wide
    <3>1. CASE c = here
      BY <1>2, <2>1, <2>2, <3>1
    <3>2. CASE c # here
      BY <1>1, <3>2
    <3> QED BY <3>1, <3>2
  <2> QED BY <2>2 DEF WidesStay
<1>6. OnlyJumpsOf({loop})
  <2>1. ASSUME NEW c \in DOMAIN chunks', NEW i \in DOMAIN chunks'[c].code, IsJump(chunks'[c].code[i])
        PROVE  \/ c \in DOMAIN chunks /\ i \in DOMAIN chunks[c].code /\ chunks'[c].code[i] = chunks[c].code[i]
               \/ chunks'[c].code[i].for.loop = loop
    <3>1. CASE c = here
      <4>1. i \in DOMAIN code2 /\ code2[i].op # "nop"
        BY <1>2, <2>1, <3>1 DEF IsJump
      <4> QED BY <1>1, <1>2, <1>3, <3>1, <4>1
    <3>2. CASE c # here
      BY <1>1, <3>2
    <3> QED BY <3>1, <3>2
  <2> QED BY <2>1 DEF OnlyJumpsOf
<1>7. ChunksGrow
  BY <1>1, OnlyHereGrows
<1> QED BY <1>1, <1>5, <1>6, <1>7

\* The jumps of the loop of call k in the next state.
LEMMA JumpsPutFit ==
  ASSUME ScopesTypeOK, ~ StrayJump', NEW own, Nested(own), JumpsFit(own), NEW k \in DOMAIN own,
         frames[k].fn \in LoopFns, NEW loop, loop = frames[k].loop, NEW here, loop.chunk = here,
         JumpsPut(chunks, chunks', here, loop)
  PROVE  \A c \in DOMAIN chunks' : \A i \in DOMAIN chunks'[c].code :
           IsJump(chunks'[c].code[i]) /\ chunks'[c].code[i].for.loop = loop => c = here /\ JumpFits(c, i)'
<1>1. loop \in LoopIds /\ loop.begin \in Nat
  <2>1. loop \in LoopIds
    BY LoopInside
  <2> QED BY <2>1 DEF LoopIds
<1>2. loop.begin <= Len(chunks[here].code)
  BY DEF JumpsFit, LoopFits, CodeOf
<1>3. here \in DOMAIN chunks
  BY DEF JumpsPut
<1>4. ASSUME NEW c \in DOMAIN chunks', NEW i \in DOMAIN chunks'[c].code, IsJump(chunks'[c].code[i]),
             chunks'[c].code[i].for.loop = loop
      PROVE  c = here /\ JumpFits(c, i)'
  <2>1. c = here
    BY <1>4 DEF StrayJump, CodeOf
  <2>2. i \in DOMAIN chunks[here].code => JumpFits(here, i)
    BY <1>3 DEF JumpsFit, CodeOf
  <2>3. i \in DOMAIN chunks'[here].code /\ IsJump(chunks'[here].code[i]) /\ chunks'[here].code[i].for.loop = loop
    BY <1>4, <2>1
  <2>4. JumpFits(here, i)'
    BY <1>1, <1>2, <2>2, <2>3, JumpsPutAt
  <2> QED BY <2>1, <2>4
<1> QED BY <1>4

\* The jumps of a loop for one role, when none or one is added.
LEMMA RoleStays ==
  ASSUME NEW here \in DOMAIN chunks, ChunkGrows(chunks[here], chunks'[here]), NEW loop, loop.chunk = here, NEW role,
         \A i \in DOMAIN chunks'[here].code \ DOMAIN chunks[here].code :
           IsJump(chunks'[here].code[i]) => chunks'[here].code[i].for.role # role
  PROVE  JumpsOf(role, loop)' = JumpsOf(role, loop)
<1>1. JumpsOf(role, loop)' = JumpsOf(role, loop) \cup
           {i \in DOMAIN chunks'[here].code \ DOMAIN chunks[here].code :
              IsJump(chunks'[here].code[i]) /\ chunks'[here].code[i].for = [role |-> role, loop |-> loop]}
  BY JumpsAdded
<1>2. ASSUME NEW i \in DOMAIN chunks'[here].code \ DOMAIN chunks[here].code, IsJump(chunks'[here].code[i])
      PROVE  chunks'[here].code[i].for # [role |-> role, loop |-> loop]
  BY <1>2
<1> QED BY <1>1, <1>2

JumpFor(inst, role, loop) == IsJump(inst) /\ inst.for = [role |-> role, loop |-> loop]

OthersApart(p, here, role) ==
  \A i \in DOMAIN chunks'[here].code \ DOMAIN chunks[here].code :
    i # p /\ IsJump(chunks'[here].code[i]) => chunks'[here].code[i].for.role # role

LEMMA RoleAdded ==
  ASSUME NEW here \in DOMAIN chunks, ChunkGrows(chunks[here], chunks'[here]), NEW loop, loop.chunk = here, NEW role,
         NEW p \in DOMAIN chunks'[here].code \ DOMAIN chunks[here].code, JumpFor(chunks'[here].code[p], role, loop),
         OthersApart(p, here, role)
  PROVE  JumpsOf(role, loop)' = JumpsOf(role, loop) \cup {p}
<1>1. JumpsOf(role, loop)' = JumpsOf(role, loop) \cup
           {i \in DOMAIN chunks'[here].code \ DOMAIN chunks[here].code :
              IsJump(chunks'[here].code[i]) /\ chunks'[here].code[i].for = [role |-> role, loop |-> loop]}
  BY JumpsAdded
<1>2. ASSUME NEW i \in DOMAIN chunks'[here].code \ DOMAIN chunks[here].code, IsJump(chunks'[here].code[i]),
             chunks'[here].code[i].for = [role |-> role, loop |-> loop]
      PROVE  i = p
  BY <1>2 DEF OthersApart
<1>3. IsJump(chunks'[here].code[p]) /\ chunks'[here].code[p].for = [role |-> role, loop |-> loop]
  BY DEF JumpFor
<1> QED BY <1>1, <1>2, <1>3

\* A loop stays open.
OpenLoop(loop, frame, tracked) ==
  /\ loop.begin <= Len(CodeOf(loop.chunk)) /\ JumpsOf("again", loop) = {}
  /\ tracked.loop_breaks = {j - 1 : j \in JumpsOf("break", loop)}
  /\ tracked.loop_continues = {j - 1 : j \in JumpsOf("continue", loop)}
  /\ JumpsOf("out", loop) = IF Settled(frame) THEN {frame.out + 1} ELSE {}
  /\ frame.fn = "do_for" /\ Settled(frame) => frame.out + 2 \in JumpsOf("skip", loop)

LEMMA OpenLoopOn ==
  ASSUME NEW own, NEW k, NEW loop, loop = frames[k].loop, LoopFits(own, k), frames[k].fn \in LoopFns,
         NEW m, k \in 1 .. m, DOMAIN own = 1 .. m, Continues(own, own, m),
         NEW top, top = frames'[k], NEW tracked, tracked = loops'[own[k].loops], OpenLoop(loop, top, tracked)'
  PROVE  LoopFits(own, k)'
<1>1. SameFrame(frames[k], top)
  BY DEF Continues
<1>2. top.fn = frames[k].fn /\ top.loop = loop /\ (top.fn = "do_while" => top.check = frames[k].check)
  BY <1>1 DEF SameFrame
<1>3. loop.chunk = own[k].chunk /\ (top.fn = "do_while" => top.check = loop.begin)
  BY <1>1, <1>2 DEF LoopFits
<1>4. ASSUME NEW j \in DOMAIN own, j # k, frames'[j].fn \in LoopFns PROVE frames'[j].loop # loop
  <2>1. SameFrame(frames[j], frames'[j])
    BY DEF Continues
  <2>2. frames[j].fn \in LoopFns /\ frames'[j].loop = frames[j].loop
    BY <1>4, <2>1 DEF SameFrame
  <2> QED BY <1>4, <2>1, <2>2 DEF LoopFits
<1> QED BY <1>2, <1>3, <1>4 DEF LoopFits, OpenLoop

LEMMA JumpTyped ==
  ASSUME NEW op \in {"jmp", "jmp_false"}, NEW role \in Roles, NEW loop \in LoopIds, NEW inst, inst = Jump(op, role, loop)
  PROVE  /\ inst \in AllInsts /\ inst.op = op /\ inst.flag = 0 /\ inst.for = [role |-> role, loop |-> loop] /\ IsJump(inst)
         /\ inst.for.role = role /\ inst.for.loop = loop
<1>1. inst \in Insts({"jmp", "jmp_false"}, JumpFors)
  BY DEF Jump, Inst, Insts, JumpFors
<1>2. inst \in AllInsts
  BY <1>1 DEF AllInsts
<1> QED BY <1>2 DEF Jump, Inst, IsJump

\* The tables are left alone.
LeavesTables ==
  locals' = locals /\ strings' = strings /\ globals' = globals /\ saved_info' = saved_info /\ status' = status

LEMMA TablesLeft ==
  ASSUME ScopesIInv, status = "parsing", LeavesTables
  PROVE  /\ MoreLocals(CurrScope) /\ locals' = [locals EXCEPT ![Len(locals)] = CurrScope] /\ locals' = locals
         /\ locals' \in Seq(ScopeRecs) /\ strings' = strings /\ globals' = globals
         /\ strings' \in Seq(Contents) /\ globals' \in Seq(FuncInfos \cup StringInfos)
         /\ saved_info' \in Resolved \cup {NoInfo} /\ status' \in {"parsing", "done", "dead", "crashed"}
<1>1. MoreLocals(CurrScope) /\ locals' = [locals EXCEPT ![Len(locals)] = CurrScope]
  BY SameScope DEF LeavesTables
<1>2. ScopesTypeOK
  BY DEF ScopesIInv
<1> QED BY <1>1, <1>2 DEF ScopesTypeOK, LeavesTables

\* In the current chunk jumps are added, and instructions patched.
CodePut(old, new, here) ==
  /\ new \in Seq(ChunkRecs) /\ DOMAIN new = DOMAIN old /\ here \in DOMAIN old
  /\ \A c \in DOMAIN old : c # here => new[c] = old[c]
  /\ ChunkGrows(old[here], new[here])
  /\ \A i \in DOMAIN new[here].code \ DOMAIN old[here].code : new[here].code[i].op \in {"jmp", "jmp_false", "nop"}

LEMMA PutIsCode ==
  ASSUME NEW old, NEW new, NEW here, NEW loop, JumpsPut(old, new, here, loop)
  PROVE  CodePut(old, new, here)
<1>1. \A i \in DOMAIN new[here].code \ DOMAIN old[here].code : new[here].code[i].op \in {"jmp", "jmp_false", "nop"}
  BY DEF JumpsPut, IsJump
<1> QED BY <1>1 DEF JumpsPut, CodePut

LEMMA CodePutGrows ==
  ASSUME ScopesTypeOK, NEW here, CodePut(chunks, chunks', here)
  PROVE  /\ ChunksGrow /\ chunks' \in Seq(ChunkRecs) /\ DOMAIN chunks' = DOMAIN chunks /\ here \in DOMAIN chunks
         /\ \A c \in DOMAIN chunks : c # here => chunks'[c] = chunks[c]
         /\ ChunkGrows(chunks[here], chunks'[here])
         /\ \A i \in DOMAIN chunks'[here].code \ DOMAIN chunks[here].code :
              chunks'[here].code[i].op \in {"jmp", "jmp_false", "nop"}
<1>1. /\ chunks' \in Seq(ChunkRecs) /\ DOMAIN chunks' = DOMAIN chunks /\ here \in DOMAIN chunks
      /\ \A c \in DOMAIN chunks : c # here => chunks'[c] = chunks[c]
      /\ ChunkGrows(chunks[here], chunks'[here])
      /\ \A i \in DOMAIN chunks'[here].code \ DOMAIN chunks[here].code :
           chunks'[here].code[i].op \in {"jmp", "jmp_false", "nop"}
  BY DEF CodePut
<1>2. ChunksGrow
  BY <1>1, OnlyHereGrows
<1> QED BY <1>1, <1>2

\* Jumps of the loop of call k are added or patched, and the loop stays open.
LEMMA LoopMoves ==
  ASSUME ScopesIInv, status = "parsing", NEW own \in Seq(Owners), Compiling(own), NEW n, n = Len(frames),
         NEW top \in AllFrames, SameFrame(TopFrame, top), TopBecomes(top), LeavesTables,
         loops' \in Seq(LoopRecs), Len(loops') = Len(loops), NEW here, here = chunk_idx, chunk_idx' = here,
         NEW loop, CodePut(chunks, chunks', here),
         ~ StrayJump' => JumpsPut(chunks, chunks', here, loop),
         NEW k \in DOMAIN own, frames[k].fn \in LoopFns, loop = frames[k].loop, k = n \/ SameLoop(TopFrame, top),
         \A l \in DOMAIN loops : l # own[k].loops => loops'[l] = loops[l],
         ~ StrayJump' => loop.chunk = here /\ JumpsOf("again", loop)' = {} /\ LoopFits(own, k)'
  PROVE  ScopesIInv'
<1>1. ScopesTypeOK /\ Nested(own)
  BY DEF ScopesIInv, Compiling
<1>2. /\ ChunksGrow /\ chunks' \in Seq(ChunkRecs) /\ DOMAIN chunks' = DOMAIN chunks
      /\ \A c \in DOMAIN chunks : c # here => chunks'[c] = chunks[c]
      /\ ChunkGrows(chunks[here], chunks'[here])
      /\ \A i \in DOMAIN chunks'[here].code \ DOMAIN chunks[here].code :
           chunks'[here].code[i].op \in {"jmp", "jmp_false", "nop"}
  BY <1>1, CodePutGrows
<1>3. /\ MoreLocals(CurrScope) /\ locals' = [locals EXCEPT ![Len(locals)] = CurrScope]
      /\ locals' \in Seq(ScopeRecs) /\ strings' = strings /\ globals' = globals /\ Len(locals') = Len(locals)
  BY TablesLeft
<1>4. frames' = [frames EXCEPT ![Len(frames)] = top] /\ DOMAIN chunks \subseteq DOMAIN chunks'
  BY <1>2 DEF TopBecomes
<1>5. Nested(own)'
  BY <1>1, <1>2, <1>3, <1>4, MovesOn
<1>6. frames' \in Seq(AllFrames)
  BY <1>1, <1>2, <1>3, <1>4, MovesOn
<1>7. n \in DOMAIN own /\ n \in DOMAIN own \cap DOMAIN own /\ Len(own) = n /\ n \in Nat \ {0} /\ DOMAIN own = 1 .. n /\ TopFrame = frames[n]
  BY <1>1, FramesFacts
<1>8. Continues(own, own, n)
  BY <1>1, <1>2, <1>3, <1>4, MovesOn
<1>9. \A i \in 1 .. n : i # n => frames'[i] = frames[i]
  BY <1>1, <1>2, <1>3, <1>4, MovesOn
<1>10. frames'[n] = top
  <2>1. n \in DOMAIN frames
    BY <1>1, FramesFacts
  <2> QED BY <1>4, <2>1
<1>11. ScopesTypeOK'
  BY <1>1, <1>2, <1>3, <1>6, TablesLeft DEF ScopesTypeOK
<1>12. \A i \in 1 .. n : i # k => SameLoop(frames[i], frames'[i])
  <2>1. ASSUME NEW i \in 1 .. n, i # k PROVE SameLoop(frames[i], frames'[i])
    <3>1. CASE i = n
      BY <1>7, <1>10, <2>1, <3>1
    <3>2. CASE i # n
      BY <1>9, <3>2, SameFrameItself
    <3> QED BY <3>1, <3>2
  <2> QED BY <2>1
<1>13. ASSUME ~ StrayJump' PROVE WidesStay /\ JumpsFit(own)'
  <2>0. WidesStay /\ OnlyJumpsOf({loop}) /\ JumpsPut(chunks, chunks', here, loop)
    BY <1>1, <1>13, JumpsPutApart
  <2>1. JumpsFit(own)
    BY <1>2, <1>13, StrayStays DEF Compiling
  <2>2. \A c \in DOMAIN chunks' : \A i \in DOMAIN chunks'[c].code :
          IsJump(chunks'[c].code[i]) /\ chunks'[c].code[i].for.loop = loop => c = here /\ JumpFits(c, i)'
    BY <1>1, <1>13, <2>0, <2>1, JumpsPutFit
  <2>3. ASSUME NEW c \in DOMAIN chunks', NEW i \in DOMAIN chunks'[c].code, IsJump(chunks'[c].code[i]),
               chunks'[c].code[i].for.loop = loop
        PROVE  JumpFits(c, i)' /\ MeetsAt(c, i)'
    <3>1. c = here /\ JumpFits(c, i)'
      BY <2>2, <2>3
    <3>2. PICK inst : inst = chunks'[c].code[i]
      OBVIOUS
    <3>3. inst \in AllInsts
      BY <1>11, <3>2, ChunkTypedNext
    <3>4. inst.for = [role |-> inst.for.role, loop |-> loop]
      BY <2>3, <3>2, <3>3, JumpIsFor
    <3>5. loop.chunk = c /\ JumpsOf("again", loop)' = {}
      BY <1>13, <3>1
    <3> QED BY <2>3, <3>1, <3>2, <3>4, <3>5, OpenMeets
  <2>4. LoopFits(own, k)'
    BY <1>13
  <2>5. \A c \in DOMAIN chunks' : \A i \in DOMAIN chunks'[c].code :
          IsJump(chunks'[c].code[i]) /\ chunks'[c].code[i].for.loop = loop => JumpFits(c, i)' /\ MeetsAt(c, i)'
    BY <2>3
  <2>6. JumpsFit(own)'
    <3>1. OnlyJumpsOf({loop}) /\ ChunksGrow
      BY <1>2, <2>0
    <3>2. \A i \in 1 .. n : i # k => SameLoop(frames[i], frames'[i])
      BY <1>12
    <3> QED BY <1>5, <1>7, <1>8, <1>11, <1>13, <2>4, <2>5, <3>1, <3>2, OneLoopStep
  <2> QED BY <2>0, <2>6
<1> QED BY <1>2, <1>3, <1>5, <1>7, <1>8, <1>11, <1>13, LoopStep

\* What is emitted comes behind what is there.
LEMMA EmittedAt ==
  ASSUME ScopesTypeOK, NEW here, NEW insts \in Seq(AllInsts), IsEmitted(chunks, chunks', here, insts),
         NEW len, len = Len(chunks[here].code)
  PROVE  /\ here \in DOMAIN chunks /\ len \in Nat /\ Len(chunks'[here].code) >= len /\ Len(chunks'[here].code) \in Nat
         /\ \A j \in DOMAIN insts : /\ len + j \in DOMAIN chunks'[here].code \ DOMAIN chunks[here].code
                                    /\ chunks'[here].code[len + j] = insts[j]
         /\ \A i \in DOMAIN chunks'[here].code \ DOMAIN chunks[here].code :
              \E j \in DOMAIN insts : i = len + j /\ chunks'[here].code[i] = insts[j]
<1>1. PICK code, code2 : code = chunks[here].code /\ code2 = chunks'[here].code
  OBVIOUS
<1>2. /\ here \in DOMAIN chunks /\ code2 = code \o insts
      /\ \A i \in DOMAIN code2 \ DOMAIN code : \E j \in DOMAIN insts : i = Len(code) + j /\ code2[i] = insts[j]
  BY <1>1 DEF IsEmitted
<1>3. code \in Seq(AllInsts)
  BY <1>1, <1>2, ChunkTyped
<1>4. Len(code) \in Nat /\ Len(code2) >= Len(code) /\ Len(code2) \in Nat
  BY <1>2, <1>3
<1>5. ASSUME NEW j \in DOMAIN insts
      PROVE  Len(code) + j \in DOMAIN code2 \ DOMAIN code /\ code2[Len(code) + j] = insts[j]
  BY <1>2, <1>3
<1>6. here \in DOMAIN chunks /\ len \in Nat /\ Len(chunks'[here].code) >= len /\ Len(chunks'[here].code) \in Nat
  BY ONLY <1>1, <1>2, <1>4, len = Len(chunks[here].code)
<1>7. \A j \in DOMAIN insts : /\ len + j \in DOMAIN chunks'[here].code \ DOMAIN chunks[here].code
                              /\ chunks'[here].code[len + j] = insts[j]
  BY ONLY <1>1, <1>5, len = Len(chunks[here].code)
<1>8. \A i \in DOMAIN chunks'[here].code \ DOMAIN chunks[here].code :
        \E j \in DOMAIN insts : i = len + j /\ chunks'[here].code[i] = insts[j]
  BY ONLY <1>1, <1>2, len = Len(chunks[here].code)
<1> QED BY <1>6, <1>7, <1>8

LEMMA EmittedJumpsPut ==
  ASSUME ScopesTypeOK, NEW here, NEW insts \in Seq(AllInsts), IsEmitted(chunks, chunks', here, insts), NEW loop,
         \A j \in DOMAIN insts : \/ insts[j].op = "nop"
                                 \/ IsJump(insts[j]) /\ insts[j].for.loop = loop /\ insts[j].flag = 0
  PROVE  JumpsPut(chunks, chunks', here, loop)
<1>1. PICK code, code2 : code = chunks[here].code /\ code2 = chunks'[here].code
  OBVIOUS
<1>2. /\ \A i \in DOMAIN code : i \in DOMAIN code2 /\ code2[i] = code[i]
      /\ \A i \in DOMAIN code2 \ DOMAIN code : \E j \in DOMAIN insts : i = Len(code) + j /\ code2[i] = insts[j]
  BY <1>1 DEF IsEmitted
<1>3. \A i \in DOMAIN code2 : \/ i \in DOMAIN code /\ code2[i] = code[i]
                              \/ i \notin DOMAIN code /\ code2[i].op = "nop"
                              \/ IsJump(code2[i]) /\ code2[i].for.loop = loop /\ code2[i].flag = 0
  BY <1>2
<1>4. /\ chunks' \in Seq(ChunkRecs) /\ DOMAIN chunks' = DOMAIN chunks /\ here \in DOMAIN chunks
      /\ \A c \in DOMAIN chunks : c # here => chunks'[c] = chunks[c]
      /\ ChunkGrows(chunks[here], chunks'[here])
  BY DEF IsEmitted
<1> QED BY <1>1, <1>3, <1>4 DEF JumpsPut

\* The loop of the top call and what waits in it.
LEMMA TopLoop ==
  ASSUME ScopesIInv, NEW own, Compiling(own), TopFrame.fn \in LoopFns, NEW n, n = Len(frames),
         NEW loop, loop = TopFrame.loop, NEW tracked, tracked = Last(loops)
  PROVE  /\ ScopesTypeOK /\ Nested(own) /\ TopFrame = frames[n] /\ n \in DOMAIN own /\ Len(own) = n
         /\ DOMAIN own = 1 .. n /\ n \in Nat \ {0} /\ own \in Seq(Owners)
         /\ own[n].chunk = chunk_idx /\ loop \in LoopIds /\ own[n].loops = Len(loops) /\ Len(loops) \in DOMAIN loops
         /\ tracked = loops[own[n].loops] /\ loops \in Seq(LoopRecs)
         /\ ~ StrayJump => /\ loop.chunk = chunk_idx /\ LoopFits(own, n) /\ OpenLoop(loop, TopFrame, tracked)
                           /\ TopFrame.fn = "do_while" => TopFrame.check = loop.begin
<1>1. ScopesTypeOK /\ Nested(own)
  BY DEF ScopesIInv, Compiling
<1>2. /\ TopFrame = frames[n] /\ n \in DOMAIN own /\ Len(own) = n /\ DOMAIN own = 1 .. n /\ n \in Nat \ {0}
      /\ own \in Seq(Owners) /\ own[n].chunk = chunk_idx /\ own[n].loops = Len(loops)
  BY <1>1, FramesFacts
<1>3. loop \in LoopIds /\ Len(loops) \in DOMAIN loops
  BY <1>1, <1>2, LoopInside
<1>4. tracked = loops[own[n].loops] /\ loops \in Seq(LoopRecs)
  <2>1. loops \in Seq(LoopRecs)
    BY <1>1 DEF ScopesTypeOK
  <2>2. Last(loops) = loops[Len(loops)]
    BY DEF Last
  <2> QED BY <1>2, <2>1, <2>2
<1>5. ASSUME ~ StrayJump PROVE LoopFits(own, n)
  BY <1>2, <1>5 DEF Compiling, JumpsFit
<1>6. ASSUME LoopFits(own, n)
      PROVE  /\ loop.chunk = chunk_idx /\ OpenLoop(loop, TopFrame, tracked)
             /\ TopFrame.fn = "do_while" => TopFrame.check = loop.begin
  BY <1>2, <1>4, <1>6 DEF LoopFits, OpenLoop
<1> QED BY <1>1, <1>2, <1>3, <1>4, <1>5, <1>6

\* A loop of which no jump is added but those named stays open.
LEMMA SettlesStep ==
  ASSUME ScopesIInv, status = "parsing", TopFrame.fn \in LoopFns, TopFrame.at = "then",
         NEW top \in AllFrames, SameFrame(TopFrame, top), TopBecomes(top), Settled(top), top.out = Here,
         LeavesTables, loops' = loops, NEW here, here = chunk_idx, chunk_idx' = here,
         NEW insts \in Seq(AllInsts), IsEmitted(chunks, chunks', here, insts), NEW loop, loop = TopFrame.loop,
         NEW first, first = Jump("jmp_false", "out", loop), NEW second, second = Jump("jmp", "skip", loop),
         1 \in DOMAIN insts, insts[1] = first,
         \A j \in DOMAIN insts : j # 1 => insts[j].op = "nop" \/ (j = 2 /\ insts[j] = second),
         top.fn = "do_for" => 2 \in DOMAIN insts /\ insts[2] = second
  PROVE  ScopesIInv'
<1>1. PICK own \in Seq(Owners) : Compiling(own)
  BY Parsing
<1>2. PICK n : n = Len(frames)
  OBVIOUS
<1>3. PICK tracked : tracked = Last(loops)
  OBVIOUS
<1>4. /\ ScopesTypeOK /\ Nested(own) /\ TopFrame = frames[n] /\ n \in DOMAIN own /\ Len(own) = n
      /\ DOMAIN own = 1 .. n /\ n \in Nat \ {0}
      /\ own[n].chunk = chunk_idx /\ loop \in LoopIds /\ own[n].loops = Len(loops) /\ Len(loops) \in DOMAIN loops
      /\ tracked = loops[own[n].loops] /\ loops \in Seq(LoopRecs)
  BY <1>1, <1>2, <1>3, TopLoop
<1>5. /\ IsJump(first) /\ first.for = [role |-> "out", loop |-> loop] /\ first.for.role = "out"
      /\ IsJump(second) /\ second.for = [role |-> "skip", loop |-> loop] /\ second.for.role = "skip"
      /\ first.for.loop = loop /\ second.for.loop = loop /\ first.flag = 0 /\ second.flag = 0
  BY <1>4, JumpTyped DEF Roles
<1>6. JumpsPut(chunks, chunks', here, loop)
  <2>1. \A j \in DOMAIN insts : \/ insts[j].op = "nop"
                                \/ IsJump(insts[j]) /\ insts[j].for.loop = loop /\ insts[j].flag = 0
    BY <1>5
  <2> QED BY <1>4, <2>1, EmittedJumpsPut
<1>7. PICK len : len = Len(chunks[here].code)
  OBVIOUS
<1>8. PICK code, code2 : code = chunks[here].code /\ code2 = chunks'[here].code
  OBVIOUS
<1>9. /\ here \in DOMAIN chunks /\ len \in Nat /\ Len(code2) >= len /\ Len(code2) \in Nat
      /\ \A j \in DOMAIN insts : len + j \in DOMAIN code2 \ DOMAIN code /\ code2[len + j] = insts[j]
      /\ \A i \in DOMAIN code2 \ DOMAIN code : \E j \in DOMAIN insts : i = len + j /\ code2[i] = insts[j]
  BY <1>4, <1>7, <1>8, EmittedAt
<1>10. ChunkGrows(chunks[here], chunks'[here])
  BY DEF IsEmitted
<1>11. \A i \in DOMAIN code2 \ DOMAIN code :
         IsJump(code2[i]) => (i = len + 1 /\ code2[i] = first) \/ (i = len + 2 /\ code2[i] = second)
  <2>1. ASSUME NEW i \in DOMAIN code2 \ DOMAIN code, IsJump(code2[i])
        PROVE  (i = len + 1 /\ code2[i] = first) \/ (i = len + 2 /\ code2[i] = second)
    <3>1. PICK j \in DOMAIN insts : i = len + j /\ code2[i] = insts[j]
      BY <1>9, <2>1
    <3>2. insts[j].op # "nop"
      BY <2>1, <3>1 DEF IsJump
    <3>3. (j = 1 /\ insts[j] = first) \/ (j = 2 /\ insts[j] = second)
      BY <3>2
    <3> QED BY <3>1, <3>3
  <2> QED BY <2>1
<1>12. top.out = len
  BY <1>7 DEF Here, Code
<1>13. ASSUME ~ StrayJump' PROVE loop.chunk = here /\ JumpsOf("again", loop)' = {} /\ LoopFits(own, n)'
  <2>1. ~ StrayJump
    BY <1>4, <1>6, <1>13, JumpsPutApart, StrayStays
  <2>2. /\ loop.chunk = here /\ LoopFits(own, n) /\ JumpsOf("again", loop) = {} /\ loop.begin <= len
        /\ tracked.loop_breaks = {j - 1 : j \in JumpsOf("break", loop)}
        /\ tracked.loop_continues = {j - 1 : j \in JumpsOf("continue", loop)}
        /\ JumpsOf("out", loop) = IF Settled(TopFrame) THEN {TopFrame.out + 1} ELSE {}
    <3>1. loop.chunk = here /\ LoopFits(own, n) /\ OpenLoop(loop, TopFrame, tracked)
      BY <1>1, <1>2, <1>3, <2>1, TopLoop
    <3> QED BY <1>7, <3>1 DEF OpenLoop, CodeOf
  <2>3. ~ Settled(TopFrame)
    BY DEF Settled
  <2>4. ASSUME NEW role \in {"break", "continue", "again"} PROVE JumpsOf(role, loop)' = JumpsOf(role, loop)
    <3>1. \A i \in DOMAIN code2 \ DOMAIN code : IsJump(code2[i]) => code2[i].for.role # role
      BY <1>5, <1>11
    <3>2. \A i \in DOMAIN chunks'[here].code \ DOMAIN chunks[here].code :
            IsJump(chunks'[here].code[i]) => chunks'[here].code[i].for.role # role
      BY <1>8, <3>1
    <3> QED BY <1>9, <1>10, <2>2, <3>2, RoleStays, ZenonT(30)
  <2>5. JumpsOf("out", loop)' = JumpsOf("out", loop) \cup {len + 1}
    <3>1. PICK p : p = len + 1
      OBVIOUS
    <3>2. p \in DOMAIN code2 \ DOMAIN code /\ code2[p] = first
      BY <1>9, <3>1
    <3>3. p # len + 2
      BY <1>9, <3>1
    <3>4. \A i \in DOMAIN code2 \ DOMAIN code : i # p /\ IsJump(code2[i]) => code2[i].for.role # "out"
      BY <1>5, <1>11, <3>1
    <3>5. /\ p \in DOMAIN chunks'[here].code \ DOMAIN chunks[here].code
          /\ JumpFor(chunks'[here].code[p], "out", loop)
          /\ OthersApart(p, here, "out")
      BY <1>5, <1>8, <3>2, <3>4 DEF JumpFor, OthersApart
    <3>6. JumpsOf("out", loop)' = JumpsOf("out", loop) \cup {p}
      <4>1. here \in DOMAIN chunks /\ loop.chunk = here
        BY <1>9, <2>2
      <4>3. JumpsOf("out", loop)' = JumpsOf("out", loop) \cup {p}
        BY <1>10, <3>5, <4>1, RoleAdded
      <4> QED BY <4>3
    <3> QED BY <3>1, <3>6
  <2>6. ASSUME top.fn = "do_for" PROVE top.out + 2 \in JumpsOf("skip", loop)'
    <3>1. PICK p : p = len + 2
      OBVIOUS
    <3>2. p \in DOMAIN code2 \ DOMAIN code /\ code2[p] = second
      BY <1>9, <2>6, <3>1
    <3>3. \A i \in DOMAIN code2 \ DOMAIN code : i # p /\ IsJump(code2[i]) => code2[i].for.role # "skip"
      BY <1>5, <1>11, <3>1
    <3>4. /\ p \in DOMAIN chunks'[here].code \ DOMAIN chunks[here].code
          /\ JumpFor(chunks'[here].code[p], "skip", loop)
          /\ OthersApart(p, here, "skip")
      BY <1>5, <1>8, <3>2, <3>3 DEF JumpFor, OthersApart
    <3>5. JumpsOf("skip", loop)' = JumpsOf("skip", loop) \cup {p}
      <4>1. here \in DOMAIN chunks /\ loop.chunk = here
        BY <1>9, <2>2
      <4>3. JumpsOf("skip", loop)' = JumpsOf("skip", loop) \cup {p}
        BY <1>10, <3>4, <4>1, RoleAdded
      <4> QED BY <4>3
    <3> QED BY <1>12, <3>1, <3>5
  <2>7. loop.begin <= Len(chunks'[here].code)
    <3>1. loop.begin \in Nat
      BY <1>4 DEF LoopIds
    <3>2. loop.begin <= Len(code2)
      BY <1>9, <2>2, <3>1
    <3> QED BY <1>8, <3>2
  <2>8. /\ tracked.loop_breaks = {j - 1 : j \in JumpsOf("break", loop)'}
        /\ tracked.loop_continues = {j - 1 : j \in JumpsOf("continue", loop)'}
        /\ JumpsOf("again", loop)' = {}
    BY <2>2, <2>4
  <2>9. JumpsOf("out", loop)' = IF Settled(top) THEN {top.out + 1} ELSE {}
    BY <1>12, <2>2, <2>3, <2>5
  <2>10. tracked = loops'[own[n].loops]
    BY <1>4
  <2>11. Continues(own, own, n) /\ top = frames'[n]
    <3>1. DOMAIN frames = 1 .. n /\ n \in DOMAIN frames
      BY <1>2, <1>4, FramesFacts
    <3>2. frames' = [frames EXCEPT ![n] = top]
      BY <1>2 DEF TopBecomes
    <3>3. \A i \in 1 .. n : (i = n /\ frames'[i] = top) \/ frames'[i] = frames[i]
      BY <3>1, <3>2
    <3>4. frames'[n] = top
      BY <3>1, <3>2
    <3> QED BY <1>4, <3>3, <3>4, SameFrameItself DEF Continues
  <2>12. n \in 1 .. n /\ 1 .. n \subseteq DOMAIN own /\ loop = frames[n].loop /\ frames[n].fn \in LoopFns
    BY <1>4
  <2>13. OpenLoop(loop, top, tracked)'
    BY <2>2, <2>6, <2>7, <2>8, <2>9 DEF OpenLoop, CodeOf, Settled
  <2>14. LoopFits(own, n)'
    BY <1>4, <2>2, <2>10, <2>11, <2>12, <2>13, OpenLoopOn
  <2> QED BY <2>2, <2>8, <2>14
<1>14. loop = frames[n].loop /\ frames[n].fn \in LoopFns /\ loops' \in Seq(LoopRecs) /\ Len(loops') = Len(loops)
  BY <1>4
<1>15. CodePut(chunks, chunks', here)
  BY <1>6, PutIsCode
<1> QED BY <1>1, <1>2, <1>4, <1>6, <1>13, <1>14, <1>15, LoopMoves

LEMMA SettlesTop ==
  ASSUME ScopesIInv, status = "parsing", NEW frame, frame = TopFrame, frame.fn \in LoopFns, NEW place \in {"block", "update"},
         NEW here, here = chunk_idx, NEW next, next = Here,
         frames' = [frames EXCEPT ![Len(frames)].at = place, ![Len(frames)].out = next]
  PROVE  \E top \in AllFrames : /\ SameFrame(TopFrame, top) /\ TopBecomes(top) /\ Settled(top) /\ top.out = next
                                /\ top.fn = frame.fn
<1>1. ScopesTypeOK
  BY DEF ScopesIInv
<1>2. PICK top : top = [frame EXCEPT !.at = place, !.out = next]
  OBVIOUS
<1>3. next \in Nat
  BY <1>1, HereIsNatural
<1>4. frame \in AllFrames
  BY TopKnows
<1>5. frame \in WhileFrames \cup ForFrames
  BY <1>4, TopIsWhile, TopIsFor DEF LoopFns
<1>6. /\ top \in WhileFrames \cup ForFrames /\ top.fn = frame.fn /\ top.at = place /\ top.out = next /\ top.loop = frame.loop
      /\ frame.fn = "do_while" => top.check = frame.check
      /\ frame.fn = "do_for" => top.info = frame.info
  <2>1. place \in Places
    BY DEF Places
  <2>2. CASE frame \in WhileFrames
    BY <1>2, <1>3, <2>1, <2>2 DEF WhileFrames
  <2>3. CASE frame \in ForFrames
    BY <1>2, <1>3, <2>1, <2>3 DEF ForFrames
  <2> QED BY <1>5, <2>2, <2>3
<1>7. top \in AllFrames
  BY <1>6 DEF AllFrames
<1>8. SameFrame(frame, top)
  BY <1>6 DEF SameFrame, FunctionFns, LoopFns
<1>9. Settled(top)
  BY <1>6 DEF Settled
<1>10. TopBecomes(top)
  <2>1. PICK own \in Seq(Owners) : Compiling(own) /\ Nested(own)
    BY Parsing
  <2>2. Len(frames) \in DOMAIN frames /\ TopFrame = frames[Len(frames)]
    BY <1>1, <2>1, FramesFacts
  <2> QED BY <1>2, <2>2 DEF TopBecomes
<1> QED BY <1>6, <1>7, <1>8, <1>9, <1>10

LEMMA JumpIsInst ==
  ASSUME NEW op \in {"jmp", "jmp_false"}, NEW role \in Roles, NEW loop \in LoopIds
  PROVE  Jump(op, role, loop) \in AllInsts
<1>1. Jump(op, role, loop) \in Insts({"jmp", "jmp_false"}, JumpFors)
  BY DEF Jump, Inst, Insts, JumpFors
<1> QED BY <1>1 DEF AllInsts

LEMMA WhileConditionStep ==
  ASSUME ScopesIInv, while_condition
  PROVE  ScopesIInv'
<1>1. status = "parsing" /\ TopFrame.fn = "do_while" /\ TopFrame.at = "then" /\ TopFrame.fn \in LoopFns /\ ScopesTypeOK
  BY DEF ScopesIInv, while_condition, In, At, LoopFns
<1>2. PICK here, frame, next, loop : here = chunk_idx /\ frame = TopFrame /\ next = Here /\ loop = frame.loop
  OBVIOUS
<1>3. PICK first, second : first = Jump("jmp_false", "out", loop) /\ second = Jump("jmp", "skip", loop)
  OBVIOUS
<1>4. PICK insts : insts = <<first>>
  OBVIOUS
<1>5. loop \in LoopIds
  <2>1. frame \in WhileFrames
    BY <1>1, <1>2, TopKnows, TopIsWhile
  <2> QED BY <1>2, <2>1 DEF WhileFrames
<1>6. first \in AllInsts
  <2>1. "out" \in Roles
    BY DEF Roles
  <2> QED BY <1>3, <1>5, <2>1, JumpIsInst
<1>7. insts \in Seq(AllInsts) /\ DOMAIN insts = {1} /\ insts[1] = first
  BY <1>4, <1>6
<1>8. IsEmitted(chunks, chunks', here, insts)
  <2>1. chunks' = [chunks EXCEPT ![here].code = @ \o insts]
    BY <1>2, <1>3, <1>4 DEF while_condition, Emit
  <2> QED BY <1>1, <1>2, <1>7, <2>1, EmittedAlone
<1>9. LeavesTables /\ loops' = loops /\ chunk_idx' = here
  BY <1>2 DEF while_condition, LeavesTables, scopeVars
<1>10. PICK top \in AllFrames : SameFrame(TopFrame, top) /\ TopBecomes(top) /\ Settled(top) /\ top.out = next /\ top.fn = frame.fn
  <2>1. frames' = [frames EXCEPT ![Len(frames)].at = "block", ![Len(frames)].out = next]
    BY <1>2 DEF while_condition
  <2> QED BY <1>1, <1>2, <2>1, SettlesTop, ZenonT(30)
<1>11. 1 \in DOMAIN insts /\ top.fn # "do_for" /\ \A j \in DOMAIN insts : j = 1
  BY <1>1, <1>2, <1>7, <1>10
<1> QED BY <1>1, <1>2, <1>3, <1>7, <1>8, <1>9, <1>10, <1>11, SettlesStep

LEMMA ForConditionStep ==
  ASSUME ScopesIInv, for_condition
  PROVE  ScopesIInv'
<1>1. status = "parsing" /\ TopFrame.fn = "do_for" /\ TopFrame.at = "then" /\ TopFrame.fn \in LoopFns /\ ScopesTypeOK
  BY DEF ScopesIInv, for_condition, In, At, LoopFns
<1>2. PICK here, frame, next, loop : here = chunk_idx /\ frame = TopFrame /\ next = Here /\ loop = frame.loop
  OBVIOUS
<1>3. PICK first, second, third :
        first = Jump("jmp_false", "out", loop) /\ second = Jump("jmp", "skip", loop) /\ third = Plain("nop", 0, 0)
  OBVIOUS
<1>4. PICK insts : insts = <<first, second, third>>
  OBVIOUS
<1>5. loop \in LoopIds
  <2>1. frame \in ForFrames
    BY <1>1, <1>2, TopKnows, TopIsFor
  <2> QED BY <1>2, <2>1 DEF ForFrames
<1>6. first \in AllInsts /\ second \in AllInsts /\ third \in AllInsts /\ third.op = "nop"
  <2>1. first \in AllInsts /\ second \in AllInsts
    <3>1. "out" \in Roles /\ "skip" \in Roles
      BY DEF Roles
    <3>2. first \in AllInsts
      BY <1>3, <1>5, <3>1, JumpIsInst
    <3>3. second \in AllInsts
      BY <1>3, <1>5, <3>1, JumpIsInst
    <3> QED BY <3>2, <3>3
  <2>2. third \in AllInsts /\ third.op = "nop"
    BY <1>3 DEF Plain, Inst, AllInsts, Insts
  <2> QED BY <2>1, <2>2
<1>7. /\ insts \in Seq(AllInsts) /\ DOMAIN insts = 1 .. 3 /\ insts[1] = first /\ insts[2] = second /\ insts[3] = third
  BY <1>4, <1>6
<1>8. IsEmitted(chunks, chunks', here, insts)
  <2>1. chunks' = [chunks EXCEPT ![here].code = @ \o insts]
    BY <1>2, <1>3, <1>4 DEF for_condition, Emit
  <2> QED BY <1>1, <1>2, <1>7, <2>1, EmittedAlone
<1>9. LeavesTables /\ loops' = loops /\ chunk_idx' = here
  BY <1>2 DEF for_condition, LeavesTables, scopeVars
<1>10. PICK top \in AllFrames : SameFrame(TopFrame, top) /\ TopBecomes(top) /\ Settled(top) /\ top.out = next /\ top.fn = frame.fn
  <2>1. frames' = [frames EXCEPT ![Len(frames)].at = "update", ![Len(frames)].out = next]
    BY <1>2 DEF for_condition
  <2> QED BY <1>1, <1>2, <2>1, SettlesTop, ZenonT(30)
<1>11. 1 \in DOMAIN insts /\ 2 \in DOMAIN insts
  BY <1>7
<1>12. \A j \in DOMAIN insts : j # 1 => insts[j].op = "nop" \/ (j = 2 /\ insts[j] = second)
  <2>1. ASSUME NEW j \in DOMAIN insts, j # 1 PROVE (j = 3 /\ insts[j] = third) \/ (j = 2 /\ insts[j] = second)
    BY <1>7, <2>1
  <2> QED BY <1>6, <2>1
<1> QED BY <1>1, <1>2, <1>3, <1>7, <1>8, <1>9, <1>10, <1>11, <1>12, SettlesStep

\* The innermost open loop is that of the topmost call of a loop.
LEMMA InnermostLoop ==
  ASSUME ScopesTypeOK, NEW own, Nested(own), loops # <<>>
  PROVE  \E k \in DOMAIN own : frames[k].fn \in LoopFns /\ own[k].loops = Len(loops) /\ LoopAround = frames[k].loop
<1>1. Len(loops) \in 1 .. Len(loops)
  BY DEF ScopesTypeOK
<1>2. PICK k \in DOMAIN own : frames[k].fn \in LoopFns /\ own[k].loops = Len(loops)
  BY <1>1 DEF Nested
<1>3. PICK n : n = Len(frames)
  OBVIOUS
<1>4. DOMAIN own = 1 .. n /\ DOMAIN frames = 1 .. n /\ n \in Nat /\ \A i \in 1 .. n : own[i] \in Owners
  BY <1>3, FramesFacts
<1>5. PICK S : S = {j \in DOMAIN frames : frames[j].fn \in {"do_while", "do_for"}}
  OBVIOUS
<1>6. k \in S /\ S \subseteq 1 .. n /\ S \subseteq Int
  BY <1>2, <1>4, <1>5 DEF LoopFns
<1>7. ASSUME NEW j \in S PROVE k >= j
  <2>1. j \in DOMAIN own /\ frames[j].fn \in LoopFns
    BY <1>4, <1>5 DEF LoopFns
  <2>2. SUFFICES ASSUME k < j PROVE FALSE
    BY <1>6, <1>7
  <2>3. FarAbove(own, k, j)
    BY <1>2, <2>1, <2>2 DEF Nested
  <2>4. own[k].loops < own[j].loops
    BY <2>1, <2>3 DEF FarAbove
  <2>5. own[j].loops \in 0 .. Len(loops)
    BY <2>1, OwnedInside
  <2>6. Len(loops) \in Nat
    BY DEF ScopesTypeOK
  <2> QED BY <1>2, <2>4, <2>5, <2>6
<1>8. \E x \in S : \A y \in S : x >= y
  BY <1>6, <1>7
<1>9. Max(S) \in S /\ \A y \in S : Max(S) >= y
  BY <1>8 DEF Max
<1>10. Max(S) = k
  BY <1>6, <1>7, <1>9
<1> QED BY <1>2, <1>5, <1>10 DEF LoopAround

LEMMA FitsIsOpen ==
  ASSUME NEW own, NEW k, LoopFits(own, k), NEW loop, loop = frames[k].loop, NEW tracked, tracked = loops[own[k].loops]
  PROVE  OpenLoop(loop, frames[k], tracked)
BY DEF LoopFits, OpenLoop

LEMMA OneBefore ==
  ASSUME NEW S, NEW next \in Nat, NEW T, T = S \cup {next + 1}
  PROVE  {j - 1 : j \in T} = {j - 1 : j \in S} \cup {next}
<1>1. next + 1 - 1 = next
  OBVIOUS
<1>2. {j - 1 : j \in T} = {j - 1 : j \in S} \cup {next + 1 - 1}
  OBVIOUS
<1> QED BY <1>1, <1>2

\* After a BREAK or a CONTINUE.
OneMoreWaits(tracked, tracked2, role, next) ==
  /\ tracked2.loop_breaks = IF role = "break" THEN tracked.loop_breaks \cup {next} ELSE tracked.loop_breaks
  /\ tracked2.loop_continues = IF role = "continue" THEN tracked.loop_continues \cup {next} ELSE tracked.loop_continues

LEMMA OpenLoopLeft ==
  ASSUME ScopesTypeOK, NEW here, NEW inst \in AllInsts, NEW insts \in Seq(AllInsts), DOMAIN insts = {1}, insts[1] = inst,
         IsEmitted(chunks, chunks', here, insts),
         NEW loop, loop.chunk = here, loop.begin \in Nat, NEW role \in {"break", "continue"}, JumpFor(inst, role, loop),
         NEW frame, NEW tracked, OpenLoop(loop, frame, tracked), NEW next, next = Len(chunks[here].code),
         NEW frame2, frame2.fn = frame.fn, frame2.out = frame.out, Settled(frame2) <=> Settled(frame), NEW tracked2, OneMoreWaits(tracked, tracked2, role, next)
  PROVE  OpenLoop(loop, frame2, tracked2)'
<1>2. PICK code, code2 : code = chunks[here].code /\ code2 = chunks'[here].code
  OBVIOUS
<1>3. /\ here \in DOMAIN chunks /\ next \in Nat /\ Len(code2) >= next /\ Len(code2) \in Nat
      /\ \A j \in DOMAIN insts : next + j \in DOMAIN code2 \ DOMAIN code /\ code2[next + j] = insts[j]
      /\ \A i \in DOMAIN code2 \ DOMAIN code : \E j \in DOMAIN insts : i = next + j /\ code2[i] = insts[j]
  BY <1>2, EmittedAt
<1>4. PICK p : p = next + 1
  OBVIOUS
<1>5. p \in DOMAIN code2 \ DOMAIN code /\ code2[p] = inst /\ \A i \in DOMAIN code2 \ DOMAIN code : i = p
  BY <1>3, <1>4
<1>6. ChunkGrows(chunks[here], chunks'[here])
  BY DEF IsEmitted
<1>7. inst.for.role = role
  BY DEF JumpFor
<1>8. ASSUME NEW other, other # role PROVE JumpsOf(other, loop)' = JumpsOf(other, loop)
  <2>1. \A i \in DOMAIN chunks'[here].code \ DOMAIN chunks[here].code :
           IsJump(chunks'[here].code[i]) => chunks'[here].code[i].for.role # other
    BY <1>2, <1>5, <1>7, <1>8
  <2> QED BY <1>3, <1>6, <2>1, RoleStays
<1>9. JumpsOf(role, loop)' = JumpsOf(role, loop) \cup {p}
  <2>1. /\ p \in DOMAIN chunks'[here].code \ DOMAIN chunks[here].code
        /\ JumpFor(chunks'[here].code[p], role, loop) /\ OthersApart(p, here, role)
    BY <1>2, <1>5 DEF OthersApart
  <2> QED BY <1>3, <1>6, <2>1, RoleAdded
<1>10. /\ loop.begin <= next /\ JumpsOf("again", loop) = {}
       /\ tracked.loop_breaks = {j - 1 : j \in JumpsOf("break", loop)}
       /\ tracked.loop_continues = {j - 1 : j \in JumpsOf("continue", loop)}
       /\ JumpsOf("out", loop) = IF Settled(frame) THEN {frame.out + 1} ELSE {}
       /\ frame.fn = "do_for" /\ Settled(frame) => frame.out + 2 \in JumpsOf("skip", loop)
  BY DEF OpenLoop, CodeOf
<1>11. {j - 1 : j \in JumpsOf(role, loop)'} = {j - 1 : j \in JumpsOf(role, loop)} \cup {next}
  <2>1. PICK S, T : S = JumpsOf(role, loop) /\ T = JumpsOf(role, loop)'
    OBVIOUS
  <2>2. T = S \cup {next + 1} /\ next \in Nat
    BY <1>3, <1>4, <1>9, <2>1
  <2>3. {j - 1 : j \in T} = {j - 1 : j \in S} \cup {next}
    BY <2>2, OneBefore
  <2> QED BY <2>1, <2>3
<1>12. tracked2.loop_breaks = {j - 1 : j \in JumpsOf("break", loop)'}
  <2>1. CASE role = "break"
    BY <1>10, <1>11, <2>1 DEF OneMoreWaits
  <2>2. CASE role # "break"
    BY <1>8, <1>10, <2>2 DEF OneMoreWaits
  <2> QED BY <2>1, <2>2
<1>13. tracked2.loop_continues = {j - 1 : j \in JumpsOf("continue", loop)'}
  <2>1. CASE role = "continue"
    BY <1>10, <1>11, <2>1 DEF OneMoreWaits
  <2>2. CASE role # "continue"
    BY <1>8, <1>10, <2>2 DEF OneMoreWaits
  <2> QED BY <2>1, <2>2
<1>14. JumpsOf("again", loop)' = {} /\ JumpsOf("out", loop)' = JumpsOf("out", loop) /\ JumpsOf("skip", loop)' = JumpsOf("skip", loop)
  BY <1>8, <1>10
<1>15. loop.begin <= Len(code2)
  BY <1>3, <1>10
<1> QED BY <1>2, <1>10, <1>12, <1>13, <1>14, <1>15 DEF OpenLoop, CodeOf, Settled

LoopBecomes(tracked) == loops' = [loops EXCEPT ![Len(loops)] = tracked]

\* The call on top is at its next statement.
LEMMA PastTop ==
  ASSUME ScopesIInv, status = "parsing", TopFrame.at \in {"block", "body"}, frames' = Past
  PROVE  \E top \in AllFrames : /\ SameFrame(TopFrame, top) /\ TopBecomes(top) /\ SameLoop(TopFrame, top)
<1>1. PICK frame, top : frame = TopFrame /\ top = [frame EXCEPT !.at = "body"]
  OBVIOUS
<1>2. frame \in AllFrames
  BY <1>1, TopKnows
<1>3. "body" \in Places
  BY DEF Places
<1>4. /\ top \in AllFrames /\ top.at = "body" /\ SameFrame(frame, top) /\ (frame.fn \in LoopFns => top.out = frame.out)
  BY <1>1, <1>2, <1>3, FrameMoves
<1>5. SameLoop(frame, top)
  BY <1>1, <1>4 DEF SameLoop, Settled
<1>6. TopBecomes(top)
  <2>1. PICK own \in Seq(Owners) : Compiling(own) /\ Nested(own)
    BY Parsing
  <2>2. Len(frames) \in DOMAIN frames /\ TopFrame = frames[Len(frames)]
    <3>1. ScopesTypeOK
      BY DEF ScopesIInv
    <3> QED BY <2>1, <3>1, FramesFacts
  <2> QED BY <1>1, <2>2 DEF TopBecomes, Past
<1> QED BY <1>1, <1>4, <1>5, <1>6

LEMMA JumpsFor ==
  ASSUME NEW op \in {"jmp", "jmp_false"}, NEW role, NEW loop, NEW inst, inst = Jump(op, role, loop)
  PROVE  JumpFor(inst, role, loop) /\ IsJump(inst) /\ inst.for.loop = loop /\ inst.for.role = role /\ inst.flag = 0
BY DEF JumpFor, IsJump, Jump, Inst

LEMMA LeavesLoop ==
  ASSUME ScopesIInv, status = "parsing", TopFrame.at \in {"block", "body"}, frames' = Past, loops # <<>>,
         NEW role \in {"break", "continue"}, NEW here, here = chunk_idx, chunk_idx' = here, LeavesTables,
         NEW next, next = Here, NEW tracked, tracked = Last(loops), NEW tracked2 \in LoopRecs, LoopBecomes(tracked2),
         OneMoreWaits(tracked, tracked2, role, next),
         NEW loop, loop = LoopAround, NEW inst, inst = Jump("jmp", role, loop), Emit(<<inst>>)
  PROVE  ScopesIInv'
<1>1. PICK own \in Seq(Owners) : Compiling(own) /\ Nested(own)
  BY Parsing
<1>2. ScopesTypeOK
  BY DEF ScopesIInv
<1>3. PICK n : n = Len(frames)
  OBVIOUS
<1>4. PICK k \in DOMAIN own : frames[k].fn \in LoopFns /\ own[k].loops = Len(loops) /\ loop = frames[k].loop
  BY <1>1, <1>2, InnermostLoop
<1>5. loop \in LoopIds /\ Len(loops) \in DOMAIN loops /\ loops \in Seq(LoopRecs)
  <2>1. loop \in LoopIds /\ Len(loops) \in DOMAIN loops
    BY <1>1, <1>2, <1>4, LoopInside
  <2> QED BY <1>2, <2>1 DEF ScopesTypeOK
<1>6. inst \in AllInsts
  <2>1. role \in Roles
    BY DEF Roles
  <2> QED BY <1>5, <2>1, JumpIsInst
<1>7. PICK insts : insts = <<inst>>
  OBVIOUS
<1>8. insts \in Seq(AllInsts) /\ DOMAIN insts = {1} /\ insts[1] = inst
  BY <1>6, <1>7
<1>9. IsEmitted(chunks, chunks', here, insts)
  <2>1. chunks' = [chunks EXCEPT ![here].code = @ \o insts]
    BY <1>7 DEF Emit
  <2> QED BY <1>2, <1>8, <2>1, EmittedAlone
<1>10. JumpFor(inst, role, loop) /\ IsJump(inst) /\ inst.for.loop = loop /\ inst.for.role = role /\ inst.flag = 0
  BY JumpsFor
<1>11. JumpsPut(chunks, chunks', here, loop)
  <2>1. \A j \in DOMAIN insts : IsJump(insts[j]) /\ insts[j].for.loop = loop /\ insts[j].flag = 0
    BY <1>8, <1>10
  <2> QED BY <1>2, <1>8, <1>9, <2>1, EmittedJumpsPut
<1>12. PICK top \in AllFrames : SameFrame(TopFrame, top) /\ TopBecomes(top) /\ SameLoop(TopFrame, top)
  BY PastTop
<1>13. /\ loops' \in Seq(LoopRecs) /\ Len(loops') = Len(loops) /\ loops'[Len(loops)] = tracked2
       /\ \A l \in DOMAIN loops : l # own[k].loops => loops'[l] = loops[l]
  BY <1>4, <1>5, Replaced DEF LoopBecomes
<1>14. /\ n \in DOMAIN own /\ DOMAIN own = 1 .. n /\ n \in Nat \ {0} /\ TopFrame = frames[n] /\ DOMAIN frames = 1 .. n
       /\ n \in DOMAIN frames
  BY <1>1, <1>2, <1>3, FramesFacts
<1>15. next = Len(chunks[here].code)
  BY DEF Here, Code
<1>16. \A i \in 1 .. n : (i = n /\ frames'[i] = top) \/ frames'[i] = frames[i]
  BY <1>3, <1>12, <1>14 DEF TopBecomes
<1>17. ASSUME ~ StrayJump' PROVE loop.chunk = here /\ JumpsOf("again", loop)' = {} /\ LoopFits(own, k)'
  <2>1. ~ StrayJump
    BY <1>2, <1>11, <1>17, JumpsPutApart, StrayStays
  <2>2. LoopFits(own, k)
    BY <1>1, <1>4, <2>1 DEF Compiling, JumpsFit
  <2>3. PICK code2 : code2 = chunks'[here].code
    OBVIOUS
  <2>4. loop.chunk = here
    <3>1. next + 1 \in DOMAIN code2 /\ code2[next + 1] = insts[1] /\ here \in DOMAIN chunks
      BY <1>2, <1>8, <1>9, <1>15, <2>3, EmittedAt
    <3>2. here \in DOMAIN chunks'
      BY <3>1, <1>11 DEF JumpsPut
    <3> QED BY <1>8, <1>10, <1>17, <2>3, <3>1, <3>2 DEF StrayJump, CodeOf
  <2>5. PICK frame, frame2 : frame = frames[k] /\ frame2 = frames'[k]
    OBVIOUS
  <2>6. frame2.fn = frame.fn /\ frame2.out = frame.out /\ (Settled(frame2) <=> Settled(frame))
    <3>1. CASE k = n /\ frame2 = top
      BY <1>4, <1>12, <1>14, <2>5, <3>1 DEF SameLoop, SameFrame
    <3>2. CASE frame2 = frame
      BY <3>2
    <3> QED BY <1>14, <1>16, <2>5, <3>1, <3>2
  <2>7. tracked = loops[own[k].loops] /\ tracked2 = loops'[own[k].loops]
    BY <1>4, <1>13 DEF Last
  <2>8. OpenLoop(loop, frame, tracked)
    BY <1>4, <2>2, <2>5, <2>7, FitsIsOpen
  <2>9. loop.begin \in Nat
    BY <1>5 DEF LoopIds
  <2>10. OpenLoop(loop, frame2, tracked2)'
    BY <1>2, <1>6, <1>8, <1>9, <1>10, <1>15, <2>4, <2>6, <2>8, <2>9, OpenLoopLeft
  <2>11. Continues(own, own, n)
    BY <1>12, <1>14, <1>16, SameFrameItself DEF Continues
  <2>12. LoopFits(own, k)'
    BY <1>4, <1>14, <2>2, <2>5, <2>7, <2>10, <2>11, OpenLoopOn
  <2>13. JumpsOf("again", loop)' = {}
    BY <2>10 DEF OpenLoop
  <2> QED BY <2>4, <2>12, <2>13
<1>18. CodePut(chunks, chunks', here)
  BY <1>11, PutIsCode
<1> QED BY <1>1, <1>3, <1>4, <1>11, <1>12, <1>13, <1>17, <1>18, LoopMoves

LEMMA BreakStep ==
  ASSUME ScopesIInv, compiler_do_break
  PROVE  ScopesIInv'
<1>1. PICK tracked, next, tracked2 :
        tracked = Last(loops) /\ next = Here /\ tracked2 = [tracked EXCEPT !.loop_breaks = @ \cup {next}]
  OBVIOUS
<1>2. LeaveFor("break", tracked2)
  BY <1>1 DEF compiler_do_break
<1>3. status = "parsing" /\ TopFrame.at \in {"block", "body"} /\ ScopesTypeOK
  BY <1>2 DEF LeaveFor, AtStatement, At, ScopesIInv
<1>4. CASE loops = <<>>
  BY <1>2, <1>4, FailStep DEF LeaveFor
<1>5. CASE loops # <<>>
  <2>1. PICK here, loop : here = chunk_idx /\ loop = LoopAround
    OBVIOUS
  <2>2. PICK inst : inst = Jump("jmp", "break", loop)
    OBVIOUS
  <2>3. LoopBecomes(tracked2) /\ Emit(<<inst>>) /\ frames' = Past /\ LeavesTables /\ chunk_idx' = here
    BY <1>2, <1>5, <2>1, <2>2 DEF LeaveFor, LoopBecomes, LeavesTables
  <2>4. tracked \in LoopRecs /\ next \in Nat
    <3>1. loops \in Seq(LoopRecs) /\ Len(loops) \in DOMAIN loops
      BY <1>3, <1>5 DEF ScopesTypeOK
    <3> QED BY <1>1, <1>3, <3>1, HereIsNatural DEF Last
  <2>5. /\ tracked2 \in LoopRecs /\ tracked2.loop_breaks = tracked.loop_breaks \cup {next}
        /\ tracked2.loop_continues = tracked.loop_continues
    BY <1>1, <2>4 DEF LoopRecs
  <2>6. OneMoreWaits(tracked, tracked2, "break", next)
    BY <2>5 DEF OneMoreWaits
  <2> QED BY <1>1, <1>3, <1>5, <2>1, <2>2, <2>3, <2>5, <2>6, LeavesLoop
<1> QED BY <1>4, <1>5

LEMMA ContinueStep ==
  ASSUME ScopesIInv, compiler_do_continue
  PROVE  ScopesIInv'
<1>1. PICK tracked, next, tracked2 :
        tracked = Last(loops) /\ next = Here /\ tracked2 = [tracked EXCEPT !.loop_continues = @ \cup {next}]
  OBVIOUS
<1>2. LeaveFor("continue", tracked2)
  BY <1>1 DEF compiler_do_continue
<1>3. status = "parsing" /\ TopFrame.at \in {"block", "body"} /\ ScopesTypeOK
  BY <1>2 DEF LeaveFor, AtStatement, At, ScopesIInv
<1>4. CASE loops = <<>>
  BY <1>2, <1>4, FailStep DEF LeaveFor
<1>5. CASE loops # <<>>
  <2>1. PICK here, loop : here = chunk_idx /\ loop = LoopAround
    OBVIOUS
  <2>2. PICK inst : inst = Jump("jmp", "continue", loop)
    OBVIOUS
  <2>3. LoopBecomes(tracked2) /\ Emit(<<inst>>) /\ frames' = Past /\ LeavesTables /\ chunk_idx' = here
    BY <1>2, <1>5, <2>1, <2>2 DEF LeaveFor, LoopBecomes, LeavesTables
  <2>4. tracked \in LoopRecs /\ next \in Nat
    <3>1. loops \in Seq(LoopRecs) /\ Len(loops) \in DOMAIN loops
      BY <1>3, <1>5 DEF ScopesTypeOK
    <3> QED BY <1>1, <1>3, <3>1, HereIsNatural DEF Last
  <2>5. /\ tracked2 \in LoopRecs /\ tracked2.loop_continues = tracked.loop_continues \cup {next}
        /\ tracked2.loop_breaks = tracked.loop_breaks
    BY <1>1, <2>4 DEF LoopRecs
  <2>6. OneMoreWaits(tracked, tracked2, "continue", next)
    BY <2>5 DEF OneMoreWaits
  <2> QED BY <1>1, <1>3, <1>5, <2>1, <2>2, <2>3, <2>5, <2>6, LeavesLoop
<1> QED BY <1>4, <1>5

(***************************************************************************)
(* Instructions are patched.                                               *)
(***************************************************************************)
SameButTarget(old, new) ==
  /\ new \in AllInsts /\ new.op = old.op /\ new.for = old.for /\ new.info = old.info

LEMMA Retargeted ==
  ASSUME NEW old \in AllInsts, old.op # "ret", NEW wide \in Int, NEW flag \in Int
  PROVE  /\ SameButTarget(old, old)
         /\ SameButTarget(old, [old EXCEPT !.wide = wide]) /\ [old EXCEPT !.wide = wide].wide = wide
         /\ [old EXCEPT !.wide = wide].flag = old.flag
         /\ SameButTarget(old, [old EXCEPT !.wide = wide, !.flag = flag])
         /\ [old EXCEPT !.wide = wide, !.flag = flag].wide = wide /\ [old EXCEPT !.wide = wide, !.flag = flag].flag = flag
<1>1. ASSUME NEW ops, NEW fors, old \in Insts(ops, fors), Insts(ops, fors) \subseteq AllInsts
      PROVE  /\ SameButTarget(old, [old EXCEPT !.wide = wide]) /\ [old EXCEPT !.wide = wide].wide = wide
             /\ [old EXCEPT !.wide = wide].flag = old.flag
             /\ SameButTarget(old, [old EXCEPT !.wide = wide, !.flag = flag])
             /\ [old EXCEPT !.wide = wide, !.flag = flag].wide = wide /\ [old EXCEPT !.wide = wide, !.flag = flag].flag = flag
  <2>1. [old EXCEPT !.wide = wide] \in Insts(ops, fors) /\ [old EXCEPT !.wide = wide, !.flag = flag] \in Insts(ops, fors)
    BY <1>1 DEF Insts
  <2>2. old = [op |-> old.op, flag |-> old.flag, wide |-> old.wide, for |-> old.for, info |-> old.info]
    BY <1>1 DEF Insts
  <2> QED BY <1>1, <2>1, <2>2 DEF SameButTarget
<1>2. \E ops, fors : old \in Insts(ops, fors) /\ Insts(ops, fors) \subseteq AllInsts
  BY DEF AllInsts
<1> QED BY <1>1, <1>2 DEF SameButTarget

LEMMA WideChanged ==
  ASSUME NEW old \in AllInsts, old.op # "ret", NEW wide \in Int, NEW new, new = [old EXCEPT !.wide = wide]
  PROVE  SameButTarget(old, new) /\ new.wide = wide /\ new.flag = old.flag
<1>1. 0 \in Int
  OBVIOUS
<1> QED BY <1>1, Retargeted

Turned(old, wide) == [old EXCEPT !.wide = wide, !.flag = 1]

LEMMA TurnedBack ==
  ASSUME NEW old \in AllInsts, old.op # "ret", NEW wide \in Int, NEW new, new = Turned(old, wide)
  PROVE  SameButTarget(old, new) /\ new.wide = wide /\ new.flag = 1
<1>1. PICK ops, fors : old \in Insts(ops, fors) /\ Insts(ops, fors) \subseteq AllInsts
  BY DEF AllInsts
<1>2. old = [op |-> old.op, flag |-> old.flag, wide |-> old.wide, for |-> old.for, info |-> old.info]
  BY <1>1 DEF Insts
<1>3. new = [op |-> old.op, flag |-> 1, wide |-> wide, for |-> old.for, info |-> old.info]
  BY <1>2 DEF Turned
<1>4. new \in Insts(ops, fors)
  BY <1>1, <1>3 DEF Insts
<1> QED BY <1>1, <1>3, <1>4 DEF SameButTarget

\* Code is put in the place of the current code.
LEMMA CodeReplaced ==
  ASSUME ScopesTypeOK, NEW here \in DOMAIN chunks, NEW code, code = chunks[here].code, NEW code2 \in Seq(AllInsts),
         chunks' = [chunks EXCEPT ![here].code = code2],
         \A i \in DOMAIN code : i \in DOMAIN code2 /\ SameButTarget(code[i], code2[i]),
         \A i \in DOMAIN code2 \ DOMAIN code : code2[i].op \in {"jmp", "jmp_false", "nop"}
  PROVE  CodePut(chunks, chunks', here) /\ chunks'[here].code = code2 /\ ChunkGrows(chunks[here], chunks'[here])
<1>1. PICK chunk : chunk = [chunks[here] EXCEPT !.code = code2]
  OBVIOUS
<1>2. chunks[here] \in ChunkRecs /\ chunks \in Seq(ChunkRecs)
  BY ChunkTyped DEF ScopesTypeOK
<1>3. /\ chunk \in ChunkRecs /\ chunk.code = code2 /\ chunk.params = chunks[here].params
      /\ chunk.captures = chunks[here].captures /\ chunk.constants = chunks[here].constants
  BY <1>1, <1>2 DEF ChunkRecs
<1>4. PICK new : new = chunks'
  OBVIOUS
<1>5. new = [chunks EXCEPT ![here] = chunk]
  BY <1>1, <1>4
<1>6. /\ new \in Seq(ChunkRecs) /\ DOMAIN new = DOMAIN chunks /\ new[here] = chunk
      /\ \A c \in DOMAIN chunks : c # here => new[c] = chunks[c]
  BY <1>2, <1>3, <1>5, OneChunkPut
<1>7. ChunkGrows(chunks[here], chunk)
  BY <1>3 DEF ChunkGrows, SameButTarget
<1>8. \A i \in DOMAIN new[here].code \ DOMAIN chunks[here].code : new[here].code[i].op \in {"jmp", "jmp_false", "nop"}
  BY <1>3, <1>6
<1>9. CodePut(chunks, new, here)
  BY <1>6, <1>7, <1>8 DEF CodePut
<1> QED BY <1>3, <1>4, <1>6, <1>7, <1>9

\* The jumps of one loop, that is.
LEMMA CodeIsPut ==
  ASSUME NEW old, NEW new, NEW here, CodePut(old, new, here), NEW loop,
         \A i \in DOMAIN new[here].code :
           LET inst == new[here].code[i]
           IN \/ i \in DOMAIN old[here].code /\ inst = old[here].code[i]
              \/ i \notin DOMAIN old[here].code /\ inst.op = "nop"
              \/ /\ IsJump(inst) /\ inst.for.loop = loop
                 /\ inst.for.role \in {"break", "out"} => inst.flag = 0
  PROVE  JumpsPut(old, new, here, loop)
BY DEF CodePut, JumpsPut

LEMMA OpenLoopKept ==
  ASSUME NEW here \in DOMAIN chunks, ChunkGrows(chunks[here], chunks'[here]), NEW loop, loop.chunk = here, loop.begin \in Nat,
         Len(chunks[here].code) \in Nat, Len(chunks'[here].code) \in Nat, Len(chunks'[here].code) >= Len(chunks[here].code),
         \A i \in DOMAIN chunks'[here].code \ DOMAIN chunks[here].code :
           IsJump(chunks'[here].code[i]) => chunks'[here].code[i].for.role = "repeat",
         NEW frame, NEW tracked, OpenLoop(loop, frame, tracked),
         NEW frame2, frame2.fn = frame.fn, frame2.out = frame.out, Settled(frame2) <=> Settled(frame)
  PROVE  OpenLoop(loop, frame2, tracked)'
<1>1. ASSUME NEW role, role # "repeat" PROVE JumpsOf(role, loop)' = JumpsOf(role, loop)
  <2>1. \A i \in DOMAIN chunks'[here].code \ DOMAIN chunks[here].code :
           IsJump(chunks'[here].code[i]) => chunks'[here].code[i].for.role # role
    BY <1>1
  <2> QED BY <2>1, RoleStays
<1>2. loop.begin <= Len(chunks'[here].code)
  BY DEF OpenLoop, CodeOf
<1>3. /\ JumpsOf("again", loop)' = JumpsOf("again", loop) /\ JumpsOf("break", loop)' = JumpsOf("break", loop)
      /\ JumpsOf("continue", loop)' = JumpsOf("continue", loop) /\ JumpsOf("out", loop)' = JumpsOf("out", loop)
      /\ JumpsOf("skip", loop)' = JumpsOf("skip", loop)
  BY <1>1
<1> QED BY <1>2, <1>3 DEF OpenLoop, CodeOf, Settled

\* The current code, which is not finished.
LEMMA CurrentCode ==
  ASSUME ScopesIInv, NEW own, Compiling(own), NEW here, here = chunk_idx, NEW code, code = chunks[here].code
  PROVE  /\ here \in DOMAIN chunks /\ code \in Seq(AllInsts) /\ Code = code /\ Here = Len(code) /\ Len(code) \in Nat \ {0}
         /\ \A i \in DOMAIN code : code[i].op # "ret" /\ code[i] \in AllInsts
<1>1. ScopesTypeOK /\ Nested(own) /\ NamesFit(own)
  BY DEF ScopesIInv, Compiling
<1>2. here \in DOMAIN chunks /\ code \in Seq(AllInsts)
  BY <1>1, ChunkTyped DEF ScopesTypeOK
<1>3. PICK n : n \in DOMAIN own /\ own[n].chunk = here
  BY <1>1, FramesFacts
<1>4. Unfinished(here)
  BY <1>1, <1>3 DEF NamesFit
<1>5. \A i \in DOMAIN code : code[i].op # "ret"
  BY <1>4 DEF Unfinished, CodeOf
<1>6. code # <<>>
  BY <1>4 DEF Unfinished, CodeOf
<1> QED BY <1>2, <1>5, <1>6 DEF Code, Here

TargetsChange(old, new) ==
  /\ new \in Seq(AllInsts) /\ Len(new) = Len(old) /\ DOMAIN new = DOMAIN old
  /\ \A i \in DOMAIN old : SameButTarget(old[i], new[i])

\* An instruction is patched, if it is there.
LEMMA OnePatched ==
  ASSUME NEW code \in Seq(AllInsts), \A i \in DOMAIN code : code[i].op # "ret", NEW p \in Int, NEW wide \in Int,
         NEW new, new = [code EXCEPT ![p].wide = wide]
  PROVE  /\ TargetsChange(code, new)
         /\ \A i \in DOMAIN code : i # p => new[i] = code[i]
         /\ p \in DOMAIN code => new[p].wide = wide /\ new[p].flag = code[p].flag
<1>1. CASE p \in DOMAIN code
  <2>1. PICK inst : inst = [code[p] EXCEPT !.wide = wide]
    OBVIOUS
  <2>2. code[p] \in AllInsts /\ code[p].op # "ret"
    BY <1>1
  <2>3. 0 \in Int
    OBVIOUS
  <2>4. SameButTarget(code[p], inst) /\ inst.wide = wide /\ inst.flag = code[p].flag
    BY <2>1, <2>2, <2>3, Retargeted
  <2>5. inst \in AllInsts
    BY <2>4 DEF SameButTarget
  <2>6. new = [code EXCEPT ![p] = inst]
    BY <2>1
  <2>7. new \in Seq(AllInsts) /\ Len(new) = Len(code) /\ DOMAIN new = DOMAIN code /\ new[p] = inst
        /\ \A i \in DOMAIN code : i # p => new[i] = code[i]
    BY <1>1, <2>5, <2>6, Replaced
  <2>8. ASSUME NEW i \in DOMAIN code PROVE SameButTarget(code[i], new[i])
    <3>1. CASE i = p
      BY <2>4, <2>7, <3>1
    <3>2. CASE i # p
      BY <2>7, <3>2 DEF SameButTarget
    <3> QED BY <3>1, <3>2
  <2>9. TargetsChange(code, new)
    BY <2>7, <2>8 DEF TargetsChange
  <2> QED BY <2>4, <2>7, <2>9
<1>2. CASE p \notin DOMAIN code
  <2>1. new = code
    BY <1>2
  <2>2. \A i \in DOMAIN code : code[i] \in AllInsts
    OBVIOUS
  <2>3. TargetsChange(code, new)
    BY <2>1, <2>2 DEF TargetsChange, SameButTarget
  <2> QED BY <1>2, <2>1, <2>3
<1> QED BY <1>1, <1>2

LEMMA UpdatedStep ==
  ASSUME ScopesIInv, for_updated
  PROVE  ScopesIInv'
<1>1. status = "parsing" /\ TopFrame.fn = "do_for" /\ TopFrame.at = "updated" /\ TopFrame.fn \in LoopFns /\ ScopesTypeOK
  BY DEF ScopesIInv, for_updated, In, At, LoopFns
<1>2. PICK own \in Seq(Owners) : Compiling(own) /\ Nested(own)
  BY <1>1, Parsing
<1>3. PICK here, frame, loop, tracked, n :
        here = chunk_idx /\ frame = TopFrame /\ loop = frame.loop /\ tracked = Last(loops) /\ n = Len(frames)
  OBVIOUS
<1>4. PICK code, next : code = chunks[here].code /\ next = Len(code)
  OBVIOUS
<1>5. /\ here \in DOMAIN chunks /\ code \in Seq(AllInsts) /\ Code = code /\ Here = next /\ next \in Nat
      /\ \A i \in DOMAIN code : code[i].op # "ret" /\ code[i] \in AllInsts
  BY <1>2, <1>3, <1>4, CurrentCode
<1>6. /\ frame = frames[n] /\ n \in DOMAIN own /\ DOMAIN own = 1 .. n /\ n \in Nat \ {0}
      /\ loop \in LoopIds /\ own[n].loops = Len(loops) /\ Len(loops) \in DOMAIN loops
      /\ tracked = loops[own[n].loops] /\ loops \in Seq(LoopRecs)
  BY <1>1, <1>2, <1>3, TopLoop
<1>7. frame \in ForFrames /\ frame \in AllFrames
  BY <1>1, <1>3, TopKnows, TopIsFor
<1>8. frame.out \in Nat /\ frame.begin \in Nat
  BY <1>7 DEF ForFrames
<1>9. PICK p, back, patched, code2 :
        /\ p = frame.out + 2
        /\ back = [Jump("jmp", "repeat", loop) EXCEPT !.flag = 1, !.wide = next - frame.begin]
        /\ patched = [code EXCEPT ![p].wide = next + 1 - (frame.out + 1)] /\ code2 = Append(patched, back)
  OBVIOUS
<1>10. p \in Int /\ next + 1 - (frame.out + 1) \in Int /\ next - frame.begin \in Int /\ p = frame.out + 1 + 1
  BY <1>5, <1>8, <1>9, SMTT(30)
<1>11. chunks' = [chunks EXCEPT ![here].code = code2]
  <2>1. chunks' = [chunks EXCEPT ![here].code =
           Append([@ EXCEPT ![p].wide = next + 1 - (frame.out + 1)], back)]
    BY <1>3, <1>5, <1>9, <1>10 DEF for_updated
  <2> QED BY <1>4, <1>5, <1>9, <2>1
<1>12. back \in AllInsts /\ JumpFor(back, "repeat", loop) /\ IsJump(back) /\ back.op = "jmp" /\ back.for.loop = loop
       /\ back.for.role = "repeat"
  <2>1. PICK plain : plain = Jump("jmp", "repeat", loop)
    OBVIOUS
  <2>2. "repeat" \in Roles
    BY DEF Roles
  <2>3. plain \in AllInsts
    BY <1>6, <2>1, <2>2, JumpIsInst
  <2>4. JumpFor(plain, "repeat", loop) /\ plain.for.loop = loop /\ plain.for.role = "repeat"
    BY <2>1, JumpsFor
  <2>5. plain.op = "jmp"
    BY <2>1 DEF Jump, Inst
  <2>6. back = [plain EXCEPT !.wide = next - frame.begin, !.flag = 1]
    BY <1>9, <2>1
  <2>7. SameButTarget(plain, back)
    <3>1. 1 \in Int /\ plain.op # "ret"
      BY <2>5
    <3> QED BY <1>10, <2>3, <2>6, <3>1, Retargeted
  <2> QED BY <2>4, <2>5, <2>7 DEF SameButTarget, JumpFor, IsJump
<1>13. /\ patched \in Seq(AllInsts) /\ Len(patched) = next /\ DOMAIN patched = DOMAIN code
       /\ \A i \in DOMAIN code : SameButTarget(code[i], patched[i])
       /\ \A i \in DOMAIN code : i # p => patched[i] = code[i]
  <2>1. PICK wide : wide = next + 1 - (frame.out + 1)
    OBVIOUS
  <2>2. code \in Seq(AllInsts) /\ p \in Int /\ wide \in Int /\ patched = [code EXCEPT ![p].wide = wide]
    BY <1>5, <1>9, <1>10, <2>1
  <2>3. \A i \in DOMAIN code : code[i].op # "ret"
    BY <1>5
  <2>4. TargetsChange(code, patched) /\ \A i \in DOMAIN code : i # p => patched[i] = code[i]
    BY <2>2, <2>3, OnePatched
  <2> QED BY <1>4, <2>4 DEF TargetsChange
<1>14. /\ code2 \in Seq(AllInsts) /\ DOMAIN code2 = 1 .. next + 1 /\ Len(code2) = next + 1 /\ DOMAIN code = 1 .. next
       /\ \A i \in DOMAIN code : i \in DOMAIN code2 /\ code2[i] = patched[i]
       /\ \A i \in DOMAIN code2 \ DOMAIN code : code2[i] = back
  <2>1. /\ code \in Seq(AllInsts) /\ next = Len(code) /\ next \in Nat /\ code2 = Append(patched, back) /\ back \in AllInsts
        /\ patched \in Seq(AllInsts) /\ Len(patched) = next
    BY <1>4, <1>5, <1>9, <1>12, <1>13
  <2>2. DOMAIN code = 1 .. next
    BY <2>1
  <2>3. /\ code2 \in Seq(AllInsts) /\ DOMAIN code2 = 1 .. next + 1 /\ Len(code2) = next + 1
        /\ \A i \in 1 .. next : code2[i] = patched[i] /\ i \in 1 .. next + 1
        /\ code2[next + 1] = back
    BY <2>1
  <2>4. \A i \in 1 .. next + 1 : i \notin 1 .. next => i = next + 1
    BY <2>1
  <2> QED BY <2>2, <2>3, <2>4
<1>15. /\ CodePut(chunks, chunks', here) /\ chunks'[here].code = code2 /\ ChunkGrows(chunks[here], chunks'[here])
  <2>1. \A i \in DOMAIN code : i \in DOMAIN code2 /\ SameButTarget(code[i], code2[i])
    BY <1>13, <1>14
  <2>2. \A i \in DOMAIN code2 \ DOMAIN code : code2[i].op \in {"jmp", "jmp_false", "nop"}
    BY <1>12, <1>14
  <2> QED BY <1>1, <1>4, <1>5, <1>11, <1>14, <2>1, <2>2, CodeReplaced
<1>16. PICK top : top = [frame EXCEPT !.at = "block"]
  OBVIOUS
<1>17. /\ top \in AllFrames /\ top.at = "block" /\ SameFrame(frame, top) /\ top.out = frame.out
  <2>1. "block" \in Places
    BY DEF Places
  <2> QED BY <1>1, <1>3, <1>7, <1>16, <2>1, FrameMoves
<1>18. /\ top.fn = frame.fn /\ (Settled(top) <=> Settled(frame))
  BY <1>1, <1>3, <1>17 DEF Settled, SameFrame
<1>19. TopBecomes(top) /\ n \in DOMAIN frames /\ DOMAIN frames = 1 .. n
  <2>1. n \in DOMAIN frames /\ TopFrame = frames[n] /\ DOMAIN frames = 1 .. n
    BY <1>1, <1>2, <1>3, FramesFacts
  <2> QED BY <1>3, <1>16, <2>1 DEF TopBecomes, for_updated, GoTo
<1>20. LeavesTables /\ loops' = loops /\ chunk_idx' = here
  BY <1>3 DEF for_updated, LeavesTables, scopeVars
<1>21. ASSUME ~ StrayJump' PROVE JumpsPut(chunks, chunks', here, loop) /\ loop.chunk = here /\ OpenLoop(loop, top, tracked)' /\ LoopFits(own, n)
  <2>1. ~ StrayJump
    <3>1. ChunksGrow
      BY <1>1, <1>15, CodePutGrows
    <3> QED BY <1>21, <3>1, StrayStays
  <2>2. loop.chunk = here /\ LoopFits(own, n) /\ OpenLoop(loop, frame, tracked)
    BY <1>1, <1>2, <1>3, <2>1, TopLoop
  <2>3. p \in JumpsOf("skip", loop)
    BY <1>1, <1>3, <1>9, <2>2 DEF OpenLoop, Settled
  <2>4. p \in DOMAIN code /\ IsJump(code[p]) /\ code[p].for = [role |-> "skip", loop |-> loop]
    BY <1>4, <2>2, <2>3 DEF JumpsOf, CodeOf
  <2>5. code[p].for.loop = loop /\ code[p].for.role = "skip"
    BY <2>4
  <2>6. IsJump(code2[p]) /\ code2[p].for.loop = loop /\ code2[p].for.role = "skip"
    BY <1>13, <1>14, <2>4, <2>5 DEF SameButTarget, IsJump
  <2>7. ASSUME NEW i \in DOMAIN code2
        PROVE  \/ i \in DOMAIN code /\ code2[i] = code[i]
               \/ IsJump(code2[i]) /\ code2[i].for.loop = loop /\ code2[i].for.role \notin {"break", "out"}
    <3>1. CASE i = p
      BY <2>6, <3>1
    <3>2. CASE i \in DOMAIN code /\ i # p
      BY <1>13, <1>14, <3>2
    <3>3. CASE i \notin DOMAIN code
      BY <1>12, <1>14, <3>3
    <3> QED BY <2>4, <3>1, <3>2, <3>3
  <2>8. JumpsPut(chunks, chunks', here, loop)
    BY <1>4, <1>15, <2>7, CodeIsPut
  <2>9. OpenLoop(loop, top, tracked)'
    <3>1. \A i \in DOMAIN chunks'[here].code \ DOMAIN chunks[here].code :
            IsJump(chunks'[here].code[i]) => chunks'[here].code[i].for.role = "repeat"
      BY <1>4, <1>12, <1>14, <1>15
    <3>2. loop.begin \in Nat
      BY <1>6 DEF LoopIds
    <3>3. Len(chunks[here].code) \in Nat /\ Len(chunks'[here].code) \in Nat /\ Len(chunks'[here].code) >= Len(chunks[here].code)
      BY <1>4, <1>5, <1>14, <1>15
    <3> QED BY <1>5, <1>15, <1>17, <1>18, <2>2, <3>1, <3>2, <3>3, OpenLoopKept
  <2> QED BY <2>2, <2>8, <2>9
<1>22. Continues(own, own, n) /\ frames'[n] = top
  <2>1. frames' = [frames EXCEPT ![n] = top]
    BY <1>3, <1>19 DEF TopBecomes
  <2>2. \A i \in 1 .. n : (i = n /\ frames'[i] = top) \/ frames'[i] = frames[i]
    BY <1>19, <2>1
  <2>3. frames'[n] = top
    BY <1>19, <2>1
  <2> QED BY <1>6, <1>17, <2>2, <2>3, SameFrameItself DEF Continues
<1>23. ASSUME ~ StrayJump' PROVE loop.chunk = here /\ JumpsOf("again", loop)' = {} /\ LoopFits(own, n)'
  <2>1. loop.chunk = here /\ OpenLoop(loop, top, tracked)' /\ LoopFits(own, n)
    BY <1>21, <1>23
  <2>2. tracked = loops'[own[n].loops]
    BY <1>6, <1>20
  <2>3. frames[n].fn \in LoopFns /\ loop = frames[n].loop /\ n \in 1 .. n
    BY <1>1, <1>3, <1>6
  <2>4. LoopFits(own, n)'
    BY <1>6, <1>22, <2>1, <2>2, <2>3, OpenLoopOn
  <2>5. JumpsOf("again", loop)' = {}
    BY <2>1 DEF OpenLoop
  <2> QED BY <2>1, <2>4, <2>5
<1>24. /\ loop = frames[n].loop /\ frames[n].fn \in LoopFns /\ loops' \in Seq(LoopRecs) /\ Len(loops') = Len(loops)
       /\ SameFrame(TopFrame, top) /\ \A l \in DOMAIN loops : l # own[n].loops => loops'[l] = loops[l]
  BY <1>1, <1>3, <1>6, <1>17, <1>20
<1>25. ~ StrayJump' => JumpsPut(chunks, chunks', here, loop)
  BY <1>21
<1>26. PICK k : k = n
  OBVIOUS
<1>27. /\ k \in DOMAIN own /\ frames[k].fn \in LoopFns /\ loop = frames[k].loop /\ k = n
       /\ \A l \in DOMAIN loops : l # own[k].loops => loops'[l] = loops[l]
  BY <1>6, <1>24, <1>26
<1>28. ~ StrayJump' => loop.chunk = here /\ JumpsOf("again", loop)' = {} /\ LoopFits(own, k)'
  BY <1>23, <1>26
<1>29. CodePut(chunks, chunks', here) /\ chunk_idx' = here /\ here = chunk_idx /\ n = Len(frames)
  BY <1>3, <1>15, <1>20
<1>30. top \in AllFrames /\ SameFrame(TopFrame, top) /\ TopBecomes(top) /\ LeavesTables
  BY <1>17, <1>19, <1>20, <1>24
<1> QED BY <1>1, <1>2, <1>24, <1>25, <1>27, <1>28, <1>29, <1>30, LoopMoves

\* The loop on top is closed.
LEMMA LoopEnds ==
  ASSUME ScopesIInv, status = "parsing", NEW own \in Seq(Owners), Compiling(own), NEW n, n = Len(frames),
         TopFrame.fn \in LoopFns, ReturnFrame, LeavesTables, compiler_leave_loop,
         NEW here, here = chunk_idx, chunk_idx' = here, NEW loop, loop = TopFrame.loop, CodePut(chunks, chunks', here),
         ~ StrayJump' => /\ JumpsPut(chunks, chunks', here, loop) /\ loop.chunk = here
                         /\ \A i \in DOMAIN chunks'[here].code :
                              JumpFor(chunks'[here].code[i], "again", loop) => MeetsAt(here, i)'
  PROVE  ScopesIInv'
<1>1. ScopesTypeOK /\ Nested(own)
  BY DEF ScopesIInv, Compiling
<1>2. /\ ChunksGrow /\ chunks' \in Seq(ChunkRecs) /\ DOMAIN chunks' = DOMAIN chunks
      /\ \A c \in DOMAIN chunks : c # here => chunks'[c] = chunks[c]
      /\ ChunkGrows(chunks[here], chunks'[here])
      /\ \A i \in DOMAIN chunks'[here].code \ DOMAIN chunks[here].code :
           chunks'[here].code[i].op \in {"jmp", "jmp_false", "nop"}
  BY <1>1, CodePutGrows
<1>3. /\ MoreLocals(CurrScope) /\ locals' = [locals EXCEPT ![Len(locals)] = CurrScope]
      /\ locals' \in Seq(ScopeRecs) /\ strings' = strings /\ globals' = globals /\ Len(locals') = Len(locals)
  BY TablesLeft
<1>4. /\ TopFrame = frames[n] /\ n \in DOMAIN own /\ Len(own) = n /\ DOMAIN own = 1 .. n /\ n \in Nat \ {0}
      /\ own[n].loops = Len(loops) /\ Len(loops) \in DOMAIN loops /\ loops \in Seq(LoopRecs)
  BY <1>1, TopLoop
<1>5. /\ loops' \in Seq(LoopRecs) /\ Len(loops') = Len(loops) - 1
      /\ \A l \in 1 .. Len(loops) - 1 : loops'[l] = loops[l]
  <2>1. Len(loops) > 0
    BY <1>4
  <2> QED BY <1>4, <2>1, LastItem, SMTT(30) DEF compiler_leave_loop
<1>6. TopFrame.fn # "do_source" /\ TopFrame.fn \notin FunctionFns
  BY DEF LoopFns, FunctionFns
<1>7. PICK own2 : own2 = Front(own)
  OBVIOUS
<1>8. PICK m : m = n - 1
  OBVIOUS
<1>9. frames' = Front(frames) /\ DOMAIN chunks \subseteq DOMAIN chunks' /\ chunk_idx' = chunk_idx
      /\ Len(loops') = Len(loops) - (IF TopFrame.fn \in LoopFns THEN 1 ELSE 0)
  BY <1>2, <1>5 DEF ReturnFrame
<1>10. Nested(own2)'
  BY <1>1, <1>3, <1>6, <1>7, <1>9, ReturnsCall
<1>11. frames' \in Seq(AllFrames)
  BY <1>1, <1>3, <1>6, <1>7, <1>9, ReturnsCall
<1>12. m \in DOMAIN own \cap DOMAIN own2 /\ Len(own2) = m
  BY <1>1, <1>3, <1>6, <1>7, <1>8, <1>9, ReturnsCall
<1>13. Continues(own, own2, m)
  BY <1>1, <1>3, <1>6, <1>7, <1>8, <1>9, ReturnsCall
<1>14. \A i \in 1 .. m : SameLoop(frames[i], frames'[i])
  BY <1>1, <1>3, <1>6, <1>7, <1>8, <1>9, ReturnsCall
<1>15. ScopesTypeOK'
  BY <1>1, <1>2, <1>3, <1>5, <1>11, TablesLeft DEF ScopesTypeOK
<1>16. n \notin 1 .. m
  BY <1>4, <1>8
<1>17. ASSUME ~ StrayJump' PROVE WidesStay /\ JumpsFit(own2)'
  <2>1. JumpsFit(own)
    BY <1>2, <1>17, StrayStays DEF Compiling
  <2>2. WidesStay /\ OnlyJumpsOf({loop}) /\ JumpsPut(chunks, chunks', here, loop) /\ loop.chunk = here
    BY <1>1, <1>17, JumpsPutApart
  <2>3. frames[n].fn \in LoopFns /\ loop = frames[n].loop
    BY <1>4
  <2>4. \A c \in DOMAIN chunks' : \A i \in DOMAIN chunks'[c].code :
          IsJump(chunks'[c].code[i]) /\ chunks'[c].code[i].for.loop = loop => c = here /\ JumpFits(c, i)'
    BY <1>1, <1>4, <1>17, <2>1, <2>2, <2>3, JumpsPutFit
  <2>5. ASSUME NEW c \in DOMAIN chunks', NEW i \in DOMAIN chunks'[c].code, IsJump(chunks'[c].code[i]),
               chunks'[c].code[i].for.loop = loop
        PROVE  JumpFits(c, i)' /\ MeetsAt(c, i)'
    <3>1. c = here /\ JumpFits(c, i)'
      BY <2>4, <2>5
    <3>2. PICK inst : inst = chunks'[c].code[i]
      OBVIOUS
    <3>3. inst \in AllInsts
      BY <1>15, <3>2, ChunkTypedNext
    <3>4. inst.for = [role |-> inst.for.role, loop |-> loop]
      BY <2>5, <3>2, <3>3, JumpIsFor
    <3>5. CASE inst.for.role = "again"
      <4>1. JumpFor(chunks'[here].code[i], "again", loop)
        BY <2>5, <3>1, <3>2, <3>4, <3>5 DEF JumpFor
      <4> QED BY <1>17, <3>1, <4>1
    <3>6. CASE inst.for.role # "again"
      <4>1. MeetsAt(c, i)'
        BY <3>2, <3>6 DEF MeetsAt, CodeOf
      <4> QED BY <3>1, <4>1
    <3> QED BY <3>5, <3>6
  <2>6. \A c \in DOMAIN chunks' : \A i \in DOMAIN chunks'[c].code :
          IsJump(chunks'[c].code[i]) /\ chunks'[c].code[i].for.loop = loop => JumpFits(c, i)' /\ MeetsAt(c, i)'
    BY <2>5
  <2>7. \A l \in DOMAIN loops : l # own[n].loops => loops'[l] = loops[l]
    BY <1>4, <1>5
  <2>8. OnlyJumpsOf({loop}) /\ \A i \in 1 .. m : i # n => SameLoop(frames[i], frames'[i])
    BY <1>14, <2>2
  <2>9. n \in 1 .. m => LoopFits(own2, n)'
    BY <1>16
  <2>10. JumpsFit(own2)'
    <3>1. ChunksGrow /\ n \in DOMAIN own
      BY <1>2, <1>4
    <3>2. OnlyJumpsOf({loop})
      BY <2>8
    <3>3. \A i \in 1 .. m : i # n => SameLoop(frames[i], frames'[i])
      BY <2>8
    <3>4. m \in DOMAIN own \cap DOMAIN own2
      BY <1>12
    <3>5. Len(own2) = m
      BY <1>12
    <3> QED BY <1>10, <1>13, <1>15, <1>17, <2>3, <2>6, <2>7, <2>9, <3>1, <3>2, <3>3, <3>4, <3>5, OneLoopStep
  <2> QED BY <2>2, <2>10
<1> QED BY <1>2, <1>3, <1>10, <1>12, <1>13, <1>15, <1>17, LoopStep

\* The code of a body, and behind it that of its end.
LongerBy(old, new, ops) ==
  /\ new \in Seq(AllInsts) /\ Len(new) >= Len(old)
  /\ \A i \in DOMAIN old : i \in DOMAIN new /\ new[i] = old[i]
  /\ \A i \in DOMAIN new \ DOMAIN old : new[i].op \in ops

LEMMA NopIsInst == Plain("nop", 0, 0) \in AllInsts /\ Plain("nop", 0, 0).op = "nop"
BY DEF Plain, Inst, AllInsts, Insts

LEMMA BodyIsLonger ==
  ASSUME NEW code \in Seq(AllInsts), Code = code, \A i \in DOMAIN code : code[i].op # "ret", NEW body, body = BodyCode
  PROVE  LongerBy(code, body, {"nop"}) /\ \A i \in DOMAIN body : body[i].op # "ret"
<1>1. PICK nop : nop = Plain("nop", 0, 0)
  OBVIOUS
<1>2. nop \in AllInsts /\ nop.op = "nop"
  BY <1>1, NopIsInst
<1>3. body = Append(code, nop) \/ body = code
  BY <1>1 DEF BodyCode
<1>4. CASE body = code
  BY <1>4 DEF LongerBy
<1>5. CASE body = Append(code, nop)
  <2>1. /\ body \in Seq(AllInsts) /\ Len(body) >= Len(code) /\ \A i \in DOMAIN code : i \in DOMAIN body /\ body[i] = code[i]
        /\ \A i \in DOMAIN body \ DOMAIN code : body[i] = nop
    BY <1>2, <1>5
  <2>2. \A i \in DOMAIN body : body[i].op # "ret"
    BY <1>2, <2>1
  <2> QED BY <1>2, <2>1, <2>2 DEF LongerBy
<1> QED BY <1>3, <1>4, <1>5

LEMMA PatchedFits ==
  ASSUME NEW code \in Seq(AllInsts), \A i \in DOMAIN code : code[i].op # "ret", NEW tracked, NEW exit \in Int, NEW again \in Int,
         NEW new, new = Patched(code, tracked, exit, again)
  PROVE  /\ TargetsChange(code, new)
         /\ \A i \in DOMAIN code :
              /\ i - 1 \in tracked.loop_continues => new[i].wide = i - 1 - again /\ new[i].flag = 1
              /\ i - 1 \notin tracked.loop_continues /\ i - 1 \in tracked.loop_breaks =>
                   new[i].wide = exit - (i - 1) /\ new[i].flag = code[i].flag
              /\ i - 1 \notin tracked.loop_continues /\ i - 1 \notin tracked.loop_breaks => new[i] = code[i]
<1>1. DOMAIN code = 1 .. Len(code) /\ Len(code) \in Nat
  OBVIOUS
<1>2. /\ DOMAIN new = DOMAIN code
      /\ \A i \in DOMAIN code :
           /\ i - 1 \in tracked.loop_continues => new[i] = [code[i] EXCEPT !.wide = i - 1 - again, !.flag = 1]
           /\ i - 1 \notin tracked.loop_continues /\ i - 1 \in tracked.loop_breaks =>
                new[i] = [code[i] EXCEPT !.wide = exit - (i - 1)]
           /\ i - 1 \notin tracked.loop_continues /\ i - 1 \notin tracked.loop_breaks => new[i] = code[i]
  BY DEF Patched
<1>3. ASSUME NEW i \in DOMAIN code
      PROVE  /\ SameButTarget(code[i], new[i])
             /\ i - 1 \in tracked.loop_continues => new[i].wide = i - 1 - again /\ new[i].flag = 1
             /\ i - 1 \notin tracked.loop_continues /\ i - 1 \in tracked.loop_breaks =>
                  new[i].wide = exit - (i - 1) /\ new[i].flag = code[i].flag
  <2>1. PICK inst : inst = code[i]
    OBVIOUS
  <2>2. inst \in AllInsts /\ inst.op # "ret"
    BY <2>1
  <2>3. PICK back, far : back = i - 1 - again /\ far = exit - (i - 1)
    OBVIOUS
  <2>4. back \in Int /\ far \in Int /\ 1 \in Int
    BY <1>1, <2>3
  <2>5. CASE i - 1 \in tracked.loop_continues
    <3>1. new[i] = [inst EXCEPT !.wide = back, !.flag = 1]
      BY <1>2, <2>1, <2>3, <2>5
    <3>2. SameButTarget(inst, new[i]) /\ new[i].wide = back /\ new[i].flag = 1
      <4>1. PICK item : item = new[i]
        OBVIOUS
      <4>2. item = Turned(inst, back)
        BY <3>1, <4>1 DEF Turned
      <4>3. SameButTarget(inst, item) /\ item.wide = back /\ item.flag = 1
        BY <2>2, <2>4, <4>2, TurnedBack
      <4> QED BY <4>1, <4>3
    <3> QED BY <2>1, <2>3, <2>5, <3>2
  <2>6. CASE i - 1 \notin tracked.loop_continues /\ i - 1 \in tracked.loop_breaks
    <3>1. new[i] = [inst EXCEPT !.wide = far]
      BY <1>2, <2>1, <2>3, <2>6
    <3>2. SameButTarget(inst, new[i]) /\ new[i].wide = far /\ new[i].flag = inst.flag
      BY <2>2, <2>4, <3>1, WideChanged
    <3> QED BY <2>1, <2>3, <2>6, <3>2
  <2>7. CASE i - 1 \notin tracked.loop_continues /\ i - 1 \notin tracked.loop_breaks
    <3>1. new[i] = inst
      BY <1>2, <2>1, <2>7
    <3> QED BY <2>1, <2>2, <2>7, <3>1 DEF SameButTarget
  <2> QED BY <2>5, <2>6, <2>7
<1>4. new \in Seq(AllInsts) /\ Len(new) = Len(code)
  <2>1. \A i \in 1 .. Len(code) : new[i] \in AllInsts
    BY <1>1, <1>3 DEF SameButTarget
  <2>2. new = [i \in 1 .. Len(code) |-> new[i]]
    <3>1. new = [i \in DOMAIN new |-> new[i]]
      BY DEF Patched
    <3> QED BY <1>1, <1>2, <3>1
  <2>3. new \in [1 .. Len(code) -> AllInsts]
    BY <2>1, <2>2
  <2> QED BY <1>1, <2>3
<1>5. TargetsChange(code, new)
  BY <1>2, <1>3, <1>4 DEF TargetsChange
<1> QED BY <1>2, <1>3, <1>5

\* The jumps of a loop get their targets: the flag is 1 in a jump back.
AimedAt(whole, final, i, tracked, out, exit, again) ==
  /\ i - 1 \in tracked.loop_continues => final[i].wide = i - 1 - again /\ final[i].flag = 1
  /\ i - 1 \notin tracked.loop_continues /\ i - 1 \in tracked.loop_breaks =>
       final[i].wide = exit - (i - 1) /\ final[i].flag = whole[i].flag
  /\ i - 1 \notin tracked.loop_continues /\ i - 1 \notin tracked.loop_breaks =>
       IF i = out + 1 THEN final[i].wide = exit - out /\ final[i].flag = whole[i].flag
       ELSE final[i] = whole[i]

AllAimed(whole, final, tracked, out, exit, again) ==
  TargetsChange(whole, final) /\ \A i \in DOMAIN whole : AimedAt(whole, final, i, tracked, out, exit, again)

LEMMA WholePatched ==
  ASSUME NEW whole \in Seq(AllInsts), \A i \in DOMAIN whole : whole[i].op # "ret", NEW out \in Nat,
         NEW exit \in Int, NEW again \in Int, NEW tracked,
         NEW settled, settled = [whole EXCEPT ![out + 1].wide = exit - out],
         NEW final, final = Patched(settled, tracked, exit, again)
  PROVE  AllAimed(whole, final, tracked, out, exit, again)
<1>1. PICK p, wide : p = out + 1 /\ wide = exit - out
  OBVIOUS
<1>2. p \in Int /\ wide \in Int
  BY <1>1
<1>3. settled = [whole EXCEPT ![p].wide = wide]
  BY <1>1
<1>4. /\ TargetsChange(whole, settled) /\ \A i \in DOMAIN whole : i # p => settled[i] = whole[i]
      /\ p \in DOMAIN whole => settled[p].wide = wide /\ settled[p].flag = whole[p].flag
  <2>1. \A i \in DOMAIN whole : whole[i].op # "ret"
    OBVIOUS
  <2>0. whole \in Seq(AllInsts) /\ p \in Int /\ wide \in Int /\ settled = [whole EXCEPT ![p].wide = wide]
    BY <1>2, <1>3
  <2>2. TargetsChange(whole, settled)
    BY ONLY <2>0, <2>1, OnePatched
  <2>3. \A i \in DOMAIN whole : i # p => settled[i] = whole[i]
    BY ONLY <2>0, <2>1, OnePatched
  <2>4. p \in DOMAIN whole => settled[p].wide = wide /\ settled[p].flag = whole[p].flag
    <3>1. ASSUME p \in DOMAIN whole PROVE settled[p].wide = wide
      <4>1. settled[p] = [whole[p] EXCEPT !.wide = wide]
        BY <2>0, <3>1
      <4>2. whole[p] \in AllInsts /\ whole[p].op # "ret"
        BY <2>0, <2>1, <3>1
      <4> QED BY ONLY <2>0, <4>1, <4>2, WideChanged
    <3>2. ASSUME p \in DOMAIN whole PROVE settled[p].flag = whole[p].flag
      BY ONLY <2>0, <2>1, <3>2, OnePatched, SMTT(30)
    <3> QED BY ONLY <3>1, <3>2
  <2> QED BY <2>2, <2>3, <2>4
<1>5. settled \in Seq(AllInsts) /\ Len(settled) = Len(whole) /\ DOMAIN settled = DOMAIN whole
      /\ \A i \in DOMAIN whole : SameButTarget(whole[i], settled[i])
  BY <1>4 DEF TargetsChange
<1>6. \A i \in DOMAIN settled : settled[i].op # "ret"
  BY <1>5 DEF SameButTarget
<1>7. TargetsChange(settled, final)
  <2>1. settled \in Seq(AllInsts) /\ exit \in Int /\ again \in Int /\ final = Patched(settled, tracked, exit, again)
    BY <1>5
  <2> QED BY ONLY <1>6, <2>1, PatchedFits
<1>10. \A i \in DOMAIN settled :
         /\ i - 1 \in tracked.loop_continues => final[i].wide = i - 1 - again /\ final[i].flag = 1
         /\ i - 1 \notin tracked.loop_continues /\ i - 1 \in tracked.loop_breaks =>
              final[i].wide = exit - (i - 1) /\ final[i].flag = settled[i].flag
         /\ i - 1 \notin tracked.loop_continues /\ i - 1 \notin tracked.loop_breaks => final[i] = settled[i]
  <2>1. settled \in Seq(AllInsts) /\ exit \in Int /\ again \in Int /\ final = Patched(settled, tracked, exit, again)
    BY <1>5
  <2> QED BY ONLY <1>6, <2>1, PatchedFits
<1>8. TargetsChange(whole, final)
  <2>1. \A i \in DOMAIN whole : SameButTarget(settled[i], final[i])
    BY <1>5, <1>7 DEF TargetsChange
  <2>2. \A i \in DOMAIN whole : SameButTarget(whole[i], final[i])
    BY <1>5, <2>1, ZenonT(30) DEF SameButTarget
  <2> QED BY <1>5, <1>7, <2>2 DEF TargetsChange
<1>9. ASSUME NEW i \in DOMAIN whole PROVE AimedAt(whole, final, i, tracked, out, exit, again)
  <2>1. settled[i].flag = whole[i].flag
    BY <1>4
  <2>2. i = out + 1 => settled[i].wide = exit - out
    BY <1>1, <1>4
  <2>3. i # out + 1 => settled[i] = whole[i]
    BY <1>1, <1>4
  <2>4. i \in DOMAIN settled
    BY <1>5
  <2> QED BY <1>10, <2>1, <2>2, <2>3, <2>4 DEF AimedAt
<1> QED BY <1>8, <1>9 DEF AllAimed

\* A position of the code of a closed loop.
ClosedAt(code, final, i, loop, exit, again) ==
  \/ /\ i \in DOMAIN code /\ final[i] = code[i]
     /\ \A role \in {"break", "continue", "out", "again"} : ~ JumpFor(code[i], role, loop)
  \/ \E role \in {"break", "out"} :
       JumpFor(final[i], role, loop) /\ final[i].flag = 0 /\ Target(final, i) = exit + 1
  \/ JumpFor(final[i], "continue", loop) /\ Target(final, i) = again + 1
  \/ i \notin DOMAIN code /\ JumpFor(final[i], "again", loop) /\ Target(final, i) = again + 1
  \/ i \notin DOMAIN code /\ final[i].op = "nop"

AllClosed(code, final, loop, exit, again) ==
  \A i \in DOMAIN final : ClosedAt(code, final, i, loop, exit, again)

LEMMA ClosedMeets ==
  ASSUME NEW here, NEW code, NEW final, chunks'[here].code = final, NEW loop, NEW exit, NEW again,
         AllClosed(code, final, loop, exit, again),
         NEW i \in DOMAIN final, JumpFor(final[i], "again", loop)
  PROVE  MeetsAt(here, i)'
<1>1. ASSUME NEW j \in DOMAIN final, NEW role \in {"break", "out"}, JumpFor(final[j], role, loop)
      PROVE  Target(final, j) = exit + 1
  <2>1. ClosedAt(code, final, j, loop, exit, again)
    BY DEF AllClosed
  <2>2. final[j].op # "nop" /\ final[j].for.role = role
    BY <1>1 DEF JumpFor, IsJump
  <2>3. ~ JumpFor(final[j], "continue", loop) /\ ~ JumpFor(final[j], "again", loop)
    BY <2>2 DEF JumpFor
  <2> QED BY <1>1, <2>1, <2>2, <2>3 DEF ClosedAt
<1>2. ASSUME NEW j \in DOMAIN final, NEW role \in {"continue", "again"}, JumpFor(final[j], role, loop)
      PROVE  Target(final, j) = again + 1
  <2>1. ClosedAt(code, final, j, loop, exit, again)
    BY DEF AllClosed
  <2>2. final[j].op # "nop" /\ final[j].for.role = role
    BY <1>2 DEF JumpFor, IsJump
  <2>3. ~ JumpFor(final[j], "break", loop) /\ ~ JumpFor(final[j], "out", loop)
    BY <2>2 DEF JumpFor
  <2> QED BY <1>2, <2>1, <2>2, <2>3 DEF ClosedAt
<1>3. final[i].for.loop = loop
  BY DEF JumpFor
<1>4. \A j \in DOMAIN final : IsJump(final[j]) /\ final[j].for = [role |-> "break", loop |-> loop] => Target(final, j) = exit + 1
  BY <1>1 DEF JumpFor
<1>5. \A j \in DOMAIN final : IsJump(final[j]) /\ final[j].for = [role |-> "out", loop |-> loop] => Target(final, j) = exit + 1
  BY <1>1 DEF JumpFor
<1>6. \A j \in DOMAIN final : IsJump(final[j]) /\ final[j].for = [role |-> "continue", loop |-> loop] => Target(final, j) = again + 1
  BY <1>2 DEF JumpFor
<1>7. Target(final, i) = again + 1
  BY <1>2
<1> QED BY <1>3, <1>4, <1>5, <1>6, <1>7 DEF MeetsAt, CodeOf

\* What is patched at the end of a loop are its jumps.
Tracks(code, i, loop, tracked, out) ==
  /\ i - 1 \in tracked.loop_breaks <=> JumpFor(code[i], "break", loop)
  /\ i - 1 \in tracked.loop_continues <=> JumpFor(code[i], "continue", loop)
  /\ i = out + 1 <=> JumpFor(code[i], "out", loop)
  /\ ~ JumpFor(code[i], "again", loop)
  /\ JumpFor(code[i], "break", loop) \/ JumpFor(code[i], "out", loop) => code[i].flag = 0

Untracked(i, tracked, out) ==
  i - 1 \notin tracked.loop_breaks /\ i - 1 \notin tracked.loop_continues /\ i # out + 1

AllTracked(code, loop, tracked, out) ==
  /\ \A i \in DOMAIN code : Tracks(code, i, loop, tracked, out)
  /\ \A i \in Nat : i \notin DOMAIN code => Untracked(i, tracked, out)

LEMMA JumpsTracked ==
  ASSUME ScopesTypeOK, NEW here \in DOMAIN chunks, NEW code, code = chunks[here].code, NEW loop, loop.chunk = here,
         NEW frame, Settled(frame), NEW tracked, OpenLoop(loop, frame, tracked), NEW out, out = frame.out,
         \A i \in DOMAIN code : JumpFits(here, i)
  PROVE  AllTracked(code, loop, tracked, out)
<1>1. DOMAIN code \subseteq Nat
  BY ChunkTyped
<1>2. \A role : JumpsOf(role, loop) = {j \in DOMAIN code : JumpFor(code[j], role, loop)}
  BY DEF JumpsOf, JumpFor, CodeOf
<1>3. ASSUME NEW role, NEW S, S = {j - 1 : j \in JumpsOf(role, loop)}, NEW i \in Nat
      PROVE  i - 1 \in S <=> i \in DOMAIN code /\ JumpFor(code[i], role, loop)
  <2>1. ASSUME i - 1 \in S PROVE i \in JumpsOf(role, loop)
    <3>1. PICK j \in JumpsOf(role, loop) : i - 1 = j - 1
      BY <1>3, <2>1
    <3>2. j \in Nat
      BY <1>1, <1>2, <3>1
    <3>3. i = j
      BY <3>1, <3>2
    <3> QED BY <3>1, <3>3
  <2>2. ASSUME i \in JumpsOf(role, loop) PROVE i - 1 \in S
    BY <1>3, <2>2
  <2>3. i \in JumpsOf(role, loop) <=> i \in DOMAIN code /\ JumpFor(code[i], role, loop)
    BY <1>2
  <2> QED BY <2>1, <2>2, <2>3
<1>4. \A i \in Nat : i - 1 \in tracked.loop_breaks <=> i \in DOMAIN code /\ JumpFor(code[i], "break", loop)
  BY <1>3 DEF OpenLoop
<1>5. \A i \in Nat : i - 1 \in tracked.loop_continues <=> i \in DOMAIN code /\ JumpFor(code[i], "continue", loop)
  BY <1>3 DEF OpenLoop
<1>6. \A i : i = out + 1 <=> i \in DOMAIN code /\ JumpFor(code[i], "out", loop)
  <2>1. JumpsOf("out", loop) = {out + 1}
    BY DEF OpenLoop
  <2>2. {out + 1} = {j \in DOMAIN code : JumpFor(code[j], "out", loop)}
    BY <1>2, <2>1
  <2> QED BY <2>2
<1>7. \A i \in DOMAIN code : ~ JumpFor(code[i], "again", loop)
  <2>1. JumpsOf("again", loop) = {}
    BY DEF OpenLoop
  <2> QED BY <1>2, <2>1
<1>8. ASSUME NEW i \in DOMAIN code, NEW role \in {"break", "out"}, JumpFor(code[i], role, loop) PROVE code[i].flag = 0
  <2>1. code[i].for.role = role /\ IsJump(code[i])
    BY <1>8 DEF JumpFor
  <2>2. JumpFits(here, i)
    OBVIOUS
  <2> QED BY <2>1, <2>2 DEF JumpFits, CodeOf
<1> QED BY <1>1, <1>4, <1>5, <1>6, <1>7, <1>8 DEF Tracks, Untracked, AllTracked

\* What is put behind the body: the jump back at p, and NOPs.
EndsLoop(whole, i, p, loop, again) ==
  \/ whole[i].op = "nop"
  \/ i = p /\ JumpFor(whole[i], "again", loop) /\ whole[i].flag = 1 /\ whole[i].wide = p - 1 - again

\* The code with its end.
EndedCode(code, whole, p, loop, again) ==
  /\ whole \in Seq(AllInsts) /\ \A i \in DOMAIN whole : whole[i].op # "ret"
  /\ \A i \in DOMAIN code : i \in DOMAIN whole /\ whole[i] = code[i]
  /\ \A i \in DOMAIN whole \ DOMAIN code :
       EndsLoop(whole, i, p, loop, again) /\ whole[i].op \in {"jmp", "jmp_false", "nop"}

LEMMA TargetOfJump ==
  ASSUME NEW final, NEW i \in Int, NEW exit \in Int, NEW again \in Int
  PROVE  /\ final[i].flag = 1 /\ final[i].wide = i - 1 - again => Target(final, i) = again + 1
         /\ final[i].flag = 0 /\ final[i].wide = exit - (i - 1) => Target(final, i) = exit + 1
<1>1. ASSUME final[i].flag = 1, final[i].wide = i - 1 - again PROVE Target(final, i) = again + 1
  <2>1. i - (i - 1 - again) = again + 1
    OBVIOUS
  <2> QED BY <1>1, <2>1 DEF Target
<1>2. ASSUME final[i].flag = 0, final[i].wide = exit - (i - 1) PROVE Target(final, i) = exit + 1
  <2>1. i + (exit - (i - 1)) = exit + 1 /\ 0 # 1
    OBVIOUS
  <2> QED BY <1>2, <2>1 DEF Target
<1> QED BY <1>1, <1>2

LEMMA JumpKept ==
  ASSUME NEW old, NEW new, SameButTarget(old, new), NEW role, NEW loop
  PROVE  JumpFor(old, role, loop) <=> JumpFor(new, role, loop)
BY DEF SameButTarget, JumpFor, IsJump

LEMMA JumpForParts ==
  ASSUME NEW inst, NEW role, NEW loop, JumpFor(inst, role, loop)
  PROVE  IsJump(inst) /\ inst.for.loop = loop /\ inst.for.role = role
BY DEF JumpFor

LEMMA LoopClosed ==
  ASSUME NEW code, NEW whole, NEW final, NEW loop, NEW tracked,
         NEW out \in Nat, NEW exit \in Int, NEW again \in Int, NEW p,
         AllAimed(whole, final, tracked, out, exit, again), EndedCode(code, whole, p, loop, again),
         AllTracked(code, loop, tracked, out)
  PROVE  AllClosed(code, final, loop, exit, again)
<1>0. /\ TargetsChange(whole, final) /\ \A i \in DOMAIN whole : AimedAt(whole, final, i, tracked, out, exit, again)
      /\ whole \in Seq(AllInsts) /\ \A i \in DOMAIN code : i \in DOMAIN whole /\ whole[i] = code[i]
      /\ \A i \in DOMAIN whole \ DOMAIN code : EndsLoop(whole, i, p, loop, again)
  BY DEF AllAimed, EndedCode
<1>1. DOMAIN final = DOMAIN whole /\ DOMAIN whole \subseteq Nat
  BY <1>0 DEF TargetsChange
<1>2. SUFFICES ASSUME NEW i \in DOMAIN whole PROVE ClosedAt(code, final, i, loop, exit, again)
  BY <1>1 DEF AllClosed
<1>3. /\ i \in Nat /\ i \in Int /\ AimedAt(whole, final, i, tracked, out, exit, again)
      /\ \A role : JumpFor(whole[i], role, loop) <=> JumpFor(final[i], role, loop)
  BY <1>0, <1>1, JumpKept DEF TargetsChange
<1>4. CASE i \notin DOMAIN code
  <2>1. Untracked(i, tracked, out) /\ EndsLoop(whole, i, p, loop, again)
    BY <1>0, <1>3, <1>4 DEF AllTracked
  <2>2. final[i] = whole[i]
    BY <1>3, <2>1 DEF AimedAt, Untracked
  <2>3. CASE final[i].op = "nop"
    BY <1>4, <2>3 DEF ClosedAt
  <2>4. CASE final[i].op # "nop"
    <3>1. JumpFor(final[i], "again", loop) /\ final[i].flag = 1 /\ final[i].wide = i - 1 - again
      BY <2>1, <2>2, <2>4 DEF EndsLoop
    <3>2. Target(final, i) = again + 1
      <4>1. i \in Int /\ final[i].flag = 1 /\ final[i].wide = i - 1 - again
        BY <1>3, <3>1
      <4>2. i - (i - 1 - again) = again + 1
        BY <4>1
      <4> QED BY <4>1, <4>2 DEF Target
    <3> QED BY <1>4, <3>1, <3>2 DEF ClosedAt
  <2> QED BY <2>3, <2>4
<1>5. CASE i \in DOMAIN code
  <2>1. Tracks(code, i, loop, tracked, out) /\ whole[i] = code[i]
    BY <1>0, <1>5 DEF AllTracked
  <2>2. CASE i - 1 \in tracked.loop_continues
    <3>1. final[i].flag = 1 /\ final[i].wide = i - 1 - again
      BY <1>3, <2>2 DEF AimedAt
    <3>2. Target(final, i) = again + 1
      BY <1>3, <3>1, TargetOfJump
    <3>3. JumpFor(final[i], "continue", loop)
      BY <1>3, <2>1, <2>2 DEF Tracks
    <3> QED BY <3>2, <3>3 DEF ClosedAt
  <2>3. CASE i - 1 \notin tracked.loop_continues /\ i - 1 \in tracked.loop_breaks
    <3>1. JumpFor(code[i], "break", loop) /\ code[i].flag = 0
      BY <2>1, <2>3 DEF Tracks
    <3>2. final[i].flag = 0 /\ final[i].wide = exit - (i - 1)
      BY <1>3, <2>1, <2>3, <3>1 DEF AimedAt
    <3>3. Target(final, i) = exit + 1
      BY <1>3, <3>2, TargetOfJump
    <3>4. JumpFor(final[i], "break", loop)
      BY <1>3, <2>1, <3>1
    <3> QED BY <3>2, <3>3, <3>4 DEF ClosedAt
  <2>4. CASE i - 1 \notin tracked.loop_continues /\ i - 1 \notin tracked.loop_breaks /\ i = out + 1
    <3>1. JumpFor(code[i], "out", loop) /\ code[i].flag = 0
      BY <2>1, <2>4 DEF Tracks
    <3>2. final[i].flag = 0 /\ final[i].wide = exit - out
      BY <1>3, <2>1, <2>4, <3>1 DEF AimedAt
    <3>3. final[i].wide = exit - (i - 1)
      BY <2>4, <3>2
    <3>4. Target(final, i) = exit + 1
      BY <1>3, <3>2, <3>3, TargetOfJump
    <3>5. JumpFor(final[i], "out", loop)
      BY <1>3, <2>1, <3>1
    <3> QED BY <3>2, <3>4, <3>5 DEF ClosedAt
  <2>5. CASE i - 1 \notin tracked.loop_continues /\ i - 1 \notin tracked.loop_breaks /\ i # out + 1
    <3>1. final[i] = code[i]
      BY <1>3, <2>1, <2>5 DEF AimedAt
    <3>2. \A role \in {"break", "continue", "out", "again"} : ~ JumpFor(code[i], role, loop)
      BY <2>1, <2>5 DEF Tracks
    <3> QED BY <1>5, <3>1, <3>2 DEF ClosedAt
  <2> QED BY <2>2, <2>3, <2>4, <2>5
<1> QED BY <1>4, <1>5

BackJump(back, loop, wide) ==
  back \in AllInsts /\ back.op = "jmp" /\ JumpFor(back, "again", loop) /\ back.flag = 1 /\ back.wide = wide

\* The jump back is the first of the tail.
LEMMA TailIsLonger ==
  ASSUME NEW code \in Seq(AllInsts), NEW body, LongerBy(code, body, {"nop"}), \A i \in DOMAIN body : body[i].op # "ret",
         NEW tail \in Seq(AllInsts), NEW loop, NEW again \in Int, NEW end, end = Len(body),
         1 \in DOMAIN tail, BackJump(tail[1], loop, end - again), \A k \in DOMAIN tail : k # 1 => tail[k].op = "nop",
         NEW whole, whole = body \o tail, NEW p, p = end + 1
  PROVE  EndedCode(code, whole, p, loop, again)
<1>1. /\ body \in Seq(AllInsts) /\ Len(body) >= Len(code) /\ \A i \in DOMAIN code : i \in DOMAIN body /\ body[i] = code[i]
      /\ \A i \in DOMAIN body \ DOMAIN code : body[i].op = "nop"
  BY DEF LongerBy
<1>2. /\ end \in Nat /\ Len(tail) \in Nat /\ DOMAIN body = 1 .. end /\ DOMAIN tail = 1 .. Len(tail)
      /\ whole \in Seq(AllInsts) /\ Len(whole) = end + Len(tail) /\ DOMAIN whole = 1 .. end + Len(tail)
  BY <1>1
<1>3. \A i \in DOMAIN body : whole[i] = body[i]
  BY <1>1, <1>2
<1>4. \A i \in DOMAIN whole : i \notin DOMAIN body => i - end \in DOMAIN tail /\ whole[i] = tail[i - end]
  BY <1>1, <1>2
<1>5. \A k \in DOMAIN tail : tail[k].op \in {"jmp", "nop"}
  BY DEF BackJump
<1>6. \A i \in DOMAIN whole : whole[i].op # "ret"
  BY <1>3, <1>4, <1>5
<1>7. \A i \in DOMAIN code : i \in DOMAIN whole /\ whole[i] = code[i]
  BY <1>1, <1>2, <1>3
<1>8. ASSUME NEW i \in DOMAIN whole, i \notin DOMAIN code
      PROVE  EndsLoop(whole, i, p, loop, again) /\ whole[i].op \in {"jmp", "jmp_false", "nop"}
  <2>1. CASE i \in DOMAIN body
    <3>1. whole[i].op = "nop"
      BY <1>1, <1>3, <1>8, <2>1
    <3> QED BY <3>1 DEF EndsLoop
  <2>2. CASE i \notin DOMAIN body
    <3>1. i - end \in DOMAIN tail /\ whole[i] = tail[i - end]
      BY <1>4, <2>2
    <3>2. CASE i - end = 1
      <4>1. i = p /\ p - 1 - again = end - again
        BY <1>2, <3>2
      <4>2. BackJump(whole[i], loop, end - again)
        BY <3>1, <3>2
      <4> QED BY <4>1, <4>2 DEF EndsLoop, BackJump
    <3>3. CASE i - end # 1
      <4>1. whole[i].op = "nop"
        BY <3>1, <3>3
      <4> QED BY <4>1 DEF EndsLoop
    <3> QED BY <3>2, <3>3
  <2> QED BY <2>1, <2>2
<1> QED BY <1>2, <1>6, <1>7, <1>8 DEF EndedCode

LEMMA OutIsNatural ==
  ASSUME NEW frame \in AllFrames, frame.fn \in LoopFns
  PROVE  frame.out \in Nat /\ (frame.fn = "do_while" => frame.check \in Nat)
<1>1. CASE frame.fn = "do_while"
  BY <1>1, TopIsWhile DEF WhileFrames
<1>2. CASE frame.fn = "do_for"
  BY <1>2, TopIsFor DEF ForFrames
<1> QED BY <1>1, <1>2 DEF LoopFns

LEMMA AimedStep ==
  ASSUME ScopesIInv, status = "parsing", TopFrame.fn \in LoopFns, TopFrame.at \in {"block", "body"}, ReturnFrame,
         LeavesTables, compiler_leave_loop, NEW here, here = chunk_idx, chunk_idx' = here,
         NEW frame, frame = TopFrame, NEW loop, loop = frame.loop, NEW tracked, tracked = Last(loops),
         NEW code, code = chunks[here].code, NEW out \in Nat, out = frame.out, NEW exit \in Int, NEW again \in Int, NEW p,
         NEW whole, EndedCode(code, whole, p, loop, again),
         NEW final, AllAimed(whole, final, tracked, out, exit, again), chunks' = [chunks EXCEPT ![here].code = final]
  PROVE  ScopesIInv'
<1>1. ScopesTypeOK
  BY DEF ScopesIInv
<1>2. PICK own \in Seq(Owners) : Compiling(own) /\ Nested(own)
  BY Parsing
<1>3. PICK n : n = Len(frames)
  OBVIOUS
<1>6. /\ here \in DOMAIN chunks /\ code \in Seq(AllInsts) /\ Code = code
      /\ \A i \in DOMAIN code : code[i].op # "ret" /\ code[i] \in AllInsts
  BY <1>2, CurrentCode
<1>13. /\ final \in Seq(AllInsts) /\ DOMAIN final = DOMAIN whole
       /\ \A i \in DOMAIN whole : SameButTarget(whole[i], final[i])
  BY DEF AllAimed, TargetsChange
<1>14. CodePut(chunks, chunks', here) /\ chunks'[here].code = final /\ ChunkGrows(chunks[here], chunks'[here])
  <2>1. \A i \in DOMAIN code : i \in DOMAIN final /\ SameButTarget(code[i], final[i])
    BY <1>13 DEF EndedCode
  <2>2. \A i \in DOMAIN final \ DOMAIN code : final[i].op \in {"jmp", "jmp_false", "nop"}
    <3>1. ASSUME NEW i \in DOMAIN whole, i \notin DOMAIN code PROVE final[i].op \in {"jmp", "jmp_false", "nop"}
      <4>1. final[i].op = whole[i].op
        BY <1>13 DEF SameButTarget
      <4>2. whole[i].op \in {"jmp", "jmp_false", "nop"}
        BY <3>1 DEF EndedCode
      <4> QED BY <4>1, <4>2
    <3> QED BY <1>13, <3>1
  <2>3. final \in Seq(AllInsts)
    BY <1>13
  <2> QED BY <1>1, <1>6, <2>1, <2>2, <2>3, CodeReplaced, ZenonT(30)
<1>15. ASSUME ~ StrayJump'
       PROVE  /\ JumpsPut(chunks, chunks', here, loop) /\ loop.chunk = here
              /\ \A i \in DOMAIN chunks'[here].code :
                   JumpFor(chunks'[here].code[i], "again", loop) => MeetsAt(here, i)'
  <2>1. ~ StrayJump
    <3>1. ChunksGrow
      BY <1>1, <1>14, CodePutGrows
    <3> QED BY <1>15, <3>1, StrayStays
  <2>2. loop.chunk = here /\ OpenLoop(loop, frame, tracked)
    BY <1>2, <1>3, <2>1, TopLoop
  <2>3. Settled(frame)
    BY DEF Settled
  <2>4. \A i \in DOMAIN code : JumpFits(here, i)
    BY <1>2, <1>6, <2>1 DEF Compiling, JumpsFit, CodeOf
  <2>5. AllTracked(code, loop, tracked, out)
    BY <1>1, <1>6, <2>2, <2>3, <2>4, JumpsTracked
  <2>6. AllClosed(code, final, loop, exit, again)
    BY <2>5, LoopClosed
  <2>7. ASSUME NEW i \in DOMAIN final
        PROVE  \/ i \in DOMAIN code /\ final[i] = code[i]
               \/ i \notin DOMAIN code /\ final[i].op = "nop"
               \/ /\ IsJump(final[i]) /\ final[i].for.loop = loop
                  /\ final[i].for.role \in {"break", "out"} => final[i].flag = 0
    <3>1. ClosedAt(code, final, i, loop, exit, again)
      BY <2>6 DEF AllClosed
    <3>2. PICK inst : inst = final[i]
      OBVIOUS
    <3>3. \A role : JumpFor(inst, role, loop) => IsJump(inst) /\ inst.for.loop = loop /\ inst.for.role = role
      BY JumpForParts
    <3> QED BY <3>1, <3>2, <3>3 DEF ClosedAt
  <2>8. JumpsPut(chunks, chunks', here, loop)
    <3>1. CodePut(chunks, chunks', here) /\ chunks'[here].code = final
      BY <1>14
    <3> QED BY <2>7, <3>1, CodeIsPut, ZenonT(30)
  <2>9. \A i \in DOMAIN final : JumpFor(final[i], "again", loop) => MeetsAt(here, i)'
    <3>1. chunks'[here].code = final
      BY <1>14
    <3> QED BY <2>6, <3>1, ClosedMeets
  <2> QED BY <1>14, <2>2, <2>8, <2>9
<1>16. CodePut(chunks, chunks', here)
  BY <1>14
<1>17. loop = TopFrame.loop
  OBVIOUS
<1> QED BY <1>2, <1>3, <1>15, <1>16, <1>17, LoopEnds

OutSettled(old, new, out, exit) == new = [old EXCEPT ![out + 1].wide = exit - out]
CodeBecomes(here, code) == chunks' = [chunks EXCEPT ![here].code = code]

LEMMA ClosesStep ==
  ASSUME ScopesIInv, status = "parsing", TopFrame.fn \in LoopFns, TopFrame.at \in {"block", "body"}, ReturnFrame,
         LeavesTables, compiler_leave_loop, NEW here, here = chunk_idx, chunk_idx' = here,
         NEW frame, frame = TopFrame, NEW loop, loop = frame.loop, NEW tracked, tracked = Last(loops),
         NEW tail \in Seq(AllInsts), NEW again \in Int, NEW end, end = Len(BodyCode),
         1 \in DOMAIN tail, BackJump(tail[1], loop, end - again), \A k \in DOMAIN tail : k # 1 => tail[k].op = "nop",
         NEW whole, whole = BodyCode \o tail, NEW exit, exit = end + 1,
         NEW settled, OutSettled(whole, settled, frame.out, exit),
         NEW final, final = Patched(settled, tracked, exit, again), CodeBecomes(here, final)
  PROVE  ScopesIInv'
<1>2. PICK own \in Seq(Owners) : Compiling(own) /\ Nested(own)
  BY Parsing
<1>4. PICK code : code = chunks[here].code
  OBVIOUS
<1>5. PICK out : out = frame.out
  OBVIOUS
<1>6. /\ here \in DOMAIN chunks /\ code \in Seq(AllInsts) /\ Code = code
      /\ \A i \in DOMAIN code : code[i].op # "ret" /\ code[i] \in AllInsts
  BY <1>2, <1>4, CurrentCode
<1>7. PICK body : body = BodyCode
  OBVIOUS
<1>8. LongerBy(code, body, {"nop"}) /\ \A i \in DOMAIN body : body[i].op # "ret"
  <2>1. \A i \in DOMAIN code : code[i].op # "ret"
    BY <1>6
  <2> QED BY <1>6, <1>7, <2>1, BodyIsLonger
<1>9. PICK p : p = end + 1
  OBVIOUS
<1>10. EndedCode(code, whole, p, loop, again)
  <2>1. code \in Seq(AllInsts) /\ end = Len(body) /\ whole = body \o tail
    BY <1>6, <1>7
  <2>2. LongerBy(code, body, {"nop"})
    BY <1>8
  <2>3. \A i \in DOMAIN body : body[i].op # "ret"
    BY <1>8
  <2> QED BY <1>9, <2>1, <2>2, <2>3, TailIsLonger
<1>11. out \in Nat /\ exit \in Int /\ end \in Nat
  <2>1. frame \in AllFrames
    BY TopKnows
  <2>2. Len(body) \in Nat
    BY <1>8 DEF LongerBy
  <2> QED BY <1>5, <1>7, <2>1, <2>2, OutIsNatural
<1>12. AllAimed(whole, final, tracked, out, exit, again)
  <2>1. whole \in Seq(AllInsts)
    BY <1>10 DEF EndedCode
  <2>2. \A i \in DOMAIN whole : whole[i].op # "ret"
    BY <1>10 DEF EndedCode
  <2>3. settled = [whole EXCEPT ![out + 1].wide = exit - out]
    BY <1>5 DEF OutSettled
  <2> QED BY <1>11, <2>1, <2>2, <2>3, WholePatched
<1>13. chunks' = [chunks EXCEPT ![here].code = final] /\ out = frame.out /\ code = chunks[here].code /\ out \in Nat /\ exit \in Int
  BY <1>4, <1>5, <1>11 DEF CodeBecomes
<1>14. /\ ScopesIInv /\ status = "parsing" /\ TopFrame.fn \in LoopFns /\ TopFrame.at \in {"block", "body"} /\ ReturnFrame
       /\ LeavesTables /\ compiler_leave_loop /\ here = chunk_idx /\ chunk_idx' = here
       /\ frame = TopFrame /\ loop = frame.loop /\ tracked = Last(loops) /\ again \in Int
  OBVIOUS
<1> QED BY ONLY <1>10, <1>12, <1>13, <1>14, AimedStep

LEMMA BackIsJump ==
  ASSUME NEW loop \in LoopIds, NEW wide \in Int, NEW back, back = [Jump("jmp", "again", loop) EXCEPT !.flag = 1, !.wide = wide]
  PROVE  BackJump(back, loop, wide)
<1>1. PICK plain : plain = Jump("jmp", "again", loop)
  OBVIOUS
<1>2. "again" \in Roles
  BY DEF Roles
<1>3. plain \in AllInsts
  BY <1>1, <1>2, JumpIsInst
<1>4. JumpFor(plain, "again", loop)
  BY <1>1, JumpsFor
<1>5. plain.op = "jmp"
  BY <1>1 DEF Jump, Inst
<1>6. back = Turned(plain, wide)
  BY <1>1 DEF Turned
<1>7. SameButTarget(plain, back) /\ back.wide = wide /\ back.flag = 1
  <2>1. plain.op # "ret"
    BY <1>5
  <2> QED BY ONLY <1>3, <1>6, <2>1, wide \in Int, TurnedBack
<1>8. JumpFor(back, "again", loop)
  BY <1>4, <1>7, JumpKept
<1> QED BY <1>5, <1>7, <1>8 DEF BackJump, SameButTarget

LEMMA LoopOnTop ==
  ASSUME ScopesIInv, status = "parsing", NEW frame, frame = TopFrame, frame.fn \in LoopFns, NEW body, body = BodyCode
  PROVE  /\ frame.loop \in LoopIds /\ frame.out \in Nat /\ Len(body) \in Nat /\ body \in Seq(AllInsts)
         /\ frame.fn = "do_while" => frame.check \in Nat
<1>1. PICK own \in Seq(Owners) : Compiling(own)
  BY Parsing
<1>2. PICK n, loop, tracked : n = Len(frames) /\ loop = TopFrame.loop /\ tracked = Last(loops)
  OBVIOUS
<1>3. loop \in LoopIds
  BY <1>1, <1>2, TopLoop
<1>4. frame \in AllFrames
  BY TopKnows
<1>5. PICK here, code : here = chunk_idx /\ code = chunks[here].code
  OBVIOUS
<1>6. code \in Seq(AllInsts) /\ Code = code /\ \A i \in DOMAIN code : code[i].op # "ret"
  BY <1>1, <1>5, CurrentCode
<1>7. LongerBy(code, body, {"nop"})
  BY <1>6, BodyIsLonger
<1> QED BY <1>2, <1>3, <1>4, <1>7, OutIsNatural DEF LongerBy

LEMMA WhileEndStep ==
  ASSUME ScopesIInv, end_while
  PROVE  ScopesIInv'
<1>1. status = "parsing" /\ TopFrame.fn = "do_while" /\ TopFrame.fn \in LoopFns /\ TopFrame.at \in {"block", "body"}
  BY DEF end_while, AtEnd, AtStatement, At, LoopFns
<1>2. ReturnFrame /\ LeavesTables /\ compiler_leave_loop /\ chunk_idx' = chunk_idx
  BY DEF end_while, LeavesTables
<1>3. PICK here : here = chunk_idx
  OBVIOUS
<1>4. PICK frame : frame = TopFrame
  OBVIOUS
<1>5. PICK loop, tracked, body : loop = frame.loop /\ tracked = Last(loops) /\ body = BodyCode
  OBVIOUS
<1>6. PICK end, exit, again : end = Len(body) /\ exit = end + 1 /\ again = frame.check
  OBVIOUS
<1>7. PICK back : back = [Jump("jmp", "again", loop) EXCEPT !.flag = 1, !.wide = end - again]
  OBVIOUS
<1>8. PICK whole : whole = Append(body, back)
  OBVIOUS
<1>9. PICK settled : settled = [whole EXCEPT ![frame.out + 1].wide = exit - frame.out]
  OBVIOUS
<1>10. PICK final : final = Patched(settled, tracked, exit, again)
  OBVIOUS
<1>11. chunks' = [chunks EXCEPT ![here].code = final]
  BY <1>3, <1>4, <1>5, <1>6, <1>7, <1>8, <1>9, <1>10 DEF end_while
<1>12. /\ loop \in LoopIds /\ frame.out \in Nat /\ end \in Nat /\ body \in Seq(AllInsts) /\ again \in Nat
  BY <1>1, <1>4, <1>5, <1>6, LoopOnTop
<1>13. again \in Int /\ end - again \in Int
  BY <1>12
<1>14. BackJump(back, loop, end - again)
  BY <1>7, <1>12, <1>13, BackIsJump
<1>15. PICK tail : tail = <<back>>
  OBVIOUS
<1>16. /\ tail \in Seq(AllInsts) /\ 1 \in DOMAIN tail /\ tail[1] = back
       /\ \A k \in DOMAIN tail : k # 1 => tail[k].op = "nop"
  BY <1>14, <1>15 DEF BackJump
<1>17. whole = body \o tail
  <2>1. back \in AllInsts
    BY <1>14 DEF BackJump
  <2> QED BY <1>8, <1>12, <1>15, <2>1
<1>18. BackJump(tail[1], loop, end - again)
  BY <1>14, <1>16
<1>19. end = Len(BodyCode) /\ whole = BodyCode \o tail /\ TopFrame.fn \in LoopFns
  BY <1>1, <1>5, <1>6, <1>17
<1>20. here = chunk_idx /\ chunk_idx' = here /\ frame = TopFrame /\ loop = frame.loop /\ tracked = Last(loops) /\ exit = end + 1
  BY <1>2, <1>3, <1>4, <1>5, <1>6
<1>21. ScopesIInv
  OBVIOUS
<1>22. OutSettled(whole, settled, frame.out, exit)
  BY <1>9 DEF OutSettled
<1>23. CodeBecomes(here, final)
  BY <1>11 DEF CodeBecomes
<1>24. final = Patched(settled, tracked, exit, again)
  BY <1>10
<1> QED BY ONLY <1>1, <1>2, <1>22, <1>23, <1>24, <1>13, <1>16, <1>18, <1>19, <1>20, <1>21, ClosesStep

LEMMA ForEndStep ==
  ASSUME ScopesIInv, end_for
  PROVE  ScopesIInv'
<1>1. status = "parsing" /\ TopFrame.fn = "do_for" /\ TopFrame.fn \in LoopFns /\ TopFrame.at \in {"block", "body"}
  BY DEF end_for, AtEnd, AtStatement, At, LoopFns
<1>2. ReturnFrame /\ LeavesTables /\ compiler_leave_loop /\ chunk_idx' = chunk_idx
  BY DEF end_for, LeavesTables
<1>3. PICK here : here = chunk_idx
  OBVIOUS
<1>4. PICK frame : frame = TopFrame
  OBVIOUS
<1>5. PICK loop, tracked, body : loop = frame.loop /\ tracked = Last(loops) /\ body = BodyCode
  OBVIOUS
<1>6. PICK end, exit, again : end = Len(body) /\ exit = end + 1 /\ again = frame.out + 2
  OBVIOUS
<1>7. PICK back : back = [Jump("jmp", "again", loop) EXCEPT !.flag = 1, !.wide = end - again]
  OBVIOUS
<1>8. PICK nop, tail : nop = Plain("nop", 0, 0) /\ tail = <<back, nop>>
  OBVIOUS
<1>9. PICK whole : whole = body \o tail
  OBVIOUS
<1>10. PICK settled : settled = [whole EXCEPT ![frame.out + 1].wide = exit - frame.out]
  OBVIOUS
<1>11. PICK final : final = Patched(settled, tracked, exit, again)
  OBVIOUS
<1>12. chunks' = [chunks EXCEPT ![here].code = final]
  BY <1>3, <1>4, <1>5, <1>6, <1>7, <1>8, <1>9, <1>10, <1>11 DEF end_for
<1>13. /\ loop \in LoopIds /\ frame.out \in Nat /\ end \in Nat /\ body \in Seq(AllInsts)
  BY <1>1, <1>4, <1>5, <1>6, LoopOnTop
<1>14. again \in Int /\ end - again \in Int
  BY <1>6, <1>13
<1>15. BackJump(back, loop, end - again)
  BY <1>7, <1>13, <1>14, BackIsJump
<1>16. nop \in AllInsts /\ nop.op = "nop"
  BY <1>8, NopIsInst
<1>17. /\ tail \in Seq(AllInsts) /\ 1 \in DOMAIN tail /\ tail[1] = back
       /\ \A k \in DOMAIN tail : k # 1 => tail[k].op = "nop"
  BY <1>8, <1>15, <1>16 DEF BackJump
<1>18. BackJump(tail[1], loop, end - again)
  BY <1>15, <1>17
<1>19. end = Len(BodyCode) /\ whole = BodyCode \o tail
  BY <1>5, <1>6, <1>9
<1>20. here = chunk_idx /\ chunk_idx' = here /\ frame = TopFrame /\ loop = frame.loop /\ tracked = Last(loops) /\ exit = end + 1
  BY <1>2, <1>3, <1>4, <1>5, <1>6
<1>21. ScopesIInv
  OBVIOUS
<1>22. OutSettled(whole, settled, frame.out, exit)
  BY <1>10 DEF OutSettled
<1>23. CodeBecomes(here, final)
  BY <1>12 DEF CodeBecomes
<1>24. final = Patched(settled, tracked, exit, again)
  BY <1>11
<1> QED BY ONLY <1>1, <1>2, <1>22, <1>23, <1>24, <1>14, <1>17, <1>18, <1>19, <1>20, <1>21, ClosesStep

(***************************************************************************)
(* Functions.                                                              *)
(***************************************************************************)
LEMMA Assembled ==
  ASSUME ScopesTypeOK', StringsFit', NEW own2, Nested(own2)', NamesFit(own2)',
         ~ StrayJump' => OpenFit(own2)' /\ JumpsFit(own2)' /\ \A c \in DOMAIN chunks' : CodeFits(c)'
  PROVE  ScopesIInv'
<1>1. Compiling(own2)'
  BY DEF Compiling
<1>2. ProgramFits'
  BY DEF ProgramFits
<1>3. LoopJumpsMeet'
  <2>1. CASE StrayJump'
    BY <2>1, MeetAtAllNext
  <2>2. CASE ~ StrayJump'
    BY <2>2 DEF JumpsFit
  <2> QED BY <2>1, <2>2
<1>4. own2 \in Seq(Owners)
  BY DEF Nested
<1> QED BY <1>1, <1>2, <1>3, <1>4 DEF ScopesIInv

LEMMA NewChunkTyped ==
  ASSUME NEW params \in Seq(Names), NEW captures \in Seq(Names), NEW chunk, chunk = NewChunk(params, captures)
  PROVE  /\ chunk \in ChunkRecs /\ chunk.params = params /\ chunk.captures = captures /\ DOMAIN chunk.code = {1}
         /\ chunk.code # <<>> /\ chunk.code[1].op = "reserve" /\ chunk.code \in Seq(AllInsts)
<1>1. PICK inst : inst = Plain("reserve", 0, 0)
  OBVIOUS
<1>2. inst \in AllInsts /\ inst.op = "reserve"
  BY <1>1 DEF Plain, Inst, AllInsts, Insts
<1>3. chunk = [code |-> <<inst>>, constants |-> <<>>, params |-> params, captures |-> captures]
  BY <1>1 DEF NewChunk
<1>4. <<inst>> \in Seq(AllInsts) /\ DOMAIN <<inst>> = {1} /\ <<inst>>[1] = inst /\ <<inst>> # <<>>
  BY <1>2
<1>5. <<>> \in Seq(Values)
  OBVIOUS
<1>6. chunk.code = <<inst>> /\ chunk.params = params /\ chunk.captures = captures
  BY <1>3
<1>7. chunk \in ChunkRecs
  BY <1>3, <1>4, <1>5 DEF ChunkRecs
<1> QED BY <1>2, <1>4, <1>6, <1>7

\* A chunk with nothing but RESERVE.
BareChunk(chunk) == DOMAIN chunk.code = {1} /\ chunk.code # <<>> /\ chunk.code[1].op = "reserve"

LEMMA BareFits ==
  ASSUME ScopesTypeOK', NEW c \in DOMAIN chunks', BareChunk(chunks'[c]), NEW scope
  PROVE  CodeFits(c)' /\ SlotsFiled(scope, c)' /\ Unfinished(c)'
<1>1. \A i \in DOMAIN chunks'[c].code : chunks'[c].code[i].op = "reserve"
  BY DEF BareChunk
<1>2. Unfinished(c)'
  BY <1>1 DEF Unfinished, CodeOf, BareChunk
<1>3. SlotsReserved(c)'
  BY <1>2, UnfinishedReserved
<1>4. SlotsApart(c)'
  BY <1>1 DEF SlotsApart, CodeOf, OfSlot
<1>5. SlotsFiled(scope, c)'
  BY <1>1 DEF SlotsFiled, CodeOf, OfSlot
<1>6. \A i \in DOMAIN chunks'[c].code : LiteralFits(c, i)'
  BY <1>1 DEF LiteralFits, CodeOf
<1>7. \A i \in DOMAIN chunks'[c].code : CaptureFits(c, i)'
  BY <1>1 DEF CaptureFits, CodeOf, OfUpval
<1>8. CodeFits(c)'
  BY <1>3, <1>4, <1>6, <1>7 DEF CodeFits, CodeOf, BareChunk
<1> QED BY <1>2, <1>5, <1>8

\* A function is begun.
OneChunkMore(chunk) ==
  /\ DOMAIN chunks' = 1 .. Len(chunks) + 1 /\ chunks'[Len(chunks) + 1] = chunk
  /\ \A c \in DOMAIN chunks : c \in DOMAIN chunks' /\ chunks'[c] = chunks[c]
OneScopeMore(scope) ==
  /\ DOMAIN locals' = 1 .. Len(locals) + 1 /\ Len(locals') = Len(locals) + 1 /\ locals'[Len(locals) + 1] = scope
  /\ \A s \in DOMAIN locals : s \in DOMAIN locals' /\ locals'[s] = locals[s]

LEMMA AppendedBoth ==
  ASSUME ScopesTypeOK, NEW chunk \in ChunkRecs, chunks' = Append(chunks, chunk),
         NEW scope \in ScopeRecs, locals' = Append(locals, scope)
  PROVE  /\ OneChunkMore(chunk) /\ OneScopeMore(scope) /\ chunks' \in Seq(ChunkRecs) /\ locals' \in Seq(ScopeRecs)
         /\ Len(chunks) \in Nat /\ Len(locals) \in Nat /\ Len(chunks) + 1 \in DOMAIN chunks' /\ DOMAIN chunks \subseteq DOMAIN chunks'
<1>1. chunks \in Seq(ChunkRecs) /\ locals \in Seq(ScopeRecs)
  BY DEF ScopesTypeOK
<1>2. chunks' \in Seq(ChunkRecs) /\ OneChunkMore(chunk) /\ Len(chunks) \in Nat /\ Len(chunks) + 1 \in DOMAIN chunks' /\ DOMAIN chunks \subseteq DOMAIN chunks'
  BY <1>1 DEF OneChunkMore
<1>3. locals' \in Seq(ScopeRecs) /\ OneScopeMore(scope) /\ Len(locals) \in Nat
  BY <1>1 DEF OneScopeMore
<1> QED BY <1>2, <1>3

\* What there was stays.
LEMMA SameGrows ==
  ASSUME ScopesTypeOK, ScopesTypeOK', \A c \in DOMAIN chunks : c \in DOMAIN chunks' /\ chunks'[c] = chunks[c]
  PROVE  ChunksGrow /\ WidesStay
<1>1. ChunksGrow
  BY DEF ChunksGrow, ChunkGrows
<1>2. WidesStay
  BY DEF WidesStay
<1> QED BY <1>1, <1>2

LEMMA SameScopesGrow ==
  ASSUME ScopesTypeOK, \A s \in DOMAIN locals \cap DOMAIN locals' : locals'[s] = locals[s]
  PROVE  LocalsGrow
<1>1. ASSUME NEW s \in DOMAIN locals PROVE ScopeGrows(locals[s], locals[s])
  <2>1. PICK scope \in ScopeRecs : scope = locals[s]
    BY DEF ScopesTypeOK
  <2>2. scope.next_local_id \in Nat
    BY DEF ScopeRecs
  <2>3. scope.next_local_id >= scope.next_local_id
    BY <2>2
  <2> QED BY <2>1, <2>3 DEF ScopeGrows
<1> QED BY <1>1 DEF LocalsGrow

\* The scope of a function that has just begun.
NewScope(scope, params, captures) ==
  /\ scope \in ScopeRecs /\ LocalsFit(scope) /\ ParamsFit(scope, params) /\ UpvalsFit(scope, captures)
  /\ \A i \in DOMAIN scope.infos : scope.infos[i].domain # "constant"

LEMMA NewScopeFits ==
  ASSUME NEW c, NEW scope, NewScope(scope, chunks'[c].params, chunks'[c].captures)
  PROVE  ScopeFits(scope, c)'
<1>1. LocalsFit(scope)'
  BY DEF NewScope, LocalsFit
<1>2. ConstantsFit(scope, c)'
  BY DEF NewScope, ConstantsFit
<1> QED BY <1>1, <1>2 DEF ScopeFits, NewScope

LEMMA NoOtherJumps ==
  ASSUME \A c \in DOMAIN chunks' : \A i \in DOMAIN chunks'[c].code :
           IsJump(chunks'[c].code[i]) =>
             c \in DOMAIN chunks /\ i \in DOMAIN chunks[c].code /\ chunks'[c].code[i] = chunks[c].code[i]
  PROVE  OnlyJumpsOf({})
BY DEF OnlyJumpsOf

\* The jumps of a step that touches none.
LEMMA JumpsLeft ==
  ASSUME ScopesTypeOK, ScopesTypeOK', ChunksGrow, ~ StrayJump', LoopJumpsMeet, NEW own, Nested(own), JumpsFit(own),
         NEW own2, Nested(own2)', NEW m, m \in DOMAIN own \cap DOMAIN own2, Continues(own, own2, m),
         OnlyJumpsOf({}), \A i \in 1 .. m : SameLoop(frames[i], frames'[i]),
         \A k \in DOMAIN loops : loops'[k] = loops[k],
         \A i \in DOMAIN own2 : i \in 1 .. m \/ frames'[i].fn \notin LoopFns
  PROVE  JumpsFit(own2)'
<1>1. 1 .. m \subseteq DOMAIN own
  <2>1. DOMAIN own = 1 .. Len(own) /\ Len(own) \in Nat
    BY DEF Nested
  <2> QED BY <2>1
<1>2. ASSUME NEW i \in 1 .. m, frames[i].fn \in LoopFns
      PROVE  SameLoop(frames[i], frames'[i]) /\ loops'[own[i].loops] = loops[own[i].loops]
  <2>1. own[i].loops \in DOMAIN loops
    BY <1>1, <1>2, LoopInside
  <2> QED BY <2>1
<1>3. \A i \in 1 .. m : frames[i].fn \in LoopFns /\ frames[i].loop \notin {} =>
        SameLoop(frames[i], frames'[i]) /\ loops'[own[i].loops] = loops[own[i].loops]
  BY <1>2
<1>4. \A i \in DOMAIN own2 : frames'[i].fn \in LoopFns =>
        (i \in 1 .. m /\ frames[i].loop \notin {}) \/ LoopFits(own2, i)'
  OBVIOUS
<1>5. \A c \in DOMAIN chunks' : \A i \in DOMAIN chunks'[c].code :
        IsJump(chunks'[c].code[i]) /\ chunks'[c].code[i].for.loop \in {} => JumpFits(c, i)' /\ MeetsAt(c, i)'
  OBVIOUS
<1> QED BY <1>3, <1>4, <1>5, JumpsStep

LEMMA CallStep ==
  ASSUME ScopesIInv, ScopesTypeOK', StringsFit', NEW own, Compiling(own), NEW own2, Nested(own2)',
         NEW n, n = Len(frames), n \in DOMAIN own \cap DOMAIN own2, Len(own2) = n + 1, Continues(own, own2, n),
         \A i \in 1 .. n : SameLoop(frames[i], frames'[i]), frames'[n + 1].fn \in FunctionFns,
         NEW chunk, OneChunkMore(chunk), BareChunk(chunk), chunk_idx' = Len(chunks) + 1,
         NEW scope, OneScopeMore(scope), NewScope(scope, chunk.params, chunk.captures),
         strings' = strings, loops' = loops, FrameFits(own2, n + 1)'
  PROVE  ScopesIInv'
<1>1. ScopesTypeOK /\ Nested(own) /\ NamesFit(own) /\ LoopJumpsMeet /\ ProgramFits
  BY DEF ScopesIInv, Compiling
<1>2. \A c \in DOMAIN chunks : c \in DOMAIN chunks' /\ chunks'[c] = chunks[c]
  BY DEF OneChunkMore
<1>3. ChunksGrow /\ WidesStay
  BY <1>1, <1>2, SameGrows
<1>4. \A s \in DOMAIN locals : s \in DOMAIN locals' /\ locals'[s] = locals[s]
  BY DEF OneScopeMore
<1>5. LocalsGrow
  BY <1>1, <1>4, SameScopesGrow
<1>6. StringsGrow
  BY DEF StringsGrow
<1>7. n \in Nat /\ DOMAIN own = 1 .. n /\ DOMAIN own2 = 1 .. n + 1 /\ Len(own) = n
  <2>1. n \in Nat /\ DOMAIN own = 1 .. n /\ Len(own) = n
    BY <1>1, FramesFacts
  <2>2. DOMAIN own2 = 1 .. Len(own2)
    BY DEF Nested
  <2> QED BY <2>1, <2>2
<1>8. PICK c : c = Len(chunks) + 1
  OBVIOUS
<1>9. own2[n + 1].chunk = c /\ own2[n + 1].scopes = Len(locals) + 1 /\ locals'[Len(locals) + 1] = scope
  BY <1>8 DEF Nested, OneScopeMore
<1>10. c \in DOMAIN chunks' /\ c \notin DOMAIN chunks /\ chunks'[c] = chunk /\ \A d \in DOMAIN chunks' : d = c \/ d \in DOMAIN chunks
  <2>1. Len(chunks) \in Nat /\ DOMAIN chunks = 1 .. Len(chunks)
    BY <1>1 DEF ScopesTypeOK
  <2> QED BY <1>8, <2>1 DEF OneChunkMore
<1>11. CodeFits(c)' /\ SlotsFiled(scope, c)' /\ Unfinished(c)'
  <2>1. BareChunk(chunks'[c])
    BY <1>10
  <2> QED BY <1>10, <2>1, BareFits
<1>12. ScopeFits(scope, c)'
  BY <1>10, NewScopeFits
<1>13. \A i \in 1 .. n : ScopeFits(locals[own2[i].scopes], own2[i].chunk)' /\ FrameFits(own2, i)' /\ Unfinished(own2[i].chunk)'
  <2>2. ASSUME NEW i \in 1 .. n PROVE chunks'[own[i].chunk].code = chunks[own[i].chunk].code \/ Unfinished(own[i].chunk)'
    <3>1. own[i].chunk \in DOMAIN chunks
      BY <1>1, <1>7 DEF Nested
    <3> QED BY <1>2, <3>1
  <2>3. PICK here : here = chunk_idx
    OBVIOUS
  <2>4. \A s \in DOMAIN locals \cap DOMAIN locals' :
          locals'[s] = locals[s] \/ (s = Len(locals) /\ locals'[s] = scope /\ ScopeFits(scope, here)')
    BY <1>4
  <2>5. ScopesTypeOK /\ ScopesTypeOK' /\ ChunksGrow /\ LocalsGrow /\ Nested(own) /\ NamesFit(own) /\ Nested(own2)'
    BY <1>1, <1>3, <1>5
  <2>6. n \in DOMAIN own \cap DOMAIN own2 /\ Continues(own, own2, n)
    OBVIOUS
  <2> QED BY ONLY <2>2, <2>3, <2>4, <2>5, <2>6, NamesStay
<1>14. NamesFit(own2)'
  <2>1. ASSUME NEW i \in DOMAIN own2
        PROVE  ScopeFits(locals[own2[i].scopes], own2[i].chunk)' /\ FrameFits(own2, i)' /\ Unfinished(own2[i].chunk)'
    <3>1. CASE i \in 1 .. n
      BY <1>13, <3>1
    <3>2. CASE i \notin 1 .. n
      <4>1. i = n + 1
        BY <1>7, <3>2
      <4> QED BY <1>9, <1>11, <1>12, <4>1
    <3> QED BY <3>1, <3>2
  <2> QED BY <2>1 DEF NamesFit
<1>15. ASSUME ~ StrayJump' PROVE OpenFit(own2)' /\ JumpsFit(own2)' /\ \A d \in DOMAIN chunks' : CodeFits(d)'
  <2>1. OpenFit(own) /\ JumpsFit(own) /\ \A d \in DOMAIN chunks : CodeFits(d)
    <3>1. ~ StrayJump
      BY <1>3, <1>15, StrayStays
    <3> QED BY <1>1, <3>1 DEF Compiling, ProgramFits
  <2>2. \A i \in 1 .. n : SlotsFiled(locals[own2[i].scopes], own2[i].chunk)'
    <3>1. ASSUME NEW i \in 1 .. n PROVE DOMAIN chunks'[own[i].chunk].code \ DOMAIN chunks[own[i].chunk].code = {}
      <4>1. own[i].chunk \in DOMAIN chunks
        BY <1>1, <1>7 DEF Nested
      <4> QED BY <1>2, <4>1
    <3>2. \A i \in 1 .. n : \A k \in DOMAIN chunks'[own[i].chunk].code \ DOMAIN chunks[own[i].chunk].code :
            LET inst == chunks'[own[i].chunk].code[k]
            IN OfSlot(inst) /\ Good(inst) => FiledLocal(locals'[own[i].scopes], inst.for, inst.wide)
      BY <3>1
    <3> QED BY <1>1, <1>3, <1>5, <2>1, <3>2, OpenStays
  <2>3. OpenFit(own2)'
    <3>1. ASSUME NEW i \in DOMAIN own2 PROVE SlotsFiled(locals[own2[i].scopes], own2[i].chunk)'
      <4>1. CASE i \in 1 .. n
        BY <2>2, <4>1
      <4>2. CASE i \notin 1 .. n
        <5>1. i = n + 1
          BY <1>7, <4>2
        <5> QED BY <1>9, <1>11, <5>1
      <4> QED BY <4>1, <4>2
    <3> QED BY <3>1 DEF OpenFit
  <2>4. ASSUME NEW d \in DOMAIN chunks' PROVE CodeFits(d)'
    <3>1. CASE d = c
      BY <1>11, <3>1
    <3>2. CASE d \in DOMAIN chunks
      <4>1. chunks'[d] = chunks[d] /\ CodeFits(d)
        BY <1>2, <2>1, <3>2
      <4>2. \A i \in DOMAIN chunks'[d].code \ DOMAIN chunks[d].code : LiteralFits(d, i)' /\ CaptureFits(d, i)'
        BY <4>1
      <4> QED BY <1>1, <1>3, <1>6, <3>2, <4>1, <4>2, CodeStaysFit
    <3> QED BY <1>10, <3>1, <3>2
  <2>5. OnlyJumpsOf({})
    <3>1. ASSUME NEW d \in DOMAIN chunks', NEW i \in DOMAIN chunks'[d].code, IsJump(chunks'[d].code[i])
          PROVE  d \in DOMAIN chunks /\ i \in DOMAIN chunks[d].code /\ chunks'[d].code[i] = chunks[d].code[i]
      <4>1. CASE d = c
        <5>1. chunks'[d].code[i].op = "reserve"
          BY <1>10, <3>1, <4>1 DEF BareChunk
        <5> QED BY <3>1, <5>1 DEF IsJump
      <4>2. CASE d # c
        BY <1>2, <1>10, <3>1, <4>2
      <4> QED BY <4>1, <4>2
    <3> QED BY <3>1, NoOtherJumps
  <2>6. \A i \in DOMAIN own2 : i \in 1 .. n \/ frames'[i].fn \notin LoopFns
    <3>1. frames'[n + 1].fn \notin LoopFns
      BY DEF FunctionFns, LoopFns
    <3>2. \A i \in 1 .. n + 1 : i \in 1 .. n \/ i = n + 1
      BY <1>7
    <3> QED BY <1>7, <3>1, <3>2
  <2>7. JumpsFit(own2)'
    <3>1. \A k \in DOMAIN loops : loops'[k] = loops[k]
      OBVIOUS
    <3> QED BY <1>1, <1>3, <1>15, <2>1, <2>5, <2>6, <3>1, JumpsLeft
  <2> QED BY <2>3, <2>4, <2>7
<1> QED BY <1>14, <1>15, Assembled

LEMMA SourceIsFirst ==
  ASSUME ScopesTypeOK, NEW own, Nested(own), TopFrame.fn = "do_source"
  PROVE  Len(frames) = 1 /\ chunk_idx = 1 /\ Len(locals) = 1 /\ Len(loops) = 0
<1>1. PICK n : n = Len(frames)
  OBVIOUS
<1>2. n \in Nat \ {0} /\ TopFrame = frames[n] /\ Len(own) = n
  BY <1>1, FramesFacts
<1>3. n = 1
  <2>1. ASSUME n # 1 PROVE FALSE
    <3>1. n \in 2 .. Len(own)
      BY <1>2, <2>1
    <3>2. Above(own, n)
      BY <3>1 DEF Nested
    <3> QED BY <1>2, <3>2 DEF Above
  <2> QED BY <2>1
<1>4. own[1].chunk = 1 /\ own[1].scopes = 1 /\ own[1].loops = 0
  BY DEF Nested
<1>5. own[1].chunk = chunk_idx /\ own[1].scopes = Len(locals) /\ own[1].loops = Len(loops)
  BY <1>1, <1>2, <1>3, FramesFacts
<1> QED BY <1>1, <1>3, <1>4, <1>5

LEMMA FunctionFiled ==
  ASSUME ScopesIInv, NEW name \in Names, NEW id \in Nat, compiler_record_function(name, id), strings' = strings
  PROVE  globals' \in Seq(FuncInfos \cup StringInfos) /\ StringsFit' /\ strings' \in Seq(Contents)
<1>1. globals \in Seq(FuncInfos \cup StringInfos) /\ StringsFit /\ strings \in Seq(Contents)
  BY DEF ScopesIInv, ScopesTypeOK
<1>2. PICK info : info = make_symbol_info(name, id, "func")
  OBVIOUS
<1>3. info \in FuncInfos /\ info.domain = "func"
  BY <1>2 DEF make_symbol_info, FuncInfos
<1>4. CASE globals' = globals
  BY <1>1, <1>4 DEF StringsFit
<1>5. CASE globals' = Append(globals, info)
  <2>1. globals' \in Seq(FuncInfos \cup StringInfos)
    BY <1>1, <1>3, <1>5
  <2>2. \A i \in DOMAIN globals' : (i \in DOMAIN globals /\ globals'[i] = globals[i]) \/ globals'[i] = info
    BY <1>1, <1>5
  <2>3. ASSUME NEW i \in DOMAIN globals', globals'[i].domain = "string" PROVE Holds(strings', globals'[i].id, globals'[i].name)
    <3>1. i \in DOMAIN globals /\ globals'[i] = globals[i]
      BY <1>3, <2>2, <2>3
    <3> QED BY <1>1, <2>3, <3>1 DEF StringsFit
  <2> QED BY <1>1, <2>1, <2>3 DEF StringsFit
<1> QED BY <1>2, <1>4, <1>5 DEF compiler_record_function

LEMMA FuncStep ==
  ASSUME ScopesIInv, compiler_do_func
  PROVE  ScopesIInv'
<1>1. status = "parsing" /\ TopFrame.fn = "do_source" /\ TopFrame.at = "body" /\ ScopesTypeOK
  BY DEF compiler_do_func, In, At, ScopesIInv
<1>2. PICK own \in Seq(Owners) : Compiling(own) /\ Nested(own)
  BY <1>1, Parsing
<1>3. PICK n : n = Len(frames)
  OBVIOUS
<1>4. PICK name \in Names, params \in NameLists :
        /\ compiler_record_function(name, Len(chunks) + 1) /\ chunks' = Append(chunks, NewChunk(params, <<>>))
        /\ locals' = Append(locals, ScopeOf(params))
  BY DEF compiler_do_func
<1>5. params \in Seq(Names) /\ <<>> \in Seq(Names)
  BY NamesListed
<1>6. PICK chunk, scope : chunk = NewChunk(params, <<>>) /\ scope = ScopeOf(params)
  OBVIOUS
<1>7. /\ chunk \in ChunkRecs /\ chunk.params = params /\ chunk.captures = <<>> /\ DOMAIN chunk.code = {1}
      /\ chunk.code # <<>> /\ chunk.code[1].op = "reserve"
  <2>1. PICK none : none = <<>>
    OBVIOUS
  <2>2. none \in Seq(Names) /\ chunk = NewChunk(params, none)
    BY <1>5, <1>6, <2>1
  <2>3. /\ chunk \in ChunkRecs /\ chunk.params = params /\ chunk.captures = none /\ DOMAIN chunk.code = {1}
        /\ chunk.code # <<>> /\ chunk.code[1].op = "reserve"
    BY <1>5, <2>2, NewChunkTyped
  <2> QED BY <2>1, <2>3
<1>8. scope \in ScopeRecs /\ LocalsFit(scope) /\ ParamsFit(scope, params) /\ AllLocals(scope)
  BY <1>5, <1>6, ScopeOfFits
<1>9. NewScope(scope, params, <<>>)
  <2>1. UpvalsFit(scope, <<>>)
    BY <1>8 DEF UpvalsFit, AllLocals
  <2> QED BY <1>8, <2>1 DEF NewScope, AllLocals
<1>10. /\ OneChunkMore(chunk) /\ OneScopeMore(scope) /\ chunks' \in Seq(ChunkRecs) /\ locals' \in Seq(ScopeRecs)
       /\ Len(chunks) \in Nat /\ Len(chunks) + 1 \in DOMAIN chunks' /\ DOMAIN chunks \subseteq DOMAIN chunks'
  BY <1>1, <1>4, <1>6, <1>7, <1>8, AppendedBoth
<1>11. chunk_idx' = Len(chunks) + 1 /\ strings' = strings /\ loops' = loops /\ saved_info' = saved_info /\ status' = status
  BY DEF compiler_do_func
<1>12. PICK frame : frame = [fn |-> "do_func", at |-> "block", old_chunk_idx |-> 1]
  OBVIOUS
<1>13. frame \in AllFrames /\ frame.fn = "do_func" /\ frame.old_chunk_idx = 1
  BY <1>12 DEF AllFrames, FuncFrames, Places
<1>14. frames' = Append(Past, frame)
  BY <1>12 DEF compiler_do_func, Begin
<1>15. frame.fn \in FunctionFns /\ frame.fn \notin LoopFns /\ frame.fn \notin {"do_source", "do_lambda"}
  BY <1>13 DEF FunctionFns, LoopFns
<1>16. frame.old_chunk_idx = chunk_idx /\ Len(locals') = Len(locals) + 1 /\ TopFrame.at \in {"block", "body", "update"}
       /\ chunk_idx' \in DOMAIN chunks'
  <2>1. chunk_idx = 1
    BY <1>1, <1>2, SourceIsFirst
  <2> QED BY <1>1, <1>10, <1>11, <1>13, <2>1 DEF OneScopeMore
<1>17. Len(loops') = Len(loops) + (IF frame.fn \in LoopFns THEN 1 ELSE 0)
  <2>1. Len(loops) \in Nat
    BY <1>1 DEF ScopesTypeOK
  <2> QED BY <1>11, <1>15, <2>1
<1>18. PICK own2 : own2 = Append(own, [chunk |-> chunk_idx', scopes |-> Len(locals'), loops |-> Len(loops')])
  OBVIOUS
<1>24. /\ ScopesTypeOK /\ Nested(own) /\ frame.fn \in FunctionFns /\ chunk_idx' = Len(chunks) + 1
       /\ DOMAIN chunks \subseteq DOMAIN chunks' /\ frame \in AllFrames /\ frame.fn \notin {"do_source", "do_lambda"}
  BY <1>1, <1>2, <1>10, <1>11, <1>13, <1>15
<1>25. frame.fn \notin FunctionFns => chunk_idx' = chunk_idx /\ Len(locals') = Len(locals)
  BY <1>15
<1>19. /\ Nested(own2)' /\ frames' \in Seq(AllFrames) /\ n \in DOMAIN own \cap DOMAIN own2 /\ Len(own2) = n + 1
       /\ Continues(own, own2, n) /\ \A i \in 1 .. n : SameLoop(frames[i], frames'[i])
       /\ frames'[n + 1] = frame
  <2>1. Nested(own2)'
    BY ONLY <1>3, <1>14, <1>16, <1>17, <1>18, <1>24, <1>25, BeginsCall
  <2>2. frames' \in Seq(AllFrames) /\ frames'[n + 1] = frame
    BY ONLY <1>3, <1>14, <1>16, <1>17, <1>18, <1>24, <1>25, BeginsCall
  <2>3. n \in DOMAIN own \cap DOMAIN own2 /\ Len(own2) = n + 1
    <3>0. PICK last : last = [chunk |-> chunk_idx', scopes |-> Len(locals'), loops |-> Len(loops')]
      OBVIOUS
    <3>4. own2 = Append(own, last) /\ own \in Seq(Owners) /\ Len(own) = n
      <4>1. own \in Seq(Owners) /\ Len(own) = n
        BY <1>1, <1>2, <1>3, FramesFacts
      <4> QED BY <1>18, <3>0, <4>1
    <3>1. Len(own2) = n + 1
      BY ONLY <3>4
    <3>2. n \in Nat /\ n # 0 /\ DOMAIN own = 1 .. n
      BY <1>1, <1>2, <1>3, FramesFacts
    <3>3. own2 \in Seq(Owners)
      BY <2>1 DEF Nested
    <3> QED BY <3>1, <3>2, <3>3
  <2>4. Continues(own, own2, n) /\ \A i \in 1 .. n : SameLoop(frames[i], frames'[i])
    BY ONLY <1>3, <1>14, <1>16, <1>17, <1>18, <1>24, <1>25, BeginsCall, ZenonT(30)
  <2> QED BY <2>1, <2>2, <2>3, <2>4
<1>20. globals' \in Seq(FuncInfos \cup StringInfos) /\ StringsFit' /\ strings' \in Seq(Contents)
  <2>1. PICK id \in Nat : id = Len(chunks) + 1
    BY <1>10
  <2> QED BY <1>4, <1>11, <2>1, FunctionFiled
<1>21. ScopesTypeOK'
  BY <1>1, <1>10, <1>11, <1>16, <1>19, <1>20 DEF ScopesTypeOK
<1>22. FrameFits(own2, n + 1)'
  BY <1>13, <1>19 DEF FrameFits
<1>23. frames'[n + 1].fn \in FunctionFns /\ BareChunk(chunk) /\ NewScope(scope, chunk.params, chunk.captures)
  BY <1>7, <1>9, <1>15, <1>19 DEF BareChunk
<1> QED BY <1>2, <1>3, <1>10, <1>11, <1>19, <1>20, <1>21, <1>22, <1>23, CallStep

PushedLambda(frame) == frames' = Append([frames EXCEPT ![Len(frames)].at = "then"], frame)

NextOwner(last) == last = [chunk |-> chunk_idx', scopes |-> Len(locals'), loops |-> Len(loops')]

LambdaBegun(own, own2, frame, last, n) ==
  /\ Nested(own2)' /\ frames' \in Seq(AllFrames) /\ n \in DOMAIN own \cap DOMAIN own2 /\ Len(own2) = n + 1
  /\ Continues(own, own2, n) /\ \A i \in 1 .. n : SameLoop(frames[i], frames'[i])
  /\ frames'[n + 1] = frame /\ own2[n + 1] = last /\ own2[n] = own[n] /\ n \in Nat \ {0}

LEMMA BeginsLambda ==
  ASSUME ScopesTypeOK, NEW own, Nested(own), TopFrame.at = "value", NEW frame \in AllFrames, frame.fn = "do_lambda", PushedLambda(frame),
         DOMAIN chunks \subseteq DOMAIN chunks', chunk_idx' \in DOMAIN chunks',
         frame.old_chunk_idx = chunk_idx, chunk_idx' = Len(chunks) + 1, Len(locals') = Len(locals) + 1,
         Len(loops') = Len(loops), NEW n, n = Len(frames),
         NEW last, NextOwner(last),
         NEW own2, own2 = Append(own, last)
  PROVE  LambdaBegun(own, own2, frame, last, n)
<1>1. /\ n \in Nat \ {0} /\ n \in DOMAIN frames /\ DOMAIN frames = 1 .. n /\ DOMAIN own = 1 .. n /\ Len(own) = n
      /\ TopFrame = frames[n] /\ frames \in Seq(AllFrames) /\ TopFrame \in AllFrames /\ own \in Seq(Owners)
  BY FramesFacts
<1>2. "then" \in Places
  BY DEF Places
<1>3. PICK below : below = [frames EXCEPT ![Len(frames)].at = "then"]
  OBVIOUS
<1>4. PICK top : top = [TopFrame EXCEPT !.at = "then"]
  OBVIOUS
<1>5. top \in AllFrames /\ SameFrame(TopFrame, top) /\ top.at = "then" /\ (TopFrame.fn \in LoopFns => top.out = TopFrame.out)
  BY <1>1, <1>2, <1>4, FrameMoves
<1>6. SameLoop(TopFrame, top)
  BY <1>5 DEF SameLoop, Settled
<1>7. below = [frames EXCEPT ![n] = top]
  BY <1>1, <1>3, <1>4
<1>8. below \in Seq(AllFrames) /\ Len(below) = n /\ below[n] = top /\ \A i \in 1 .. n : i # n => below[i] = frames[i]
  BY <1>1, <1>5, <1>7, Replaced
<1>9. frames' = Append(below, frame)
  BY <1>3 DEF PushedLambda
<1>10. /\ frames' \in Seq(AllFrames) /\ frames'[n + 1] = frame /\ \A i \in 1 .. n : frames'[i] = below[i]
  <2>1. n \in Nat /\ below \in Seq(AllFrames) /\ Len(below) = n /\ frame \in AllFrames
    BY <1>1, <1>8
  <2>2. PICK longer : longer = frames'
    OBVIOUS
  <2>3. longer = Append(below, frame)
    BY <1>9, <2>2
  <2>4. longer \in Seq(AllFrames) /\ longer[n + 1] = frame /\ \A i \in 1 .. n : longer[i] = below[i]
    BY ONLY <2>1, <2>3
  <2> QED BY <2>2, <2>4
<1>11. ASSUME NEW i \in 1 .. n PROVE SameFrame(frames[i], frames'[i]) /\ SameLoop(frames[i], frames'[i])
  <2>1. CASE i = n
    BY <1>1, <1>5, <1>6, <1>8, <1>10, <2>1
  <2>2. CASE i # n
    <3>1. frames'[i] = frames[i]
      BY <1>8, <1>10, <2>2
    <3> QED BY <3>1, SameFrameItself
  <2> QED BY <2>1, <2>2
<1>12. last \in Owners
  <2>1. Len(locals) \in Nat /\ Len(loops) \in Nat /\ Len(chunks) \in Nat
    BY DEF ScopesTypeOK
  <2>2. chunk_idx' \in Nat /\ Len(locals') \in Nat /\ Len(loops') \in Nat
    BY <2>1
  <2> QED BY <2>2 DEF Owners, NextOwner
<1>13. /\ own2 \in Seq(Owners) /\ Len(own2) = n + 1 /\ own2[n + 1] = last /\ n \in DOMAIN own2 /\ \A i \in 1 .. n : own2[i] = own[i]
  BY <1>1, <1>12
<1>14. Continues(own, own2, n)
  BY <1>11, <1>13 DEF Continues
<1>15. own2[n] = own[n]
  BY <1>1, <1>13
<1>16. Nested(own2)'
  <2>1. frame.fn # "do_source" /\ frame.fn \in FunctionFns /\ frame.fn \notin LoopFns
    BY DEF FunctionFns, LoopFns
  <2>2. frames' = Append([frames EXCEPT ![Len(frames)] = [@ EXCEPT !.at = "then"]], frame)
    <3>1. below = [frames EXCEPT ![Len(frames)] = [@ EXCEPT !.at = "then"]]
      BY <1>3
    <3> QED BY <1>9, <3>1
  <2>3. Len(loops') = Len(loops) + (IF frame.fn \in LoopFns THEN 1 ELSE 0)
    <3>1. Len(loops) \in Nat
      BY DEF ScopesTypeOK
    <3> QED BY <2>1, <3>1
  <2>4. PICK place \in Places : place = "then"
    BY <1>2
  <2>5. frames' = Append([frames EXCEPT ![Len(frames)] = [@ EXCEPT !.at = place]], frame)
    BY <2>2, <2>4
  <2>6. own2 = Append(own, [chunk |-> chunk_idx', scopes |-> Len(locals'), loops |-> Len(loops')])
    BY DEF NextOwner
  <2>7. frame.fn = "do_lambda" => place = "then"
    BY <2>4
  <2>8. frame.fn # "do_lambda" => place \in {"body", "updated"}
    OBVIOUS
  <2>9. frame.fn \in FunctionFns => frame.old_chunk_idx = chunk_idx /\ chunk_idx' = Len(chunks) + 1 /\ Len(locals') = Len(locals) + 1
    OBVIOUS
  <2>10. frame.fn \notin FunctionFns => chunk_idx' = chunk_idx /\ Len(locals') = Len(locals)
    BY <2>1
  <2>11. ScopesTypeOK /\ Nested(own) /\ DOMAIN chunks \subseteq DOMAIN chunks' /\ chunk_idx' \in DOMAIN chunks'
    OBVIOUS
  <2>12. place \in Places /\ frame.fn # "do_source"
    BY <2>1
  <2> QED BY ONLY <2>3, <2>5, <2>6, <2>7, <2>8, <2>9, <2>10, <2>11, <2>12, NestedPush
<1>17. n \in DOMAIN own \cap DOMAIN own2
  BY <1>1, <1>13
<1> QED BY <1>1, <1>10, <1>11, <1>13, <1>14, <1>15, <1>16, <1>17 DEF LambdaBegun

LEMMA LocalIsFiled ==
  ASSUME NEW scope \in ScopeRecs, NEW name \in Names, Knows(scope.infos, name, "local")
  PROVE  SlotOf(scope, name) \in Nat /\ FiledLocal(scope, name, SlotOf(scope, name))
<1>1. scope.infos \in Seq(ScopeInfos)
  BY DEF ScopeRecs
<1>2. PICK info : info = SymbolTable_find(scope.infos, name, "local")
  OBVIOUS
<1>3. info # NoInfo
  BY <1>2 DEF Knows
<1>4. info.name = name /\ info.domain = "local" /\ \E i \in DOMAIN scope.infos : scope.infos[i] = info
  <2>1. "local" # "none"
    OBVIOUS
  <2> QED BY <1>1, <1>2, <1>3, <2>1, FindsEntry
<1>5. \E i \in DOMAIN scope.infos : scope.infos[i].domain = "local" /\ scope.infos[i].name = name
  BY <1>4
<1> QED BY <1>5, SlotIsFiled

\* What a lambda takes from the function around it.
LEMMA UsedFiled ==
  ASSUME ScopesTypeOK, CurrScope \in ScopeRecs, NEW params, NEW captures \in Seq(Names), MayCapture(params, captures),
         NEW scope, scope = CurrScope,
         NEW used, used = [k \in DOMAIN captures |-> SlotOf(CurrScope, captures[k])]
  PROVE  /\ used \in Seq(Nat) /\ Len(used) = Len(captures)
         /\ \A k \in DOMAIN captures : FiledLocal(scope, captures[k], used[k])
<1>1. \A k \in DOMAIN captures : SlotOf(scope, captures[k]) \in Nat /\ FiledLocal(scope, captures[k], SlotOf(scope, captures[k]))
  BY LocalIsFiled DEF MayCapture
<1>2. DOMAIN captures = 1 .. Len(captures) /\ Len(captures) \in Nat
  OBVIOUS
<1>3. used \in [1 .. Len(captures) -> Nat]
  BY <1>1, <1>2
<1>4. used \in Seq(Nat) /\ Len(used) = Len(captures)
  BY <1>2, <1>3
<1> QED BY <1>1, <1>4

LEMMA LambdaStep ==
  ASSUME ScopesIInv, compiler_do_lambda
  PROVE  ScopesIInv'
<1>1. status = "parsing" /\ TopFrame.at = "value" /\ ScopesTypeOK
  BY DEF compiler_do_lambda, At, ScopesIInv
<1>2. PICK own \in Seq(Owners) : Compiling(own) /\ Nested(own)
  BY <1>1, Parsing
<1>3. PICK params \in NameLists, captures \in NameLists :
        IF ~ MayCapture(params, captures) THEN Fail("dead")
        ELSE /\ locals' = Append(locals, ScopeWith(params, captures))
             /\ chunks' = Append(chunks, NewChunk(params, captures))
             /\ chunk_idx' = Len(chunks) + 1
             /\ frames' = Append([frames EXCEPT ![Len(frames)].at = "then"],
                  [fn |-> "do_lambda", at |-> "block", old_chunk_idx |-> chunk_idx,
                   used_local_ids |-> [k \in DOMAIN captures |-> SlotOf(CurrScope, captures[k])]])
             /\ UNCHANGED <<globals, strings, loops, saved_info, status>>
  BY DEF compiler_do_lambda
<1>4. CASE ~ MayCapture(params, captures)
  BY <1>3, <1>4, FailStep
<1>5. CASE MayCapture(params, captures)
  <2>1. params \in Seq(Names) /\ captures \in Seq(Names)
    BY NamesListed
  <2>2. PICK chunk, scope, used, around :
          /\ chunk = NewChunk(params, captures) /\ scope = ScopeWith(params, captures)
          /\ used = [k \in DOMAIN captures |-> SlotOf(CurrScope, captures[k])] /\ around = CurrScope
    OBVIOUS
  <2>3. PICK frame : frame = [fn |-> "do_lambda", at |-> "block", old_chunk_idx |-> chunk_idx, used_local_ids |-> used]
    OBVIOUS
  <2>4. PICK n : n = Len(frames)
    OBVIOUS
  <2>5. /\ locals' = Append(locals, scope) /\ chunks' = Append(chunks, chunk) /\ chunk_idx' = Len(chunks) + 1
        /\ frames' = Append([frames EXCEPT ![Len(frames)].at = "then"], frame)
        /\ globals' = globals /\ strings' = strings /\ loops' = loops /\ saved_info' = saved_info /\ status' = status
    BY <1>3, <1>5, <2>2, <2>3
  <2>6. /\ chunk \in ChunkRecs /\ chunk.params = params /\ chunk.captures = captures /\ DOMAIN chunk.code = {1}
        /\ chunk.code # <<>> /\ chunk.code[1].op = "reserve"
    BY <2>1, <2>2, NewChunkTyped
  <2>7. NewScope(scope, params, captures)
    BY <2>1, <2>2, ScopeWithFits DEF NewScope
  <2>8. scope \in ScopeRecs
    BY <2>7 DEF NewScope
  <2>9. OneChunkMore(chunk) /\ OneScopeMore(scope) /\ chunks' \in Seq(ChunkRecs) /\ locals' \in Seq(ScopeRecs)
    BY <1>1, <2>5, <2>6, <2>8, AppendedBoth
  <2>10. Len(chunks) + 1 \in DOMAIN chunks' /\ DOMAIN chunks \subseteq DOMAIN chunks'
    BY <1>1, <2>5, <2>6, <2>8, AppendedBoth
  <2>11. CurrScope \in ScopeRecs /\ chunk_idx \in Nat
    BY <1>1, <1>2, CurrScopeTyped, HereIsNatural
  <2>12. /\ used \in Seq(Nat) /\ Len(used) = Len(captures)
         /\ \A k \in DOMAIN captures : FiledLocal(around, captures[k], used[k])
    BY <1>1, <1>5, <2>1, <2>2, <2>11, UsedFiled
  <2>13. frame \in AllFrames /\ frame.fn = "do_lambda" /\ frame.old_chunk_idx = chunk_idx /\ frame.used_local_ids = used
    <3>1. frame \in LambdaFrames
      BY <2>3, <2>11, <2>12 DEF LambdaFrames, Places
    <3> QED BY <2>3, <3>1 DEF AllFrames
  <2>14. chunk_idx' \in DOMAIN chunks' /\ Len(locals') = Len(locals) + 1 /\ Len(loops') = Len(loops)
    BY <2>5, <2>9, <2>10 DEF OneScopeMore
  <2>15. PICK last, own2 : NextOwner(last) /\ own2 = Append(own, last)
    BY DEF NextOwner
  <2>16. /\ ScopesTypeOK /\ Nested(own) /\ TopFrame.at = "value" /\ frame \in AllFrames /\ frame.fn = "do_lambda"
         /\ frame.old_chunk_idx = chunk_idx
    BY <1>1, <1>2, <2>13
  <2>17. /\ PushedLambda(frame) /\ chunk_idx' = Len(chunks) + 1
         /\ DOMAIN chunks \subseteq DOMAIN chunks'
    BY <2>5, <2>10 DEF PushedLambda
  <2>30. LambdaBegun(own, own2, frame, last, n)
    BY ONLY <2>4, <2>14, <2>15, <2>16, <2>17, BeginsLambda
  <2>18. Nested(own2)' /\ frames' \in Seq(AllFrames)
    BY <2>30 DEF LambdaBegun
  <2>19. n \in DOMAIN own \cap DOMAIN own2 /\ Len(own2) = n + 1 /\ n \in Nat \ {0}
    BY <2>30 DEF LambdaBegun
  <2>20. Continues(own, own2, n) /\ \A i \in 1 .. n : SameLoop(frames[i], frames'[i])
    BY <2>30 DEF LambdaBegun
  <2>21. frames'[n + 1] = frame /\ own2[n + 1] = last /\ own2[n] = own[n]
    BY <2>30 DEF LambdaBegun
  <2>22. globals' \in Seq(FuncInfos \cup StringInfos) /\ StringsFit' /\ strings' \in Seq(Contents)
    BY <2>5, SameStrings
  <2>23. ScopesTypeOK'
    BY <1>1, <2>5, <2>9, <2>14, <2>18, <2>22 DEF ScopesTypeOK
  <2>24. FrameFits(own2, n + 1)'
    <3>1. own2[n + 1].chunk = Len(chunks) + 1
      <4>1. last.chunk = chunk_idx'
        BY <2>15 DEF NextOwner
      <4> QED BY <2>5, <2>21, <4>1
    <3>2. chunks'[Len(chunks) + 1] = chunk
      BY <2>9 DEF OneChunkMore
    <3>3. n + 1 - 1 = n
      BY <2>19
    <3>4. own2[n].scopes = Len(locals)
      BY <1>1, <1>2, <2>4, <2>21, FramesFacts
    <3>5. locals'[Len(locals)] = around
      BY <1>1, <1>2, <2>2, <2>9, CurrScopeTyped DEF OneScopeMore
    <3>6. PICK next : next = n + 1
      OBVIOUS
    <3>7. chunks'[own2[next].chunk].captures = captures
      BY <2>6, <3>1, <3>2, <3>6
    <3>8. locals'[own2[next - 1].scopes] = around
      <4>1. next - 1 = n
        BY <2>19, <3>3, <3>6
      <4>2. own2[next - 1].scopes = Len(locals)
        BY <3>4, <4>1
      <4> QED BY <3>5, <4>2
    <3>9. frames'[next].fn = "do_lambda" /\ frames'[next].used_local_ids = used
      BY <2>13, <2>21, <3>6
    <3>10. FrameFits(own2, next)'
      BY <2>12, <3>7, <3>8, <3>9 DEF FrameFits
    <3> QED BY <3>6, <3>10
  <2>25. frames'[n + 1].fn \in FunctionFns /\ BareChunk(chunk) /\ NewScope(scope, chunk.params, chunk.captures)
    BY <2>6, <2>7, <2>13, <2>21 DEF BareChunk, FunctionFns
  <2> QED BY <1>2, <2>4, <2>5, <2>9, <2>18, <2>19, <2>20, <2>22, <2>23, <2>24, <2>25, CallStep
<1> QED BY <1>4, <1>5

(***************************************************************************)
(* The end of a function.                                                  *)
(***************************************************************************)
RoomFor(scope) == scope.next_local_id - scope.local_argc

IsClosed(code, final, room) ==
  /\ final \in Seq(AllInsts)
  /\ \A i \in DOMAIN code : i \in DOMAIN final /\ SameButTarget(code[i], final[i]) /\ (i # 1 => final[i] = code[i])
  /\ \A i \in DOMAIN final \ DOMAIN code : final[i].op \in {"nop", "ret"}
  /\ final[1].wide = room

LEMMA RetIsInst == Plain("ret", "last", 0) \in AllInsts /\ Plain("ret", "last", 0).op = "ret"
<1>1. PICK inst : inst = Plain("ret", "last", 0)
  OBVIOUS
<1>2. inst = [op |-> "ret", flag |-> "last", wide |-> 0, for |-> "none", info |-> "good"]
  BY <1>1 DEF Plain, Inst
<1>3. inst \in [op : {"ret"}, flag : {"last"}, wide : {0}, for : {"none"}, info : {"good"}]
  BY <1>2
<1>4. inst \in AllInsts
  BY <1>3 DEF AllInsts
<1> QED BY <1>1, <1>2, <1>4

LEMMA FunctionClosed ==
  ASSUME NEW code \in Seq(AllInsts), code # <<>>, NEW body, LongerBy(code, body, {"nop"}),
         \A i \in DOMAIN body : body[i].op # "ret", NEW scope \in ScopeRecs, NEW final, final = Closed(body, scope)
  PROVE  IsClosed(code, final, RoomFor(scope))
<1>1. PICK room \in Int : room = RoomFor(scope)
  BY DEF RoomFor, ScopeRecs
<1>2. PICK sized : sized = [body EXCEPT ![1].wide = room]
  OBVIOUS
<1>3. PICK ret \in AllInsts : ret = Plain("ret", "last", 0) /\ ret.op = "ret"
  BY RetIsInst
<1>4. final = Append(sized, ret)
  BY <1>1, <1>2, <1>3 DEF Closed, RoomFor
<1>5. body \in Seq(AllInsts) /\ \A i \in DOMAIN code : i \in DOMAIN body /\ body[i] = code[i]
  BY DEF LongerBy
<1>6. 1 \in DOMAIN code /\ 1 \in DOMAIN body
  BY <1>5
<1>7. /\ TargetsChange(body, sized) /\ \A i \in DOMAIN body : i # 1 => sized[i] = body[i]
      /\ sized[1].wide = room
  <2>1. PICK p \in Int : p = 1
    OBVIOUS
  <2>2. sized = [body EXCEPT ![p].wide = room]
    BY <1>2, <2>1
  <2>3. TargetsChange(body, sized) /\ \A i \in DOMAIN body : i # p => sized[i] = body[i]
    BY <1>1, <1>5, <2>2, OnePatched
  <2>4. sized[p].wide = room
    BY <1>1, <1>5, <1>6, <2>1, <2>2, OnePatched
  <2> QED BY <2>1, <2>3, <2>4
<1>8. sized \in Seq(AllInsts) /\ DOMAIN sized = DOMAIN body /\ \A i \in DOMAIN body : SameButTarget(body[i], sized[i])
  BY <1>7 DEF TargetsChange
<1>9. /\ final \in Seq(AllInsts) /\ \A i \in DOMAIN sized : i \in DOMAIN final /\ final[i] = sized[i]
      /\ \A i \in DOMAIN final \ DOMAIN sized : final[i] = ret
  BY <1>4, <1>8
<1>10. \A i \in DOMAIN body \ DOMAIN code : body[i].op = "nop"
  BY DEF LongerBy
<1>11. ASSUME NEW i \in DOMAIN code
       PROVE  i \in DOMAIN final /\ SameButTarget(code[i], final[i]) /\ (i # 1 => final[i] = code[i])
  BY <1>5, <1>7, <1>8, <1>9
<1>12. ASSUME NEW i \in DOMAIN final \ DOMAIN code PROVE final[i].op \in {"nop", "ret"}
  <2>1. CASE i \in DOMAIN body
    <3>1. final[i].op = body[i].op
      BY <1>8, <1>9, <2>1 DEF SameButTarget
    <3> QED BY <1>10, <2>1, <3>1
  <2>2. CASE i \notin DOMAIN body
    BY <1>3, <1>8, <1>9, <2>2
  <2> QED BY <2>1, <2>2
<1>13. final[1].wide = room
  BY <1>6, <1>7, <1>8, <1>9
<1> QED BY <1>1, <1>9, <1>11, <1>12, <1>13 DEF IsClosed

\* What is added to a function at its end needs nothing.
LEMMA EndFits ==
  ASSUME NEW c, NEW i, chunks'[c].code[i].op \in {"nop", "ret"}
  PROVE  LiteralFits(c, i)' /\ CaptureFits(c, i)' /\ ~ OfSlot(chunks'[c].code[i]) /\ ~ IsJump(chunks'[c].code[i])
<1>1. PICK inst : inst = chunks'[c].code[i]
  OBVIOUS
<1>2. ~ OfSlot(inst) /\ ~ IsJump(inst) /\ ~ OfUpval(inst)
  BY <1>1 DEF OfSlot, IsJump, OfUpval
<1> QED BY <1>1, <1>2 DEF LiteralFits, CaptureFits, CodeOf

LEMMA ClosedFits ==
  ASSUME ScopesTypeOK, ChunksGrow, WidesStay, StringsGrow, NEW here \in DOMAIN chunks, CodeFits(here),
         NEW scope \in ScopeRecs, ScopeFits(scope, here), SlotsFiled(scope, here),
         IsClosed(chunks[here].code, chunks'[here].code, RoomFor(scope))
  PROVE  CodeFits(here)'
<1>1. PICK code : code = chunks'[here].code
  OBVIOUS
<1>2. chunks'[here].params = chunks[here].params
  BY DEF ChunksGrow, ChunkGrows
<1>3. \A i \in DOMAIN code \ DOMAIN chunks[here].code : code[i].op \in {"nop", "ret"}
  BY <1>1 DEF IsClosed
<1>4. \A i \in DOMAIN chunks'[here].code \ DOMAIN chunks[here].code : LiteralFits(here, i)' /\ CaptureFits(here, i)'
  BY <1>1, <1>3, EndFits
<1>5. chunks[here].code[1].op = "reserve"
  BY DEF CodeFits, CodeOf
<1>6. LocalsFit(scope) /\ ParamsFit(scope, chunks[here].params)
  BY DEF ScopeFits
<1>7. SlotsFiled(scope, here)'
  <2>1. ScopeGrows(scope, scope)
    <3>1. scope.next_local_id \in Nat
      BY DEF ScopeRecs
    <3> QED BY <3>1 DEF ScopeGrows
  <2>2. \A i \in DOMAIN chunks'[here].code \ DOMAIN chunks[here].code :
           OfSlot(chunks'[here].code[i]) /\ Good(chunks'[here].code[i]) =>
             FiledLocal(scope, chunks'[here].code[i].for, chunks'[here].code[i].wide)
    BY <1>1, <1>3, EndFits
  <2>3. PICK same : same = scope
    OBVIOUS
  <2> QED BY <1>5, <2>1, <2>2, <2>3, SlotsStayFiled
<1>8. NamedApart(here)' => SlotsApart(here)'
  BY <1>2, <1>6, <1>7, FiledApart
<1>9. SlotsReserved(here)'
  <2>1. ASSUME NEW i \in DOMAIN code, OfSlot(code[i]), Good(code[i])
        PROVE  code[i].wide \in 1 .. Len(chunks'[here].params) + code[1].wide
    <3>1. FiledLocal(scope, code[i].for, code[i].wide)
      BY <1>1, <1>7, <2>1 DEF SlotsFiled, CodeOf
    <3>2. PICK k \in DOMAIN scope.infos : scope.infos[k] = make_symbol_info(code[i].for, code[i].wide, "local")
      BY <3>1 DEF FiledLocal, Filed
    <3>3. scope.infos[k].domain = "local" /\ scope.infos[k].id = code[i].wide
      BY <3>2 DEF make_symbol_info
    <3>4. code[i].wide \in 1 .. scope.next_local_id
      BY <1>6, <3>3 DEF LocalsFit
    <3>5. scope.local_argc = Len(chunks'[here].params)
      BY <1>2, <1>6 DEF ParamsFit
    <3>6. code[1].wide = scope.next_local_id - scope.local_argc
      BY <1>1 DEF IsClosed, RoomFor
    <3>7. scope.local_argc \in Nat /\ scope.next_local_id \in Nat
      BY DEF ScopeRecs
    <3> QED BY <3>4, <3>5, <3>6, <3>7
  <2> QED BY <1>1, <2>1 DEF SlotsReserved, CodeOf
<1> QED BY <1>4, <1>8, <1>9, CodeStaysFit

\* The function on top and the one around it.
LEMMA AroundFunction ==
  ASSUME ScopesTypeOK, NEW own, Nested(own), NEW n, n = Len(frames), TopFrame.fn \in FunctionFns,
         NEW here, here = chunk_idx, NEW there, there = TopFrame.old_chunk_idx
  PROVE  /\ n \in Nat /\ n > 1 /\ n - 1 \in DOMAIN own /\ n \in DOMAIN own /\ DOMAIN own = 1 .. n /\ Len(own) = n
         /\ own[n].chunk = here /\ own[n - 1].chunk = there /\ there # here
         /\ own[n].scopes = Len(locals) /\ own[n - 1].scopes = Len(locals) - 1 /\ Len(locals) - 1 \in DOMAIN locals
         /\ here \in DOMAIN chunks /\ there \in DOMAIN chunks /\ TopFrame = frames[n]
         /\ \A i \in 1 .. n - 1 : own[i].chunk # here /\ i \in DOMAIN own
         /\ \A i \in 1 .. n - 1 : own[i].chunk = there => own[i].scopes = own[n - 1].scopes
<1>1. /\ n \in Nat \ {0} /\ DOMAIN own = 1 .. n /\ Len(own) = n /\ TopFrame = frames[n] /\ own[n].chunk = here
      /\ own[n].scopes = Len(locals) /\ \A i \in 1 .. n : own[i] \in Owners
  BY FramesFacts
<1>2. n # 1
  <2>1. frames[1].fn = "do_source"
    BY DEF Nested
  <2> QED BY <1>1, <2>1 DEF FunctionFns
<1>3. n > 1 /\ n \in 2 .. n /\ n - 1 \in 1 .. n
  BY <1>1, <1>2
<1>4. Above(own, n)
  BY <1>1, <1>3 DEF Nested
<1>5. own[n - 1].chunk = there /\ own[n].scopes = own[n - 1].scopes + 1
  BY <1>1, <1>4 DEF Above
<1>6. here \in DOMAIN chunks /\ there \in DOMAIN chunks /\ own[n - 1].scopes \in DOMAIN locals
  BY <1>1, <1>3, <1>5, OwnedInside
<1>7. own[n - 1].scopes = Len(locals) - 1
  <2>1. own[n - 1].scopes \in Nat
    BY <1>1, <1>3 DEF Owners
  <2> QED BY <1>1, <1>5, <2>1
<1>8. ASSUME NEW i \in 1 .. n - 1 PROVE own[i].chunk # here /\ i \in DOMAIN own
  <2>1. i \in DOMAIN own /\ n \in DOMAIN own /\ i < n
    BY <1>1, <1>3
  <2>2. FarAbove(own, i, n)
    BY <2>1 DEF Nested
  <2>3. own[i].chunk < own[n].chunk
    BY <1>1, <2>2 DEF FarAbove
  <2>4. own[i].chunk \in Nat /\ own[n].chunk \in Nat
    BY <1>1, <2>1 DEF Owners
  <2> QED BY <1>1, <2>1, <2>3, <2>4
<1>9. there # here
  <2>1. n - 1 \in 1 .. n - 1
    BY <1>3
  <2> QED BY <1>5, <1>8, <2>1
<1>10. ASSUME NEW i \in 1 .. n - 1, own[i].chunk = there PROVE own[i].scopes = own[n - 1].scopes
  <2>1. CASE i = n - 1
    BY <2>1
  <2>2. CASE i # n - 1
    <3>1. i \in DOMAIN own /\ n - 1 \in DOMAIN own /\ i < n - 1
      BY <1>1, <1>3, <2>2
    <3>2. FarAbove(own, i, n - 1)
      BY <3>1 DEF Nested
    <3> QED BY <1>5, <1>10, <3>2 DEF FarAbove
  <2> QED BY <2>1, <2>2
<1>11. n \in Nat /\ n > 1 /\ n - 1 \in DOMAIN own /\ n \in DOMAIN own /\ DOMAIN own = 1 .. n /\ Len(own) = n
  BY <1>1, <1>3
<1>12. Len(locals) - 1 \in DOMAIN locals
  BY <1>6, <1>7
<1> QED BY <1>1, <1>5, <1>6, <1>7, <1>8, <1>9, <1>10, <1>11, <1>12

\* What the function around may get then.
AddsThere(there, scope) ==
  /\ ChunkGrows(chunks[there], chunks'[there])
  /\ \A i \in DOMAIN chunks[there].code : i \in DOMAIN chunks'[there].code /\ chunks'[there].code[i] = chunks[there].code[i]
  /\ \A i \in DOMAIN chunks'[there].code \ DOMAIN chunks[there].code :
       LET inst == chunks'[there].code[i]
       IN /\ inst.op # "ret" /\ ~ IsJump(inst) /\ LiteralFits(there, i)' /\ CaptureFits(there, i)'
          /\ OfSlot(inst) /\ Good(inst) => FiledLocal(scope, inst.for, inst.wide)

ClosesHere(here, scope) ==
  /\ ChunkGrows(chunks[here], chunks'[here])
  /\ IsClosed(chunks[here].code, chunks'[here].code, RoomFor(scope))

OnlyTwoChange(here, there) ==
  /\ chunks' \in Seq(ChunkRecs) /\ DOMAIN chunks' = DOMAIN chunks
  /\ \A c \in DOMAIN chunks : c # here /\ c # there => chunks'[c] = chunks[c]

LEMMA ClosingGrows ==
  ASSUME ScopesTypeOK, NEW here, NEW there, OnlyTwoChange(here, there),
         NEW scope, AddsThere(there, scope), NEW scope2, ClosesHere(here, scope2)
  PROVE  ChunksGrow
<1>1. ASSUME NEW c \in DOMAIN chunks PROVE c \in DOMAIN chunks' /\ ChunkGrows(chunks[c], chunks'[c])
  <2>1. CASE c = here
    BY <2>1 DEF ClosesHere, OnlyTwoChange
  <2>2. CASE c = there
    BY <2>2 DEF AddsThere, OnlyTwoChange
  <2>3. CASE c # here /\ c # there
    <3>1. c \in DOMAIN chunks' /\ chunks'[c] = chunks[c]
      BY <2>3 DEF OnlyTwoChange
    <3> QED BY <3>1 DEF ChunkGrows
  <2> QED BY <2>1, <2>2, <2>3
<1> QED BY <1>1 DEF ChunksGrow

LEMMA ClosingKeepsWides ==
  ASSUME ScopesTypeOK, NEW here, NEW there, OnlyTwoChange(here, there),
         NEW scope, AddsThere(there, scope), NEW scope2, ClosesHere(here, scope2)
  PROVE  WidesStay
<1>1. ASSUME NEW c \in DOMAIN chunks, NEW i \in DOMAIN chunks[c].code, i # 1 PROVE chunks'[c].code[i] = chunks[c].code[i]
  <2>1. CASE c = here
    BY <1>1, <2>1 DEF ClosesHere, IsClosed
  <2>2. CASE c = there
    BY <2>2 DEF AddsThere
  <2>3. CASE c # here /\ c # there
    BY <2>3 DEF OnlyTwoChange
  <2> QED BY <2>1, <2>2, <2>3
<1> QED BY <1>1 DEF WidesStay

LEMMA ClosingKeepsJumps ==
  ASSUME ScopesTypeOK, NEW here \in DOMAIN chunks, NEW there, OnlyTwoChange(here, there),
         NEW scope, AddsThere(there, scope), NEW scope2, ClosesHere(here, scope2), CodeFits(here)
  PROVE  OnlyJumpsOf({})
<1>1. ASSUME NEW c \in DOMAIN chunks', NEW i \in DOMAIN chunks'[c].code, IsJump(chunks'[c].code[i])
      PROVE  c \in DOMAIN chunks /\ i \in DOMAIN chunks[c].code /\ chunks'[c].code[i] = chunks[c].code[i]
  <2>0. c \in DOMAIN chunks
    BY DEF OnlyTwoChange
  <2>1. CASE c = here
    <3>1. i \in DOMAIN chunks[c].code
      <4>1. ASSUME i \notin DOMAIN chunks[c].code PROVE FALSE
        <5>1. chunks'[c].code[i].op \in {"nop", "ret"}
          BY <2>1, <4>1 DEF ClosesHere, IsClosed
        <5> QED BY <1>1, <5>1 DEF IsJump
      <4> QED BY <4>1
    <3>2. i # 1
      <4>1. ASSUME i = 1 PROVE FALSE
        <5>1. chunks'[c].code[i].op = chunks[c].code[i].op
          BY <2>1, <3>1 DEF ClosesHere, IsClosed, SameButTarget
        <5>2. chunks[c].code[i].op = "reserve"
          BY <2>1, <4>1 DEF CodeFits, CodeOf
        <5> QED BY <1>1, <5>1, <5>2 DEF IsJump
      <4> QED BY <4>1
    <3> QED BY <2>0, <2>1, <3>1, <3>2 DEF ClosesHere, IsClosed
  <2>2. CASE c = there
    BY <1>1, <2>0, <2>2 DEF AddsThere
  <2>3. CASE c # here /\ c # there
    <3>1. chunks'[c] = chunks[c]
      BY <2>0, <2>3 DEF OnlyTwoChange
    <3> QED BY <2>0, <3>1
  <2> QED BY <2>1, <2>2, <2>3
<1> QED BY <1>1, NoOtherJumps

LEMMA LastScopeGone ==
  ASSUME ScopesTypeOK, Len(locals) - 1 \in DOMAIN locals, locals' = Front(locals)
  PROVE  /\ locals' \in Seq(ScopeRecs) /\ Len(locals') = Len(locals) - 1
         /\ \A s \in DOMAIN locals \cap DOMAIN locals' : locals'[s] = locals[s]
<1>1. locals \in Seq(ScopeRecs) /\ Len(locals) > 0
  BY DEF ScopesTypeOK
<1>2. /\ locals' \in Seq(ScopeRecs) /\ Len(locals') = Len(locals) - 1 /\ \A s \in 1 .. Len(locals) - 1 : locals'[s] = locals[s]
  BY <1>1, LastItem
<1>3. DOMAIN locals' = 1 .. Len(locals) - 1
  BY <1>2
<1> QED BY <1>2, <1>3

\* The function around is left as open as it was.
LEMMA ThereStaysOpen ==
  ASSUME ScopesTypeOK, ScopesTypeOK', NEW there \in DOMAIN chunks, Unfinished(there),
         NEW scope, AddsThere(there, scope)
  PROVE  Unfinished(there)'
<1>1. PICK old, new : old = chunks[there].code /\ new = chunks'[there].code
  OBVIOUS
<1>2. old # <<>> /\ \A i \in DOMAIN old : old[i].op # "ret"
  BY <1>1 DEF Unfinished, CodeOf
<1>3. \A i \in DOMAIN old : i \in DOMAIN new /\ new[i] = old[i]
  BY <1>1 DEF AddsThere
<1>4. \A i \in DOMAIN new \ DOMAIN old : new[i].op # "ret"
  BY <1>1 DEF AddsThere
<1>5. old \in Seq(AllInsts)
  BY <1>1, ChunkTyped
<1>6. 1 \in DOMAIN old
  BY <1>2, <1>5
<1>7. new # <<>>
  BY <1>3, <1>6
<1> QED BY <1>1, <1>2, <1>3, <1>4, <1>7 DEF Unfinished, CodeOf

LEMMA ThereFits ==
  ASSUME ScopesTypeOK, ScopesTypeOK', ChunksGrow, WidesStay, StringsGrow, NEW there \in DOMAIN chunks, CodeFits(there),
         Unfinished(there), NEW scope \in ScopeRecs, ScopeFits(scope, there), SlotsFiled(scope, there), AddsThere(there, scope)
  PROVE  CodeFits(there)' /\ SlotsFiled(scope, there)'
<1>1. chunks[there].code[1].op = "reserve"
  BY DEF CodeFits, CodeOf
<1>2. SlotsFiled(scope, there)'
  <2>1. ScopeGrows(scope, scope)
    <3>1. scope.next_local_id \in Nat
      BY DEF ScopeRecs
    <3> QED BY <3>1 DEF ScopeGrows
  <2>2. \A i \in DOMAIN chunks'[there].code \ DOMAIN chunks[there].code :
           OfSlot(chunks'[there].code[i]) /\ Good(chunks'[there].code[i]) =>
             FiledLocal(scope, chunks'[there].code[i].for, chunks'[there].code[i].wide)
    BY DEF AddsThere
  <2>3. PICK same : same = scope
    OBVIOUS
  <2> QED BY <1>1, <2>1, <2>2, <2>3, SlotsStayFiled
<1>3. LocalsFit(scope) /\ ParamsFit(scope, chunks'[there].params)
  <2>1. chunks'[there].params = chunks[there].params
    BY DEF ChunksGrow, ChunkGrows
  <2> QED BY <2>1 DEF ScopeFits
<1>4. NamedApart(there)' => SlotsApart(there)'
  BY <1>2, <1>3, FiledApart
<1>5. SlotsReserved(there)'
  <2>1. Unfinished(there)'
    BY ThereStaysOpen
  <2>2. there \in DOMAIN chunks'
    BY DEF ChunksGrow
  <2> QED BY <2>1, <2>2, UnfinishedReserved
<1>6. \A i \in DOMAIN chunks'[there].code \ DOMAIN chunks[there].code : LiteralFits(there, i)' /\ CaptureFits(there, i)'
  BY DEF AddsThere
<1> QED BY <1>2, <1>4, <1>5, <1>6, CodeStaysFit

\* A function is finished.
LEMMA PopStep ==
  ASSUME ScopesIInv, NEW own, Compiling(own), NEW n, n = Len(frames), TopFrame.fn \in FunctionFns, ReturnFrame,
         NEW here, here = chunk_idx, NEW there, there = TopFrame.old_chunk_idx, chunk_idx' = there,
         locals' = Front(locals), strings' = strings, globals' = globals, loops' = loops, saved_info' = saved_info,
         status' = status, OnlyTwoChange(here, there),
         NEW scope \in ScopeRecs, scope = CurrScope, ClosesHere(here, scope),
         NEW around, around = locals[own[n - 1].scopes], AddsThere(there, around)
  PROVE  ScopesIInv'
<1>1. ScopesTypeOK /\ Nested(own) /\ NamesFit(own) /\ LoopJumpsMeet /\ ProgramFits
  BY DEF ScopesIInv, Compiling
<1>2. /\ n \in Nat /\ n > 1 /\ n - 1 \in DOMAIN own /\ n \in DOMAIN own /\ DOMAIN own = 1 .. n /\ Len(own) = n
      /\ own[n].chunk = here /\ own[n - 1].chunk = there /\ there # here
      /\ own[n].scopes = Len(locals) /\ own[n - 1].scopes = Len(locals) - 1 /\ Len(locals) - 1 \in DOMAIN locals
  BY <1>1, AroundFunction
<1>3. /\ here \in DOMAIN chunks /\ there \in DOMAIN chunks /\ TopFrame = frames[n]
      /\ \A i \in 1 .. n - 1 : own[i].chunk # here /\ i \in DOMAIN own
      /\ \A i \in 1 .. n - 1 : own[i].chunk = there => own[i].scopes = own[n - 1].scopes
  BY <1>1, AroundFunction, SMTT(30)
<1>4. /\ locals' \in Seq(ScopeRecs) /\ Len(locals') = Len(locals) - 1
      /\ \A s \in DOMAIN locals \cap DOMAIN locals' : locals'[s] = locals[s]
  BY <1>1, <1>2, LastScopeGone
<1>5. LocalsGrow
  BY <1>1, <1>4, SameScopesGrow
<1>6. ChunksGrow /\ WidesStay
  BY <1>1, ClosingGrows, ClosingKeepsWides
<1>7. StringsGrow
  BY DEF StringsGrow
<1>8. PICK own2, m : own2 = Front(own) /\ m = n - 1
  OBVIOUS
<1>9. TopFrame.fn # "do_source" /\ TopFrame.fn \notin LoopFns
  BY DEF FunctionFns, LoopFns
<1>10. /\ frames' = Front(frames) /\ DOMAIN chunks \subseteq DOMAIN chunks'
       /\ Len(loops') = Len(loops) - (IF TopFrame.fn \in LoopFns THEN 1 ELSE 0)
  <2>1. Len(loops) \in Nat
    BY <1>1 DEF ScopesTypeOK
  <2> QED BY <1>9, <2>1 DEF ReturnFrame, OnlyTwoChange
<1>11. TopFrame.fn \in FunctionFns => chunk_idx' = TopFrame.old_chunk_idx /\ Len(locals') = Len(locals) - 1
  BY <1>4
<1>12. TopFrame.fn \notin FunctionFns => chunk_idx' = chunk_idx /\ Len(locals') = Len(locals)
  OBVIOUS
<1>13. Nested(own2)' /\ frames' \in Seq(AllFrames) /\ m \in DOMAIN own \cap DOMAIN own2 /\ Len(own2) = m
       /\ Continues(own, own2, m) /\ \A i \in 1 .. m : SameLoop(frames[i], frames'[i])
  <2>1. own2 = Front(own) /\ m = n - 1 /\ n = Len(frames) /\ ScopesTypeOK /\ Nested(own) /\ TopFrame.fn # "do_source"
    BY <1>1, <1>8, <1>9
  <2>2. Nested(own2)' /\ frames' \in Seq(AllFrames)
    BY ONLY <1>10, <1>11, <1>12, <2>1, ReturnsCall
  <2>3. m \in DOMAIN own \cap DOMAIN own2 /\ Len(own2) = m
    BY ONLY <1>10, <1>11, <1>12, <2>1, ReturnsCall
  <2>4. Continues(own, own2, m)
    BY ONLY <1>10, <1>11, <1>12, <2>1, ReturnsCall
  <2>5. \A i \in 1 .. m : SameLoop(frames[i], frames'[i])
    BY ONLY <1>10, <1>11, <1>12, <2>1, ReturnsCall
  <2> QED BY <2>2, <2>3, <2>4, <2>5
<1>14. DOMAIN own2 = 1 .. m
  BY <1>13 DEF Nested
<1>15. ScopesTypeOK'
  <2>1. chunks' \in Seq(ChunkRecs) /\ chunk_idx' \in DOMAIN chunks'
    BY <1>3 DEF OnlyTwoChange
  <2> QED BY <1>1, <1>4, <1>13, <2>1 DEF ScopesTypeOK
<1>16. StringsFit'
  BY SameStrings
<1>17. Unfinished(there)'
  <2>1. Unfinished(there)
    BY <1>1, <1>2 DEF NamesFit
  <2> QED BY <1>1, <1>3, <1>15, <2>1, ThereStaysOpen
<1>18. NamesFit(own2)'
  <2>1. ASSUME NEW i \in 1 .. m PROVE chunks'[own[i].chunk].code = chunks[own[i].chunk].code \/ Unfinished(own[i].chunk)'
    <3>1. PICK c : c = own[i].chunk
      OBVIOUS
    <3>2. c # here /\ c \in DOMAIN chunks
      BY <1>1, <1>3, <1>8, <3>1 DEF Nested
    <3>3. CASE c = there
      BY <1>17, <3>1, <3>3
    <3>4. CASE c # there
      BY <3>1, <3>2, <3>4 DEF OnlyTwoChange
    <3> QED BY <3>3, <3>4
  <2>2. \A s \in DOMAIN locals \cap DOMAIN locals' :
          locals'[s] = locals[s] \/ (s = Len(locals) /\ locals'[s] = scope /\ ScopeFits(scope, here)')
    BY <1>4
  <2>3. ScopesTypeOK /\ ScopesTypeOK' /\ ChunksGrow /\ LocalsGrow /\ Nested(own) /\ NamesFit(own) /\ Nested(own2)'
    BY <1>1, <1>5, <1>6, <1>13, <1>15
  <2>4. m \in DOMAIN own \cap DOMAIN own2 /\ Continues(own, own2, m)
    BY <1>13
  <2>5. here = chunk_idx
    OBVIOUS
  <2>6. \A i \in 1 .. m : ScopeFits(locals[own2[i].scopes], own2[i].chunk)' /\ FrameFits(own2, i)' /\ Unfinished(own2[i].chunk)'
    BY ONLY <2>1, <2>2, <2>3, <2>4, <2>5, NamesStay
  <2> QED BY <1>14, <2>6 DEF NamesFit
<1>19. ASSUME ~ StrayJump' PROVE OpenFit(own2)' /\ JumpsFit(own2)' /\ \A d \in DOMAIN chunks' : CodeFits(d)'
  <2>1. OpenFit(own) /\ JumpsFit(own) /\ \A d \in DOMAIN chunks : CodeFits(d)
    <3>1. ~ StrayJump
      BY <1>6, <1>19, StrayStays
    <3> QED BY <1>1, <3>1 DEF Compiling, ProgramFits
  <2>2. scope = locals[own[n].scopes]
    BY <1>1, <1>2, CurrScopeTyped
  <2>3. ScopeFits(scope, here) /\ SlotsFiled(scope, here)
    BY <1>1, <1>2, <2>1, <2>2 DEF NamesFit, OpenFit
  <2>4. CodeFits(here)'
    <3>1. IsClosed(chunks[here].code, chunks'[here].code, RoomFor(scope))
      BY DEF ClosesHere
    <3> QED BY <1>1, <1>3, <1>6, <1>7, <2>1, <2>3, <3>1, ClosedFits
  <2>5. ScopeFits(around, there) /\ SlotsFiled(around, there) /\ Unfinished(there) /\ around \in ScopeRecs
    <3>1. around \in ScopeRecs
      BY <1>1, <1>2 DEF ScopesTypeOK
    <3> QED BY <1>1, <1>2, <2>1, <3>1 DEF NamesFit, OpenFit
  <2>6. CodeFits(there)'
    BY <1>1, <1>3, <1>6, <1>7, <1>15, <2>1, <2>5, ThereFits
  <2>7. ASSUME NEW d \in DOMAIN chunks' PROVE CodeFits(d)'
    <3>1. CASE d # here /\ d # there
      <4>1. d \in DOMAIN chunks /\ chunks'[d] = chunks[d] /\ CodeFits(d)
        BY <2>1, <3>1 DEF OnlyTwoChange
      <4>2. \A i \in DOMAIN chunks'[d].code \ DOMAIN chunks[d].code : LiteralFits(d, i)' /\ CaptureFits(d, i)'
        BY <4>1
      <4> QED BY <1>1, <1>6, <1>7, <4>1, <4>2, CodeStaysFit
    <3> QED BY <2>4, <2>6, <3>1
  <2>8. OpenFit(own2)'
    <3>1. ASSUME NEW i \in 1 .. m, NEW k \in DOMAIN chunks'[own[i].chunk].code \ DOMAIN chunks[own[i].chunk].code,
                 NEW inst, inst = chunks'[own[i].chunk].code[k], OfSlot(inst), Good(inst)
          PROVE  FiledLocal(locals'[own[i].scopes], inst.for, inst.wide)
      <4>1. PICK c : c = own[i].chunk
        OBVIOUS
      <4>2. c # here /\ c \in DOMAIN chunks /\ (c = there => own[i].scopes = own[n - 1].scopes)
        BY <1>1, <1>3, <1>8, <4>1 DEF Nested
      <4>3. c = there
        <5>1. ASSUME c # there PROVE FALSE
          <6>1. chunks'[c] = chunks[c]
            BY <4>2, <5>1 DEF OnlyTwoChange
          <6> QED BY <3>1, <4>1, <6>1
        <5> QED BY <5>1
      <4>4. FiledLocal(around, inst.for, inst.wide)
        BY <3>1, <4>1, <4>3 DEF AddsThere
      <4>5. locals'[own[i].scopes] = around
        <5>1. own[i].scopes = Len(locals) - 1 /\ Len(locals) - 1 \in DOMAIN locals
          BY <1>2, <4>2, <4>3
        <5>2. Len(locals) - 1 \in DOMAIN locals'
          <6>1. locals' \in Seq(ScopeRecs) /\ locals \in Seq(ScopeRecs)
            BY <1>1, <1>4 DEF ScopesTypeOK
          <6>2. DOMAIN locals' = 1 .. Len(locals') /\ DOMAIN locals = 1 .. Len(locals) /\ Len(locals) \in Nat
            BY <6>1
          <6> QED BY <1>4, <5>1, <6>2
        <5> QED BY <1>2, <1>4, <5>1, <5>2
      <4> QED BY <4>4, <4>5
    <3>2. \A i \in 1 .. m : \A k \in DOMAIN chunks'[own[i].chunk].code \ DOMAIN chunks[own[i].chunk].code :
            LET inst == chunks'[own[i].chunk].code[k]
            IN OfSlot(inst) /\ Good(inst) => FiledLocal(locals'[own[i].scopes], inst.for, inst.wide)
      BY <3>1
    <3>3. \A i \in 1 .. m : SlotsFiled(locals[own2[i].scopes], own2[i].chunk)'
      BY <1>1, <1>5, <1>6, <1>13, <1>15, <2>1, <3>2, OpenStays
    <3> QED BY <1>14, <3>3 DEF OpenFit
  <2>9. JumpsFit(own2)'
    <3>1. OnlyJumpsOf({})
      BY <1>1, <1>3, <2>1, ClosingKeepsJumps
    <3>2. \A k \in DOMAIN loops : loops'[k] = loops[k]
      OBVIOUS
    <3>3. \A i \in DOMAIN own2 : i \in 1 .. m \/ frames'[i].fn \notin LoopFns
      BY <1>14
    <3>4. ScopesTypeOK /\ ScopesTypeOK' /\ ChunksGrow /\ ~ StrayJump' /\ LoopJumpsMeet /\ Nested(own) /\ JumpsFit(own)
      BY <1>1, <1>6, <1>15, <1>19, <2>1
    <3>5. Nested(own2)' /\ m \in DOMAIN own \cap DOMAIN own2 /\ Continues(own, own2, m)
          /\ \A i \in 1 .. m : SameLoop(frames[i], frames'[i])
      BY <1>13
    <3> QED BY ONLY <3>1, <3>2, <3>3, <3>4, <3>5, JumpsLeft
  <2> QED BY <2>7, <2>8, <2>9
<1> QED BY <1>13, <1>15, <1>16, <1>18, <1>19, Assembled

\* Only the code of one chunk is replaced.
CodeIs(old, new, c, code) ==
  /\ new \in Seq(ChunkRecs) /\ DOMAIN new = DOMAIN old /\ new[c].code = code
  /\ new[c].params = old[c].params /\ new[c].captures = old[c].captures /\ new[c].constants = old[c].constants
  /\ \A d \in DOMAIN old : d # c => new[d] = old[d]

LEMMA PutCode ==
  ASSUME NEW old \in Seq(ChunkRecs), NEW c \in DOMAIN old, NEW code \in Seq(AllInsts),
         NEW new, new = [old EXCEPT ![c].code = code]
  PROVE  CodeIs(old, new, c, code)
<1>1. PICK chunk : chunk = [old[c] EXCEPT !.code = code]
  OBVIOUS
<1>2. old[c] \in ChunkRecs
  OBVIOUS
<1>3. /\ chunk \in ChunkRecs /\ chunk.code = code /\ chunk.params = old[c].params /\ chunk.captures = old[c].captures
      /\ chunk.constants = old[c].constants
  BY <1>1, <1>2 DEF ChunkRecs
<1>4. new = [old EXCEPT ![c] = chunk]
  BY <1>1
<1>5. new \in Seq(ChunkRecs) /\ DOMAIN new = DOMAIN old /\ new[c] = chunk /\ \A d \in DOMAIN old : d # c => new[d] = old[d]
  BY <1>3, <1>4, OneChunkPut
<1> QED BY <1>3, <1>5 DEF CodeIs

LEMMA GrowsClosed ==
  ASSUME NEW here, NEW scope, IsClosed(chunks[here].code, chunks'[here].code, RoomFor(scope)),
         chunks'[here].params = chunks[here].params, chunks'[here].captures = chunks[here].captures,
         chunks'[here].constants = chunks[here].constants
  PROVE  ClosesHere(here, scope)
BY DEF ClosesHere, ChunkGrows, IsClosed, SameButTarget

\* The code of the function on top when it ends.
LEMMA FinalCode ==
  ASSUME ScopesIInv, NEW own, Compiling(own), NEW here, here = chunk_idx, NEW scope, scope = CurrScope,
         NEW final, final = Closed(BodyCode, CurrScope)
  PROVE  /\ scope \in ScopeRecs /\ final \in Seq(AllInsts) /\ IsClosed(chunks[here].code, final, RoomFor(scope))
         /\ here \in DOMAIN chunks /\ chunks \in Seq(ChunkRecs)
<1>1. ScopesTypeOK /\ Nested(own)
  BY DEF ScopesIInv, Compiling
<1>2. PICK code : code = chunks[here].code
  OBVIOUS
<1>3. here \in DOMAIN chunks /\ code \in Seq(AllInsts) /\ Code = code /\ Len(code) \in Nat \ {0}
      /\ \A i \in DOMAIN code : code[i].op # "ret"
  BY <1>2, CurrentCode
<1>4. PICK body : body = BodyCode
  OBVIOUS
<1>5. LongerBy(code, body, {"nop"}) /\ \A i \in DOMAIN body : body[i].op # "ret"
  BY <1>3, <1>4, BodyIsLonger
<1>6. scope \in ScopeRecs
  BY <1>1, CurrScopeTyped
<1>7. code # <<>>
  BY <1>3
<1>8. final = Closed(body, scope)
  BY <1>4
<1>9. IsClosed(code, final, RoomFor(scope))
  BY <1>3, <1>5, <1>6, <1>7, <1>8, FunctionClosed
<1>10. chunks \in Seq(ChunkRecs)
  BY <1>1 DEF ScopesTypeOK
<1> QED BY <1>2, <1>3, <1>6, <1>9, <1>10 DEF IsClosed

LEMMA FuncEndStep ==
  ASSUME ScopesIInv, end_func
  PROVE  ScopesIInv'
<1>1. status = "parsing" /\ TopFrame.fn = "do_func" /\ ScopesTypeOK
  BY DEF end_func, AtEnd, AtStatement, At, ScopesIInv
<1>2. PICK own \in Seq(Owners) : Compiling(own) /\ Nested(own)
  BY <1>1, Parsing
<1>3. PICK n, here, there, scope, final :
        /\ n = Len(frames) /\ here = chunk_idx /\ there = TopFrame.old_chunk_idx /\ scope = CurrScope
        /\ final = Closed(BodyCode, CurrScope)
  OBVIOUS
<1>4. TopFrame.fn \in FunctionFns
  BY <1>1 DEF FunctionFns
<1>5. there # here /\ there \in DOMAIN chunks
  BY <1>1, <1>2, <1>3, <1>4, AroundFunction
<1>6. /\ scope \in ScopeRecs /\ final \in Seq(AllInsts) /\ IsClosed(chunks[here].code, final, RoomFor(scope))
      /\ here \in DOMAIN chunks /\ chunks \in Seq(ChunkRecs)
  BY <1>2, <1>3, FinalCode
<1>7. /\ chunks' = [chunks EXCEPT ![here].code = final] /\ chunk_idx' = there /\ locals' = Front(locals) /\ ReturnFrame
      /\ strings' = strings /\ globals' = globals /\ loops' = loops /\ saved_info' = saved_info /\ status' = status
  BY <1>3 DEF end_func
<1>8. /\ chunks' \in Seq(ChunkRecs) /\ DOMAIN chunks' = DOMAIN chunks /\ chunks'[here].code = final
      /\ chunks'[here].params = chunks[here].params /\ chunks'[here].captures = chunks[here].captures
      /\ chunks'[here].constants = chunks[here].constants
      /\ \A d \in DOMAIN chunks : d # here => chunks'[d] = chunks[d]
  <2>1. PICK old, new : old = chunks /\ new = chunks'
    OBVIOUS
  <2>2. old \in Seq(ChunkRecs) /\ here \in DOMAIN old /\ final \in Seq(AllInsts) /\ new = [old EXCEPT ![here].code = final]
    BY <1>6, <1>7, <2>1
  <2>3. CodeIs(old, new, here, final)
    BY ONLY <2>2, PutCode
  <2> QED BY <2>1, <2>3 DEF CodeIs
<1>9. ClosesHere(here, scope)
  BY <1>6, <1>8, GrowsClosed
<1>10. OnlyTwoChange(here, there)
  BY <1>8 DEF OnlyTwoChange
<1>11. PICK around : around = locals[own[n - 1].scopes]
  OBVIOUS
<1>12. AddsThere(there, around)
  <2>1. chunks'[there] = chunks[there]
    BY <1>5, <1>8
  <2> QED BY <2>1 DEF AddsThere, ChunkGrows
<1> QED BY <1>2, <1>3, <1>4, <1>6, <1>7, <1>9, <1>10, <1>11, <1>12, PopStep

(***************************************************************************)
(* The closure of a lambda.                                                *)
(***************************************************************************)
\* The instruction at k of those that make it.
ClosurePart(insts, k, here, used, captures) ==
  \/ k = 1 /\ insts[k].op = "load_imm_gid" /\ insts[k].wide = here
  \/ /\ k \in 2 .. Len(used) + 1 /\ insts[k].op = "load_local" /\ insts[k].wide = used[k - 1]
     /\ insts[k].for = captures[k - 1]
  \/ k = Len(used) + 2 /\ insts[k].op = "mk_closure" /\ insts[k].wide = Len(used)

ClosureCode(insts, here, used, captures) ==
  /\ insts \in Seq(AllInsts)
  /\ \A k \in DOMAIN insts : ClosurePart(insts, k, here, used, captures)

OneMoreInst(all, first, rest, l) ==
  /\ all \in Seq(AllInsts) /\ DOMAIN all = 1 .. l + 1 /\ all[1] = first[1]
  /\ \A k \in 1 .. l + 1 : k = 1 \/ all[k] = rest[k - 1]

LEMMA OneThen ==
  ASSUME NEW first \in Seq(AllInsts), Len(first) = 1, NEW rest \in Seq(AllInsts), NEW l \in Nat, l = Len(rest),
         NEW all, all = first \o rest
  PROVE  OneMoreInst(all, first, rest, l)
<1>1. all \in Seq(AllInsts) /\ Len(all) = 1 + l
  BY ONLY first \in Seq(AllInsts), Len(first) = 1, rest \in Seq(AllInsts), l = Len(rest), all = first \o rest, ConcatProperties, ZenonT(30)
<1>2. \A k \in 1 .. 1 + l : all[k] = IF k <= 1 THEN first[k] ELSE rest[k - 1]
  <2>1. \A i \in 1 .. Len(first) + Len(rest) : (first \o rest)[i] = IF i <= Len(first) THEN first[i] ELSE rest[i - Len(first)]
    BY ConcatProperties
  <2> QED BY <2>1
<1>3. DOMAIN all = 1 .. l + 1
  BY <1>1
<1>4. all[1] = first[1]
  BY <1>2
<1>5. ASSUME NEW k \in 1 .. l + 1, k # 1 PROVE all[k] = rest[k - 1]
  <2>1. k \in 1 .. 1 + l /\ ~ (k <= 1)
    BY <1>5
  <2>2. all[k] = IF k <= 1 THEN first[k] ELSE rest[k - 1]
    BY <1>2, <2>1
  <2> QED BY <2>1, <2>2
<1> QED BY <1>1, <1>3, <1>4, <1>5 DEF OneMoreInst

LEMMA ClosureMade ==
  ASSUME NEW here \in Nat, NEW used \in Seq(Nat), NEW captures \in Seq(Names), Len(captures) = Len(used),
         NEW insts, insts = <<Plain("load_imm_gid", 0, here)>> \o
                            (IF used = <<>> THEN <<>>
                             ELSE Append(Capture(used, captures), Plain("mk_closure", 0, Len(used))))
  PROVE  ClosureCode(insts, here, used, captures)
<1>1. PICK gid, mk : gid = Plain("load_imm_gid", 0, here) /\ mk = Plain("mk_closure", 0, Len(used))
  OBVIOUS
<1>2. PICK l \in Nat : l = Len(used) /\ DOMAIN used = 1 .. l /\ DOMAIN captures = 1 .. l
  OBVIOUS
<1>3. gid \in AllInsts /\ gid.op = "load_imm_gid" /\ gid.wide = here
  <2>1. gid = [op |-> "load_imm_gid", flag |-> 0, wide |-> here, for |-> "none", info |-> "good"]
    BY <1>1 DEF Plain, Inst
  <2> QED BY <2>1 DEF AllInsts, Insts
<1>4. mk \in AllInsts /\ mk.op = "mk_closure" /\ mk.wide = l
  <2>1. mk = [op |-> "mk_closure", flag |-> 0, wide |-> l, for |-> "none", info |-> "good"]
    BY <1>1, <1>2 DEF Plain, Inst
  <2> QED BY <2>1 DEF AllInsts, Insts
<1>5. PICK loads : loads = Capture(used, captures)
  OBVIOUS
<1>6. ASSUME NEW k \in 1 .. l
      PROVE  loads[k] \in AllInsts /\ loads[k].op = "load_local" /\ loads[k].wide = used[k] /\ loads[k].for = captures[k]
  <2>1. loads[k] = [op |-> "load_local", flag |-> 0, wide |-> used[k], for |-> captures[k], info |-> "good"]
    BY <1>2, <1>5 DEF Capture, Inst
  <2>2. PICK wide, name, inst : /\ wide = used[k] /\ name = captures[k] /\ inst = loads[k]
    OBVIOUS
  <2>3. wide \in Int /\ name \in Names
    BY <1>2, <2>2
  <2>4. inst = [op |-> "load_local", flag |-> 0, wide |-> wide, for |-> name, info |-> "good"]
    BY <2>1, <2>2
  <2>5. inst \in AllInsts
    <3>1. "load_local" \in NameOps /\ 0 \in Int /\ "good" \in {"good", "moved", "overwritten"}
      BY DEF NameOps
    <3> QED BY <2>3, <2>4, <3>1, InstTyped
  <2> QED BY <2>2, <2>4, <2>5
<1>7. loads \in Seq(AllInsts) /\ Len(loads) = l /\ DOMAIN loads = 1 .. l
  <2>1. DOMAIN loads = 1 .. l
    BY <1>2, <1>5 DEF Capture
  <2>2. loads \in [1 .. l -> AllInsts]
    BY <1>2, <1>5, <1>6, <2>1 DEF Capture
  <2> QED BY <2>1, <2>2
<1>8. CASE used = <<>>
  <2>0. PICK none : none = <<>>
    OBVIOUS
  <2>1. none \in Seq(AllInsts) /\ Len(none) = 0
    BY <2>0
  <2>2. PICK first : first = <<gid>>
    OBVIOUS
  <2>3. first \in Seq(AllInsts) /\ Len(first) = 1 /\ first[1] = gid
    BY <1>3, <2>2
  <2>4. insts = first \o none
    BY <1>1, <1>8, <2>0, <2>2
  <2>5. insts \in Seq(AllInsts) /\ DOMAIN insts = {1} /\ insts[1] = gid
    <3>1. PICK l0 \in Nat : l0 = Len(none) /\ l0 = 0
      BY <2>1
    <3>2. insts \in Seq(AllInsts) /\ DOMAIN insts = 1 .. l0 + 1 /\ insts[1] = first[1]
      <4>1. l0 = Len(none) /\ none \in Seq(AllInsts) /\ first \in Seq(AllInsts) /\ Len(first) = 1 /\ insts = first \o none
        BY <2>1, <2>3, <2>4, <3>1
      <4>2. OneMoreInst(insts, first, none, l0)
        BY ONLY <4>1, l0 \in Nat, OneThen
      <4> QED BY <4>2 DEF OneMoreInst
    <3> QED BY <2>3, <3>1, <3>2
  <2> QED BY <1>3, <2>5 DEF ClosureCode, ClosurePart
<1>9. CASE used # <<>>
  <2>1. PICK making : making = Append(loads, mk)
    OBVIOUS
  <2>2. /\ making \in Seq(AllInsts) /\ Len(making) = l + 1 /\ making[l + 1] = mk
        /\ \A k \in 1 .. l : making[k] = loads[k]
    BY <1>4, <1>7, <2>1
  <2>3. insts = <<gid>> \o making
    BY <1>1, <1>5, <1>9, <2>1
  <2>4. PICK first : first = <<gid>>
    OBVIOUS
  <2>5. first \in Seq(AllInsts) /\ Len(first) = 1 /\ first[1] = gid
    BY <1>3, <2>4
  <2>6. insts = first \o making
    BY <2>3, <2>4
  <2>7. insts \in Seq(AllInsts) /\ DOMAIN insts = 1 .. l + 2 /\ insts[1] = gid /\ \A k \in 2 .. l + 2 : insts[k] = making[k - 1]
    <3>1. PICK l1 \in Nat : l1 = Len(making) /\ l1 = l + 1
      BY <1>2, <2>2
    <3>2. /\ insts \in Seq(AllInsts) /\ DOMAIN insts = 1 .. l1 + 1 /\ insts[1] = first[1]
          /\ \A k \in 1 .. l1 + 1 : k = 1 \/ insts[k] = making[k - 1]
      <4>1. l1 = Len(making) /\ making \in Seq(AllInsts) /\ first \in Seq(AllInsts) /\ Len(first) = 1 /\ insts = first \o making
        BY <2>2, <2>5, <2>6, <3>1
      <4>2. OneMoreInst(insts, first, making, l1)
        BY ONLY <4>1, l1 \in Nat, OneThen
      <4> QED BY <4>2 DEF OneMoreInst
    <3>3. l1 + 1 = l + 2
      BY <3>1
    <3>4. \A k \in 2 .. l + 2 : k \in 1 .. l + 2 /\ k # 1
      OBVIOUS
    <3> QED BY <2>5, <3>2, <3>3, <3>4
  <2>8. ASSUME NEW k \in DOMAIN insts PROVE ClosurePart(insts, k, here, used, captures)
    <3>1. k \in 1 .. l + 2
      BY <2>7
    <3>2. CASE k = 1
      BY <1>3, <2>7, <3>2 DEF ClosurePart
    <3>3. CASE k = l + 2
      <4>1. insts[k] = making[k - 1] /\ k - 1 = l + 1
        BY <1>2, <2>7, <3>3
      <4>2. insts[k] = mk
        BY <2>2, <4>1
      <4> QED BY <1>2, <1>4, <3>3, <4>2 DEF ClosurePart
    <3>4. CASE k # 1 /\ k # l + 2
      <4>1. k \in 2 .. l + 1 /\ k - 1 \in 1 .. l /\ k \in 2 .. l + 2
        BY <1>2, <3>1, <3>4
      <4>2. PICK q \in 1 .. l : q = k - 1
        BY <4>1
      <4>3. insts[k] = loads[q]
        BY <2>2, <2>7, <4>1, <4>2
      <4>4. insts[k].op = "load_local" /\ insts[k].wide = used[q] /\ insts[k].for = captures[q]
        BY <1>6, <4>3
      <4> QED BY <1>2, <4>1, <4>2, <4>4 DEF ClosurePart
    <3> QED BY <3>2, <3>3, <3>4
  <2> QED BY <2>7, <2>8 DEF ClosureCode
<1> QED BY <1>8, <1>9

AllFiled(scope, captures, used) == \A k \in DOMAIN captures : FiledLocal(scope, captures[k], used[k])

\* The captures of a closure are those of its lambda.
LEMMA ClosureFits ==
  ASSUME NEW here \in DOMAIN chunks', NEW there, NEW used \in Seq(Nat), NEW captures \in Seq(Names), Len(captures) = Len(used),
         chunks'[here].captures = captures, NEW l \in Nat, NEW insts, ClosureCode(insts, here, used, captures),
         NEW code, code = chunks'[there].code, \A k \in DOMAIN insts : l + k \in DOMAIN code /\ code[l + k] = insts[k],
         NEW k \in DOMAIN insts, NEW i, i = l + k, code[i].op = "mk_closure"
  PROVE  CaptureFits(there, i)'
<1>1. PICK w \in Nat : w = Len(used) /\ DOMAIN used = 1 .. w /\ DOMAIN captures = 1 .. w
  OBVIOUS
<1>2. insts \in Seq(AllInsts) /\ \A q \in DOMAIN insts : ClosurePart(insts, q, here, used, captures)
  BY DEF ClosureCode
<1>3. code[i] = insts[k]
  OBVIOUS
<1>4. k = w + 2 /\ insts[k].wide = w
  BY <1>1, <1>2, <1>3 DEF ClosurePart
<1>5. \A q \in 1 .. w + 2 : q \in DOMAIN insts
  BY <1>2, <1>4
<1>6. 1 \in DOMAIN insts /\ insts[1].op = "load_imm_gid" /\ insts[1].wide = here
  <2>1. 1 \in 1 .. w + 2
    BY <1>1
  <2>2. 1 \in DOMAIN insts
    BY <1>5, <2>1
  <2>3. ClosurePart(insts, 1, here, used, captures)
    BY <1>2, <2>2
  <2>4. 1 \notin 2 .. w + 1 /\ 1 # w + 2
    BY <1>1
  <2> QED BY <1>1, <2>2, <2>3, <2>4 DEF ClosurePart
<1>7. ASSUME NEW q \in 1 .. w PROVE insts[q + 1].for = captures[q] /\ q + 1 \in DOMAIN insts
  <2>1. q + 1 \in 1 .. w + 2 /\ q + 1 # 1 /\ q + 1 # w + 2 /\ q + 1 - 1 = q
    BY <1>1
  <2>2. q + 1 \in DOMAIN insts
    BY <1>5, <2>1
  <2>3. ClosurePart(insts, q + 1, here, used, captures)
    BY <1>2, <2>2
  <2> QED BY <1>1, <2>1, <2>2, <2>3 DEF ClosurePart
<1>8. i - w - 1 = l + 1
  BY <1>1, <1>4
<1>9. l + 1 \in DOMAIN code /\ code[l + 1] = insts[1]
  BY <1>6
<1>10. ASSUME NEW q \in 1 .. w PROVE code[i - w + q - 1].for = captures[q]
  <2>1. i - w + q - 1 = l + (q + 1)
    BY <1>1, <1>4
  <2>2. code[l + (q + 1)] = insts[q + 1]
    BY <1>7
  <2> QED BY <1>7, <2>1, <2>2
<1>11. [q \in 1 .. w |-> code[i - w + q - 1].for] = captures
  <2>1. captures = [q \in 1 .. w |-> captures[q]]
    BY <1>1
  <2> QED BY <1>10, <2>1
<1>12. code[i].wide = w /\ ~ OfUpval(code[i])
  BY <1>3, <1>4 DEF OfUpval
<1>13. code[i - w - 1].op = "load_imm_gid" /\ code[i - w - 1].wide = here /\ i - w - 1 \in DOMAIN code
  BY <1>6, <1>8, <1>9
<1> QED BY <1>11, <1>12, <1>13 DEF CaptureFits, CodeOf

LEMMA ClosureAdded ==
  ASSUME NEW here \in DOMAIN chunks', NEW there, NEW used \in Seq(Nat), NEW captures \in Seq(Names), Len(captures) = Len(used),
         chunks'[here].captures = captures, NEW insts, ClosureCode(insts, here, used, captures),
         NEW old \in Seq(AllInsts), old = chunks[there].code, chunks'[there].code = old \o insts,
         chunks'[there].params = chunks[there].params, chunks'[there].captures = chunks[there].captures,
         chunks'[there].constants = chunks[there].constants, NEW around, AllFiled(around, captures, used)
  PROVE  AddsThere(there, around)
<1>1. PICK code, l : code = chunks'[there].code /\ l = Len(old)
  OBVIOUS
<1>2. insts \in Seq(AllInsts) /\ l \in Nat /\ code = old \o insts /\ DOMAIN old = 1 .. l
  BY <1>1 DEF ClosureCode
<1>3. DOMAIN insts = 1 .. Len(insts) /\ Len(insts) \in Nat
  BY <1>2
<1>4. /\ code \in Seq(AllInsts) /\ Len(code) = l + Len(insts)
      /\ \A i \in 1 .. l + Len(insts) : code[i] = IF i <= l THEN old[i] ELSE insts[i - l]
  BY <1>1, <1>2, ConcatProperties
<1>5. DOMAIN code = 1 .. l + Len(insts)
  BY <1>4
<1>6. \A i \in DOMAIN old : i \in DOMAIN code /\ code[i] = old[i]
  BY <1>2, <1>3, <1>4, <1>5
<1>7. \A k \in DOMAIN insts : l + k \in DOMAIN code /\ code[l + k] = insts[k]
  BY <1>2, <1>3, <1>4, <1>5, SMTT(30)
<1>8. ASSUME NEW i \in DOMAIN code \ DOMAIN old
      PROVE  /\ code[i].op # "ret" /\ ~ IsJump(code[i]) /\ LiteralFits(there, i)' /\ CaptureFits(there, i)'
             /\ OfSlot(code[i]) => FiledLocal(around, code[i].for, code[i].wide)
  <2>1. PICK k \in DOMAIN insts : k = i - l
    BY <1>2, <1>3, <1>5
  <2>2. i = l + k /\ code[i] = insts[k]
    <3>1. i = l + k
      BY <1>2, <1>3, <1>5, <2>1
    <3>2. code[l + k] = insts[k]
      BY <1>7
    <3> QED BY <3>1, <3>2
  <2>3. ClosurePart(insts, k, here, used, captures)
    BY DEF ClosureCode
  <2>4. insts[k].op \in {"load_imm_gid", "load_local", "mk_closure"}
    BY <2>3 DEF ClosurePart
  <2>5. code[i].op # "ret" /\ ~ IsJump(code[i]) /\ ~ OfUpval(code[i])
    BY <2>2, <2>4 DEF IsJump, OfUpval
  <2>6. LiteralFits(there, i)'
    BY <1>1, <2>2, <2>4 DEF LiteralFits, CodeOf
  <2>7. CaptureFits(there, i)'
    <3>1. CASE code[i].op = "mk_closure"
      <4>1. l \in Nat /\ code = chunks'[there].code /\ i = l + k /\ code[i].op = "mk_closure"
        BY <1>1, <1>2, <2>2, <3>1
      <4>2. /\ here \in DOMAIN chunks' /\ used \in Seq(Nat) /\ captures \in Seq(Names) /\ Len(captures) = Len(used)
            /\ chunks'[here].captures = captures /\ ClosureCode(insts, here, used, captures) /\ k \in DOMAIN insts
        OBVIOUS
      <4> QED BY ONLY <1>7, <4>1, <4>2, ClosureFits
    <3>2. CASE code[i].op # "mk_closure"
      BY <1>1, <2>5, <3>2 DEF CaptureFits, CodeOf
    <3> QED BY <3>1, <3>2
  <2>8. ASSUME OfSlot(code[i]) PROVE FiledLocal(around, code[i].for, code[i].wide)
    <3>1. insts[k].op = "load_local"
      BY <2>2, <2>4, <2>8 DEF OfSlot
    <3>2. PICK q : q = k - 1
      OBVIOUS
    <3>3. k \in 2 .. Len(used) + 1 /\ insts[k].wide = used[q] /\ insts[k].for = captures[q]
      BY <2>3, <3>1, <3>2 DEF ClosurePart
    <3>4. q \in DOMAIN captures
      BY <3>2, <3>3
    <3> QED BY <2>2, <3>3, <3>4 DEF AllFiled
  <2> QED BY <2>5, <2>6, <2>7, <2>8
<1>9. ChunkGrows(chunks[there], chunks'[there])
  BY <1>1, <1>6 DEF ChunkGrows
<1> QED BY <1>1, <1>6, <1>8, <1>9 DEF AddsThere

\* Both chunks that the end of a lambda changes.
BothChange(here, final, there, insts) ==
  /\ chunks' \in Seq(ChunkRecs) /\ DOMAIN chunks' = DOMAIN chunks
  /\ \A d \in DOMAIN chunks : d # here /\ d # there => chunks'[d] = chunks[d]
  /\ chunks'[here].code = final /\ chunks'[there].code = chunks[there].code \o insts
  /\ \A d \in {here, there} : /\ chunks'[d].params = chunks[d].params /\ chunks'[d].captures = chunks[d].captures
                              /\ chunks'[d].constants = chunks[d].constants

LEMMA TwoPut ==
  ASSUME chunks \in Seq(ChunkRecs), NEW here \in DOMAIN chunks, NEW there \in DOMAIN chunks, there # here,
         NEW final \in Seq(AllInsts), NEW first \in Seq(AllInsts), NEW rest \in Seq(AllInsts),
         NEW half, half = [chunks EXCEPT ![here].code = final],
         chunks' = [half EXCEPT ![there].code = chunks[there].code \o first \o rest],
         NEW insts, insts = first \o rest
  PROVE  BothChange(here, final, there, insts)
<1>1. PICK old, new : old = chunks /\ new = chunks'
  OBVIOUS
<1>2. old \in Seq(ChunkRecs) /\ here \in DOMAIN old /\ half = [old EXCEPT ![here].code = final] /\ final \in Seq(AllInsts)
  BY <1>1
<1>3. /\ half \in Seq(ChunkRecs) /\ DOMAIN half = DOMAIN old /\ half[here].code = final
      /\ half[here].params = old[here].params /\ half[here].captures = old[here].captures
      /\ half[here].constants = old[here].constants
  <2>1. CodeIs(old, half, here, final)
    BY ONLY <1>2, PutCode
  <2> QED BY <2>1 DEF CodeIs
<1>4. \A d \in DOMAIN old : d # here => half[d] = old[d]
  <2>1. CodeIs(old, half, here, final)
    BY ONLY <1>2, PutCode
  <2> QED BY <2>1 DEF CodeIs
<1>5. half[there] = old[there] /\ there \in DOMAIN half
  BY <1>1, <1>3, <1>4
<1>6. PICK code : code = old[there].code
  OBVIOUS
<1>7. code \in Seq(AllInsts)
  <2>1. old[there] \in ChunkRecs
    BY <1>1, <1>2
  <2> QED BY <1>6, <2>1 DEF ChunkRecs
<1>8. PICK whole : whole = code \o insts
  OBVIOUS
<1>9. insts \in Seq(AllInsts) /\ whole \in Seq(AllInsts)
  BY <1>7, <1>8
<1>10. code \o first \o rest = whole
  <2>1. (code \o first) \o rest = code \o (first \o rest)
    BY ONLY code \in Seq(AllInsts), first \in Seq(AllInsts), rest \in Seq(AllInsts), ConcatAssociative, SMTT(30)
  <2> QED BY <1>8, <2>1
<1>11. new = [half EXCEPT ![there].code = whole]
  <2>1. chunks[there].code \o first \o rest = whole
    BY <1>1, <1>6, <1>10
  <2> QED BY <1>1, <2>1
<1>12. /\ half \in Seq(ChunkRecs) /\ there \in DOMAIN half /\ whole \in Seq(AllInsts)
       /\ new = [half EXCEPT ![there].code = whole]
  BY <1>3, <1>5, <1>9, <1>11
<1>13. /\ new \in Seq(ChunkRecs) /\ DOMAIN new = DOMAIN half /\ new[there].code = whole
       /\ new[there].params = half[there].params /\ new[there].captures = half[there].captures
       /\ new[there].constants = half[there].constants
  <2>1. CodeIs(half, new, there, whole)
    BY ONLY <1>12, PutCode
  <2> QED BY <2>1 DEF CodeIs
<1>14. \A d \in DOMAIN half : d # there => new[d] = half[d]
  <2>1. CodeIs(half, new, there, whole)
    BY ONLY <1>12, PutCode
  <2> QED BY <2>1 DEF CodeIs
<1>15. new[here] = half[here]
  BY <1>1, <1>3, <1>14
<1>16. \A d \in DOMAIN old : d # here /\ d # there => new[d] = old[d]
  BY <1>3, <1>4, <1>14
<1>17. ASSUME NEW d \in {here, there}
       PROVE  new[d].params = old[d].params /\ new[d].captures = old[d].captures /\ new[d].constants = old[d].constants
  BY <1>3, <1>5, <1>13, <1>15
<1> QED BY <1>1, <1>3, <1>6, <1>8, <1>13, <1>15, <1>16, <1>17 DEF BothChange

LEMMA ClosureParts ==
  ASSUME NEW here \in Nat, NEW used \in Seq(Nat), NEW captures \in Seq(Names), Len(used) = Len(captures),
         NEW first, first = <<Plain("load_imm_gid", 0, here)>>,
         NEW rest, rest = IF used = <<>> THEN <<>> ELSE Append(Capture(used, captures), Plain("mk_closure", 0, Len(used)))
  PROVE  first \in Seq(AllInsts) /\ rest \in Seq(AllInsts)
<1>1. Plain("load_imm_gid", 0, here) \in AllInsts /\ Plain("mk_closure", 0, Len(used)) \in AllInsts
  <2>1. PICK w \in Nat : w = Len(used)
    OBVIOUS
  <2>2. Plain("load_imm_gid", 0, here) \in AllInsts
    BY DEF Plain, Inst, AllInsts, Insts
  <2>3. Plain("mk_closure", 0, w) \in AllInsts
    BY DEF Plain, Inst, AllInsts, Insts
  <2> QED BY <2>1, <2>2, <2>3
<1>2. PICK loads : loads = Capture(used, captures)
  OBVIOUS
<1>3. ASSUME NEW k \in DOMAIN used PROVE loads[k] \in AllInsts
  <2>1. PICK wide, name, inst : wide = used[k] /\ name = captures[k] /\ inst = loads[k]
    OBVIOUS
  <2>2. wide \in Int /\ name \in Names
    BY <2>1
  <2>3. inst = [op |-> "load_local", flag |-> 0, wide |-> wide, for |-> name, info |-> "good"]
    BY <1>2, <2>1 DEF Capture, Inst
  <2>4. "load_local" \in NameOps /\ 0 \in Int /\ "good" \in {"good", "moved", "overwritten"}
    BY DEF NameOps
  <2> QED BY <2>1, <2>2, <2>3, <2>4, InstTyped
<1>4. loads \in [1 .. Len(used) -> AllInsts]
  BY <1>2, <1>3 DEF Capture
<1>5. loads \in Seq(AllInsts)
  <2>1. PICK w \in Nat : w = Len(used)
    OBVIOUS
  <2>2. loads \in [1 .. w -> AllInsts]
    BY <1>4, <2>1
  <2> QED BY <2>2
<1>6. first \in Seq(AllInsts)
  BY <1>1
<1>7. rest \in Seq(AllInsts)
  <2>1. PICK mk \in AllInsts : mk = Plain("mk_closure", 0, Len(used))
    BY <1>1
  <2>2. Append(loads, mk) \in Seq(AllInsts)
    BY <1>5
  <2>3. CASE used = <<>>
    BY <2>3
  <2>4. CASE used # <<>>
    BY <1>2, <2>1, <2>2, <2>4
  <2> QED BY <2>3, <2>4
<1> QED BY <1>6, <1>7

LEMMA LambdaEndStep ==
  ASSUME ScopesIInv, end_lambda
  PROVE  ScopesIInv'
<1>1. status = "parsing" /\ TopFrame.fn = "do_lambda" /\ ScopesTypeOK
  BY DEF end_lambda, AtEnd, AtStatement, At, ScopesIInv
<1>2. PICK own \in Seq(Owners) : Compiling(own) /\ Nested(own) /\ NamesFit(own)
  BY <1>1, Parsing
<1>3. PICK n, here, there, scope, final :
        /\ n = Len(frames) /\ here = chunk_idx /\ there = TopFrame.old_chunk_idx /\ scope = CurrScope
        /\ final = Closed(BodyCode, CurrScope)
  OBVIOUS
<1>4. PICK used, captures, around :
        /\ used = TopFrame.used_local_ids /\ captures = chunks[here].captures /\ around = locals[own[n - 1].scopes]
  OBVIOUS
<1>5. TopFrame.fn \in FunctionFns
  BY <1>1 DEF FunctionFns
<1>6. /\ there # here /\ there \in DOMAIN chunks /\ here \in DOMAIN chunks /\ TopFrame = frames[n] /\ own[n].chunk = here
      /\ n \in DOMAIN own
  BY <1>1, <1>2, <1>3, <1>5, AroundFunction
<1>7. scope \in ScopeRecs /\ final \in Seq(AllInsts) /\ IsClosed(chunks[here].code, final, RoomFor(scope)) /\ chunks \in Seq(ChunkRecs)
  BY <1>2, <1>3, FinalCode
<1>8. PICK first, rest :
        /\ first = <<Plain("load_imm_gid", 0, here)>>
        /\ rest = IF used = <<>> THEN <<>> ELSE Append(Capture(used, captures), Plain("mk_closure", 0, Len(used)))
  OBVIOUS
<1>9. PICK half, insts : half = [chunks EXCEPT ![here].code = final] /\ insts = first \o rest
  OBVIOUS
<1>10. chunk_idx' = there /\ locals' = Front(locals) /\ ReturnFrame /\ strings' = strings /\ globals' = globals
       /\ loops' = loops /\ saved_info' = saved_info /\ status' = status
  BY <1>3 DEF end_lambda
<1>21. chunks' = [half EXCEPT ![there].code = chunks[there].code \o first \o rest]
  <2>1. chunks' = [chunks EXCEPT ![chunk_idx].code = Closed(BodyCode, CurrScope),
                                 ![TopFrame.old_chunk_idx].code = @ \o <<Plain("load_imm_gid", 0, chunk_idx)>> \o rest]
    BY <1>3, <1>4, <1>8 DEF end_lambda
  <2>2. chunks' = [chunks EXCEPT ![here].code = final, ![there].code = chunks[there].code \o first \o rest]
    BY <1>3, <1>8, <2>1
  <2> QED BY <1>9, <2>2
<1>11. FrameFits(own, n)
  BY <1>2, <1>6 DEF NamesFit
<1>12. Len(used) = Len(captures) /\ AllFiled(around, captures, used)
  BY <1>1, <1>4, <1>6, <1>11 DEF FrameFits, AllFiled
<1>13. captures \in Seq(Names) /\ here \in Nat
  <2>1. chunks[here] \in ChunkRecs
    BY <1>6, <1>7
  <2>2. here \in Nat
    BY <1>6, <1>7
  <2> QED BY <1>4, <2>1, <2>2 DEF ChunkRecs
<1>14. used \in Seq(Nat)
  <2>1. TopFrame \in AllFrames
    BY <1>1, <1>2, <1>3, FramesFacts
  <2>2. TopFrame \in LambdaFrames
    BY <1>1, <2>1 DEF AllFrames, PlainFrames, FuncFrames, LambdaFrames, VarsFrames, ExprFrames, WhileFrames, ForFrames
  <2> QED BY <1>4, <2>2 DEF LambdaFrames
<1>15. ClosureCode(insts, here, used, captures)
  <2>1. insts = <<Plain("load_imm_gid", 0, here)>> \o
                  (IF used = <<>> THEN <<>> ELSE Append(Capture(used, captures), Plain("mk_closure", 0, Len(used))))
    BY <1>8, <1>9
  <2>2. here \in Nat /\ used \in Seq(Nat) /\ captures \in Seq(Names) /\ Len(captures) = Len(used)
    BY <1>12, <1>13, <1>14
  <2> QED BY ONLY <2>1, <2>2, ClosureMade
<1>16. first \in Seq(AllInsts) /\ rest \in Seq(AllInsts)
  BY <1>8, <1>12, <1>13, <1>14, ClosureParts
<1>17. BothChange(here, final, there, insts)
  BY <1>6, <1>7, <1>9, <1>16, <1>21, TwoPut
<1>18. OnlyTwoChange(here, there)
  BY <1>17 DEF BothChange, OnlyTwoChange
<1>19. ClosesHere(here, scope)
  <2>1. chunks'[here].code = final /\ chunks'[here].params = chunks[here].params /\ chunks'[here].captures = chunks[here].captures
        /\ chunks'[here].constants = chunks[here].constants
    BY <1>17 DEF BothChange
  <2> QED BY <1>7, <2>1, GrowsClosed
<1>20. AddsThere(there, around)
  <2>1. PICK old : old = chunks[there].code
    OBVIOUS
  <2>2. old \in Seq(AllInsts)
    BY <1>1, <1>6, <2>1, ChunkTyped
  <2>3. /\ old = chunks[there].code /\ chunks'[there].code = old \o insts
        /\ chunks'[there].params = chunks[there].params /\ chunks'[there].captures = chunks[there].captures
        /\ chunks'[there].constants = chunks[there].constants
    BY <1>17, <2>1 DEF BothChange
  <2>4. here \in DOMAIN chunks' /\ chunks'[here].captures = captures
    BY <1>4, <1>6, <1>17 DEF BothChange
  <2>5. used \in Seq(Nat) /\ captures \in Seq(Names) /\ Len(captures) = Len(used)
    BY <1>12, <1>13, <1>14
  <2>6. ClosureCode(insts, here, used, captures) /\ AllFiled(around, captures, used)
    BY <1>12, <1>15
  <2> QED BY ONLY <2>2, <2>3, <2>4, <2>5, <2>6, ClosureAdded
<1> QED BY <1>2, <1>3, <1>4, <1>5, <1>7, <1>10, <1>18, <1>19, <1>20, PopStep

LEMMA SourceStep ==
  ASSUME ScopesIInv, compiler_do_source
  PROVE  ScopesIInv'
<1>1. /\ status = "parsing" /\ TopFrame.fn = "do_source" /\ ScopesTypeOK /\ StringsFit /\ ProgramFits /\ LoopJumpsMeet
  BY DEF compiler_do_source, In, At, ScopesIInv
<1>2. PICK own \in Seq(Owners) : Compiling(own) /\ Nested(own) /\ NamesFit(own)
  BY <1>1, Parsing
<1>3. PICK n, here, scope, final : n = Len(frames) /\ here = chunk_idx /\ scope = CurrScope /\ final = Closed(BodyCode, CurrScope)
  OBVIOUS
<1>4. /\ scope \in ScopeRecs /\ final \in Seq(AllInsts) /\ IsClosed(chunks[here].code, final, RoomFor(scope))
      /\ here \in DOMAIN chunks /\ chunks \in Seq(ChunkRecs)
  BY <1>2, <1>3, FinalCode
<1>5. /\ chunks' = [chunks EXCEPT ![here].code = final] /\ chunk_idx' = here /\ locals' = Front(locals) /\ status' = "done"
      /\ strings' = strings /\ globals' = globals /\ loops' = loops /\ saved_info' = saved_info /\ frames' = frames
  BY <1>3 DEF compiler_do_source
<1>6. CodeIs(chunks, chunks', here, final)
  <2>1. PICK old, new : old = chunks /\ new = chunks'
    OBVIOUS
  <2>2. old \in Seq(ChunkRecs) /\ here \in DOMAIN old /\ final \in Seq(AllInsts) /\ new = [old EXCEPT ![here].code = final]
    BY <1>4, <1>5, <2>1
  <2>3. CodeIs(old, new, here, final)
    BY ONLY <2>2, PutCode
  <2> QED BY <2>1, <2>3
<1>7. ClosesHere(here, scope)
  BY <1>4, <1>6, GrowsClosed DEF CodeIs
<1>8. OnlyTwoChange(here, 0)
  BY <1>6 DEF CodeIs, OnlyTwoChange
<1>9. 0 \notin DOMAIN chunks
  BY <1>4
<1>10. ASSUME NEW c \in DOMAIN chunks PROVE ChunkGrows(chunks[c], chunks'[c]) /\ c \in DOMAIN chunks'
  <2>1. CASE c = here
    BY <1>6, <1>7, <2>1 DEF ClosesHere, CodeIs
  <2>2. CASE c # here
    <3>1. chunks'[c] = chunks[c]
      BY <1>6, <2>2 DEF CodeIs
    <3> QED BY <1>6, <3>1 DEF ChunkGrows, CodeIs
  <2> QED BY <2>1, <2>2
<1>11. ChunksGrow
  BY <1>10 DEF ChunksGrow
<1>12. ASSUME NEW c \in DOMAIN chunks, NEW i \in DOMAIN chunks[c].code, i # 1 PROVE chunks'[c].code[i] = chunks[c].code[i]
  <2>1. CASE c = here
    BY <1>7, <1>12, <2>1 DEF ClosesHere, IsClosed
  <2>2. CASE c # here
    BY <1>6, <2>2 DEF CodeIs
  <2> QED BY <2>1, <2>2
<1>13. WidesStay
  BY <1>12 DEF WidesStay
<1>14. StringsGrow /\ StringsFit' /\ globals' \in Seq(FuncInfos \cup StringInfos) /\ strings' \in Seq(Contents)
  BY <1>5, SameStrings DEF StringsGrow
<1>15. ScopesTypeOK'
  <2>1. locals' \in Seq(ScopeRecs)
    <3>1. locals \in Seq(ScopeRecs) /\ Len(locals) = 1
      BY <1>1, <1>2, SourceIsFirst DEF ScopesTypeOK
    <3>2. Len(locals) > 0
      BY <3>1
    <3> QED BY <1>5, <3>1, <3>2, LastItem
  <2>2. chunks' \in Seq(ChunkRecs) /\ chunk_idx' \in DOMAIN chunks'
    BY <1>4, <1>5, <1>6 DEF CodeIs
  <2> QED BY <1>1, <1>5, <1>14, <2>1, <2>2 DEF ScopesTypeOK
<1>16. ASSUME ~ StrayJump' PROVE \A c \in DOMAIN chunks' : CodeFits(c)'
  <2>1. ~ StrayJump
    BY <1>11, <1>16, StrayStays
  <2>2. OpenFit(own) /\ \A c \in DOMAIN chunks : CodeFits(c)
    BY <1>1, <1>2, <2>1 DEF Compiling, ProgramFits
  <2>3. n \in DOMAIN own /\ own[n].chunk = here /\ own[n].scopes = Len(locals)
    BY <1>1, <1>2, <1>3, FramesFacts
  <2>4. ScopeFits(scope, here) /\ SlotsFiled(scope, here)
    <3>1. scope = locals[own[n].scopes]
      BY <1>1, <1>2, <1>3, <2>3, CurrScopeTyped
    <3> QED BY <1>2, <2>2, <2>3, <3>1 DEF NamesFit, OpenFit
  <2>5. CodeFits(here)'
    <3>1. IsClosed(chunks[here].code, chunks'[here].code, RoomFor(scope))
      BY <1>7 DEF ClosesHere
    <3> QED BY <1>1, <1>4, <1>11, <1>13, <1>14, <2>2, <2>4, <3>1, ClosedFits
  <2>6. ASSUME NEW c \in DOMAIN chunks', c # here PROVE CodeFits(c)'
    <3>1. c \in DOMAIN chunks /\ chunks'[c] = chunks[c] /\ CodeFits(c)
      BY <1>6, <2>2, <2>6 DEF CodeIs
    <3>2. \A i \in DOMAIN chunks'[c].code \ DOMAIN chunks[c].code : LiteralFits(c, i)' /\ CaptureFits(c, i)'
      BY <3>1
    <3> QED BY <1>1, <1>11, <1>13, <1>14, <3>1, <3>2, CodeStaysFit
  <2> QED BY <2>5, <2>6
<1>17. ProgramFits'
  BY <1>16 DEF ProgramFits
<1>18. LoopJumpsMeet'
  <2>1. CASE StrayJump'
    BY <2>1 DEF LoopJumpsMeet
  <2>2. CASE ~ StrayJump'
    <3>1. CodeFits(here)
      <4>1. ~ StrayJump
        BY <1>11, <2>2, StrayStays
      <4> QED BY <1>1, <1>4, <4>1 DEF ProgramFits
    <3>2. OnlyJumpsOf({})
      <4>1. ASSUME NEW c \in DOMAIN chunks', NEW i \in DOMAIN chunks'[c].code, IsJump(chunks'[c].code[i])
            PROVE  c \in DOMAIN chunks /\ i \in DOMAIN chunks[c].code /\ chunks'[c].code[i] = chunks[c].code[i]
        <5>1. CASE c # here
          BY <1>6, <4>1, <5>1 DEF CodeIs
        <5>2. CASE c = here
          <6>1. i \in DOMAIN chunks[here].code
            <7>1. i \notin DOMAIN chunks[here].code => chunks'[here].code[i].op \in {"nop", "ret"}
              BY <1>7, <5>2 DEF ClosesHere, IsClosed
            <7> QED BY <4>1, <5>2, <7>1 DEF IsJump
          <6>2. chunks'[here].code[i].op = chunks[here].code[i].op
            BY <1>7, <6>1 DEF ClosesHere, IsClosed, SameButTarget
          <6>3. i # 1
            <7>1. chunks[here].code[1].op = "reserve"
              BY <3>1 DEF CodeFits, CodeOf
            <7> QED BY <4>1, <5>2, <6>2, <7>1 DEF IsJump
          <6> QED BY <1>4, <1>12, <5>2, <6>1, <6>3
        <5> QED BY <5>1, <5>2
      <4> QED BY <4>1, NoOtherJumps
    <3>3. \A c \in DOMAIN chunks' : \A i \in DOMAIN chunks'[c].code :
            IsJump(chunks'[c].code[i]) /\ chunks'[c].code[i].for.loop \in {} => MeetsAt(c, i)'
      OBVIOUS
    <3> QED BY <1>1, <1>11, <2>2, <3>2, <3>3, JumpsMeetOn
  <2> QED BY <2>1, <2>2
<1>19. status' # "parsing"
  BY <1>5
<1> QED BY <1>14, <1>15, <1>17, <1>18, <1>19 DEF ScopesIInv

LEMMA BareStart ==
  ASSUME NEW c \in DOMAIN chunks, BareChunk(chunks[c]), NEW scope
  PROVE  CodeFits(c) /\ SlotsFiled(scope, c) /\ Unfinished(c) /\ \A i \in DOMAIN CodeOf(c) : ~ IsJump(CodeOf(c)[i])
<1>1. \A i \in DOMAIN chunks[c].code : chunks[c].code[i].op = "reserve"
  BY DEF BareChunk
<1>2. Unfinished(c)
  BY <1>1 DEF Unfinished, CodeOf, BareChunk
<1>3. SlotsReserved(c)
  BY <1>1 DEF SlotsReserved, CodeOf, OfSlot
<1>4. SlotsApart(c)
  BY <1>1 DEF SlotsApart, CodeOf, OfSlot
<1>5. SlotsFiled(scope, c)
  BY <1>1 DEF SlotsFiled, CodeOf, OfSlot
<1>6. \A i \in DOMAIN chunks[c].code : LiteralFits(c, i)
  BY <1>1 DEF LiteralFits, CodeOf
<1>7. \A i \in DOMAIN chunks[c].code : CaptureFits(c, i)
  BY <1>1 DEF CaptureFits, CodeOf, OfUpval
<1>8. CodeFits(c)
  BY <1>3, <1>4, <1>6, <1>7 DEF CodeFits, CodeOf, BareChunk
<1>9. \A i \in DOMAIN CodeOf(c) : ~ IsJump(CodeOf(c)[i])
  BY <1>1 DEF CodeOf, IsJump
<1> QED BY <1>2, <1>5, <1>8, <1>9

LEMMA SourceBegins == Init => ScopesIInv
<1> SUFFICES ASSUME Init PROVE ScopesIInv
  OBVIOUS
<1>1. PICK none, chunk, scope, frame :
        none = <<>> /\ chunk = NewChunk(none, none) /\ scope = make_symbol_table /\ frame = Frame("do_source", "body")
  OBVIOUS
<1>2. none \in Seq(Names)
  BY <1>1
<1>3. /\ chunk \in ChunkRecs /\ chunk.params = none /\ chunk.captures = none /\ BareChunk(chunk)
  <2>1. chunk = NewChunk(none, none)
    BY <1>1
  <2>2. /\ chunk \in ChunkRecs /\ chunk.params = none /\ chunk.captures = none /\ DOMAIN chunk.code = {1}
        /\ chunk.code # <<>> /\ chunk.code[1].op = "reserve"
    BY ONLY <1>2, <2>1, NewChunkTyped
  <2> QED BY <2>2 DEF BareChunk
<1>4. scope \in ScopeRecs /\ LocalsFit(scope)
  BY <1>1, EmptyTable
<1>5. frame \in AllFrames /\ frame.fn = "do_source" /\ frame.at = "body"
  <2>1. frame = [fn |-> "do_source", at |-> "body"]
    BY <1>1 DEF Frame
  <2> QED BY <2>1 DEF AllFrames, PlainFrames, Places
<1>6. /\ chunks = <<chunk>> /\ chunk_idx = 1 /\ globals = <<>> /\ strings = <<>> /\ locals = <<scope>> /\ loops = <<>>
      /\ saved_info = NoInfo /\ frames = <<frame>> /\ status = "parsing"
  BY <1>1 DEF Init
<1>7. DOMAIN chunks = {1} /\ chunks[1] = chunk /\ chunks \in Seq(ChunkRecs)
  BY <1>3, <1>6
<1>8. locals[1] = scope /\ locals \in Seq(ScopeRecs) /\ Len(locals) = 1
  BY <1>4, <1>6
<1>9. frames[1] = frame /\ frames \in Seq(AllFrames) /\ Len(frames) = 1
  BY <1>5, <1>6
<1>10. Len(loops) = 0 /\ loops \in Seq(LoopRecs)
  BY <1>6
<1>11. ScopesTypeOK
  <2>1. globals \in Seq(FuncInfos \cup StringInfos) /\ strings \in Seq(Contents)
    BY <1>6
  <2>2. chunk_idx \in DOMAIN chunks
    BY <1>6, <1>7
  <2>3. saved_info \in Resolved \cup {NoInfo} /\ status \in {"parsing", "done", "dead", "crashed"}
    BY <1>6
  <2> QED BY <1>7, <1>8, <1>9, <1>10, <2>1, <2>2, <2>3 DEF ScopesTypeOK
<1>12. StringsFit
  BY <1>6 DEF StringsFit
<1>13. CodeFits(1) /\ SlotsFiled(scope, 1) /\ Unfinished(1) /\ \A i \in DOMAIN CodeOf(1) : ~ IsJump(CodeOf(1)[i])
  <2>1. 1 \in DOMAIN chunks /\ BareChunk(chunks[1])
    BY <1>3, <1>7
  <2> QED BY <2>1, BareStart
<1>14. \A c \in DOMAIN chunks : c = 1
  BY <1>7
<1>15. ProgramFits
  BY <1>13, <1>14 DEF ProgramFits
<1>16. LoopJumpsMeet
  <2>1. \A c \in DOMAIN chunks : \A i \in DOMAIN CodeOf(c) : MeetsAt(c, i)
    BY <1>13, <1>14 DEF MeetsAt
  <2> QED BY <2>1, MeetAtAll
<1>17. ScopeFits(scope, 1)
  <2>1. scope.infos = <<>> /\ scope.local_argc = 0
    BY <1>1 DEF make_symbol_table
  <2>2. UpvalsFit(scope, chunks[1].captures) /\ ConstantsFit(scope, 1)
    BY <2>1 DEF UpvalsFit, ConstantsFit
  <2>3. ParamsFit(scope, chunks[1].params)
    <3>1. chunks[1].params = <<>>
      BY <1>1, <1>3, <1>7
    <3> QED BY <2>1, <3>1 DEF ParamsFit
  <2> QED BY <1>4, <2>2, <2>3 DEF ScopeFits
<1>18. PICK owner, own : owner = [chunk |-> 1, scopes |-> 1, loops |-> 0] /\ own = <<owner>>
  OBVIOUS
<1>19. owner \in Owners /\ owner.chunk = 1 /\ owner.scopes = 1 /\ owner.loops = 0
  BY <1>18 DEF Owners
<1>20. own \in Seq(Owners) /\ Len(own) = 1 /\ DOMAIN own = {1} /\ own[1] = owner
  BY <1>18, <1>19
<1>21. Nested(own)
  <2>1. own \in Seq(Owners) /\ Len(own) = Len(frames) /\ Len(own) > 0
    BY <1>9, <1>20
  <2>2. frames[1].fn = "do_source" /\ own[1] = [chunk |-> 1, scopes |-> 1, loops |-> 0]
    BY <1>5, <1>9, <1>18, <1>20
  <2>3. own[Len(own)] = [chunk |-> chunk_idx, scopes |-> Len(locals), loops |-> Len(loops)]
    BY <1>6, <1>8, <1>10, <1>18, <1>20
  <2>4. \A i \in DOMAIN own : own[i].chunk \in DOMAIN chunks
    BY <1>7, <1>19, <1>20
  <2>5. \A i \in 2 .. Len(own) : Above(own, i)
    BY <1>20
  <2>6. \A i, j \in DOMAIN own : i < j => FarAbove(own, i, j)
    BY <1>20
  <2>7. \A l \in 1 .. Len(loops) : \E i \in DOMAIN own : frames[i].fn \in LoopFns /\ own[i].loops = l
    BY <1>10
  <2> QED BY <2>1, <2>2, <2>3, <2>4, <2>5, <2>6, <2>7 DEF Nested
<1>22. FrameFits(own, 1)
  BY <1>5, <1>9 DEF FrameFits
<1>23. NamesFit(own)
  BY <1>8, <1>13, <1>17, <1>19, <1>20, <1>22 DEF NamesFit
<1>24. OpenFit(own)
  BY <1>8, <1>13, <1>19, <1>20 DEF OpenFit
<1>25. JumpsFit(own)
  <2>1. \A c \in DOMAIN chunks : \A i \in DOMAIN CodeOf(c) : JumpFits(c, i)
    BY <1>13, <1>14 DEF JumpFits
  <2>2. \A i \in DOMAIN own : frames[i].fn \notin LoopFns
    BY <1>5, <1>9, <1>20 DEF LoopFns
  <2> QED BY <1>16, <2>1, <2>2 DEF JumpsFit
<1>26. Compiling(own)
  BY <1>21, <1>23, <1>24, <1>25 DEF Compiling
<1> QED BY <1>11, <1>12, <1>15, <1>16, <1>20, <1>26 DEF ScopesIInv

LEMMA ScopesStutter == ScopesIInv /\ UNCHANGED vars => ScopesIInv'
<1> SUFFICES ASSUME ScopesIInv, UNCHANGED vars PROVE ScopesIInv'
  OBVIOUS
<1>1. /\ status' = status /\ chunks' = chunks /\ chunk_idx' = chunk_idx /\ strings' = strings /\ globals' = globals
      /\ locals' = locals /\ loops' = loops /\ saved_info' = saved_info /\ frames' = frames
  BY DEF vars, programVars, scopeVars, parseVars
<1>2. CASE status # "parsing"
  <2>1. status' \in {"done", "dead", "crashed"}
    BY <1>1, <1>2 DEF ScopesIInv, ScopesTypeOK
  <2> QED BY <1>1, <2>1, IdleStep
<1>3. CASE status = "parsing"
  <2>1. ScopesTypeOK
    BY <1>3, Parsing
  <2>2. PICK own \in Seq(Owners) : Compiling(own) /\ Nested(own) /\ NamesFit(own)
    BY <1>3, Parsing
  <2>3. PICK n : n = Len(frames)
    OBVIOUS
  <2>4. n \in DOMAIN frames /\ TopFrame = frames[n] /\ TopFrame \in AllFrames /\ frames \in Seq(AllFrames)
    BY <2>1, <2>2, <2>3, FramesFacts
  <2>5. PICK top : top = TopFrame
    OBVIOUS
  <2>6. top \in AllFrames /\ SameFrame(TopFrame, top) /\ SameLoop(TopFrame, top)
    BY <2>4, <2>5, SameFrameItself
  <2>7. TopBecomes(top)
    <3>1. [frames EXCEPT ![n] = top] = frames
      BY <2>4, <2>5
    <3> QED BY <1>1, <2>3, <3>1 DEF TopBecomes
  <2>8. PICK here : here = chunk_idx
    OBVIOUS
  <2>9. PICK insts : insts = <<>>
    OBVIOUS
  <2>10. /\ chunks' = [chunks EXCEPT ![here].code = @ \o insts] /\ insts \in Seq(AllInsts)
    BY <1>1, <2>1, <2>8, <2>9, NothingEmitted
  <2>11. PICK scope : scope = CurrScope
    OBVIOUS
  <2>12. MoreLocals(scope) /\ locals' = [locals EXCEPT ![Len(locals)] = scope]
    BY <1>1, <1>3, <2>11, SameScope
  <2>13. \A k \in DOMAIN insts : PlainFits(insts[k], scope, here)
    BY <2>9
  <2>14. /\ strings' = strings /\ globals' = globals /\ loops' = loops /\ saved_info' = saved_info /\ status' = status
         /\ chunk_idx' = here
    BY <1>1, <2>8
  <2> QED BY ONLY ScopesIInv, <1>3, <2>6, <2>7, <2>8, <2>10, <2>12, <2>13, <2>14, MoveStep
<1> QED BY <1>2, <1>3

LEMMA ScopesStep == ScopesIInv /\ [Next]_vars => ScopesIInv'
<1> SUFFICES ASSUME ScopesIInv, [Next]_vars PROVE ScopesIInv'
  OBVIOUS
<1>1. CASE Operand
  BY <1>1, IntegerStep, StringStep, NameStep, LambdaStep, LambdaEndStep DEF Operand
<1>2. CASE Declaration
  BY <1>2, VarsStep, VarsEndStep, BindingStep, BindingEndStep DEF Declaration
<1>3. CASE ExprStmt
  BY <1>3, AssignmentStep, ExprStep, ExprEndStep DEF ExprStmt
<1>4. CASE Loop
  BY <1>4, WhileStep, WhileConditionStep, WhileEndStep, ForStep, CounterStep, ForConditionStep, UpdatedStep, ForEndStep,
     BreakStep, ContinueStep DEF Loop
<1>5. CASE compiler_do_func
  BY <1>5, FuncStep
<1>6. CASE end_func
  BY <1>6, FuncEndStep
<1>7. CASE compiler_do_source
  BY <1>7, SourceStep
<1>8. CASE UNCHANGED vars
  BY <1>8, ScopesStutter
<1> QED BY <1>1, <1>2, <1>3, <1>4, <1>5, <1>6, <1>7, <1>8 DEF Next

\* However functions, lambdas, loops and statements are nested, what the
\* compiler keeps of names, literals and loops is in order after each step.
THEOREM CompilerKeepsOrder == Spec => []ScopesIInv
<1>1. Init => ScopesIInv
  BY SourceBegins
<1>2. ScopesIInv /\ [Next]_vars => ScopesIInv'
  BY ScopesStep
<1> QED BY <1>1, <1>2, PTL DEF Spec

LEMMA FitsKeepApart == ScopesIInv => VariablesKeepApart
<1> SUFFICES ASSUME ScopesIInv, ~ StrayJump, NEW c \in DOMAIN chunks, NamedApart(c)
             PROVE  SlotsApart(c) /\ SlotsReserved(c) /\ CapturesMatch(c)
  BY DEF VariablesKeepApart
<1>1. CodeFits(c)
  BY DEF ScopesIInv, ProgramFits
<1>2. SlotsApart(c) /\ SlotsReserved(c)
  BY <1>1 DEF CodeFits
<1>3. ASSUME NEW i \in DOMAIN CodeOf(c) PROVE CaptureFits(c, i)
  BY <1>1 DEF CodeFits
<1>4. CapturesMatch(c)
  BY <1>3 DEF CapturesMatch, CaptureFits
<1> QED BY <1>2, <1>4

LEMMA FitsKeepValues == ScopesIInv => LiteralsKeepValues
<1> SUFFICES ASSUME ScopesIInv, ~ StrayJump, NEW c \in DOMAIN chunks, NEW i \in DOMAIN CodeOf(c)
             PROVE  LET code == CodeOf(c)
                        numerals == {k \in DOMAIN code : code[k].op = "put_k"}
                    IN /\ code[i].op = "load_string_k" => Holds(strings, code[i].wide, code[i].for.text)
                       /\ i \in numerals =>
                            \/ Holds(chunks[c].constants, code[i].wide, code[i].for.value)
                            \/ \E j \in numerals : /\ code[j].for.lexeme = code[i].for.lexeme
                                                   /\ code[j].for.value # code[i].for.value
  BY DEF LiteralsKeepValues
<1>1. CodeFits(c)
  BY DEF ScopesIInv, ProgramFits
<1>2. LiteralFits(c, i)
  BY <1>1 DEF CodeFits
<1>3. PICK code : code = CodeOf(c)
  OBVIOUS
<1>4. code[i].op = "load_string_k" => Holds(strings, code[i].wide, code[i].for.text)
  BY <1>2, <1>3 DEF LiteralFits
<1>5. ASSUME code[i].op = "put_k"
      PROVE  \/ Holds(chunks[c].constants, code[i].wide, code[i].for.value)
             \/ \E j \in DOMAIN code : /\ code[j].op = "put_k" /\ code[j].for.lexeme = code[i].for.lexeme
                                       /\ code[j].for.value # code[i].for.value
  <2>1. ConstantOf(c, code[i].for.lexeme, code[i].wide)
    BY <1>2, <1>3, <1>5 DEF LiteralFits
  <2>2. PICK j \in DOMAIN code : /\ code[j].op = "put_k" /\ code[j].for.lexeme = code[i].for.lexeme
                                 /\ Holds(chunks[c].constants, code[i].wide, code[j].for.value)
    BY <1>3, <2>1 DEF ConstantOf
  <2>3. CASE code[j].for.value = code[i].for.value
    BY <2>2, <2>3
  <2>4. CASE code[j].for.value # code[i].for.value
    BY <2>2, <2>4
  <2> QED BY <2>3, <2>4
<1> QED BY <1>3, <1>4, <1>5

\* In every function, at every point of the compilation, two instructions reach
\* one slot exactly when they are for one variable, RESERVE makes room for each
\* slot, and a capture is read where MAKE_CLOSURE puts it: compiler.c:289, 433,
\* 1767, 1896.
THEOREM NamesKeepApart == Spec => []VariablesKeepApart
BY CompilerKeepsOrder, FitsKeepApart, PTL

\* Each literal is loaded as what it stands for, unless two literals of the
\* function are spelled alike and stand for different values: compiler.c:310,
\* 333, 359.
THEOREM ConstantsKeepValues == Spec => []LiteralsKeepValues
BY CompilerKeepsOrder, FitsKeepValues, PTL

\* Each BREAK of a closed loop goes where its condition goes when it is false
\* and each CONTINUE where its last jump goes: compiler.c:467, 1361, 1484.
THEOREM LeavesReachTheirLoop == Spec => []LoopJumpsMeet
<1>1. ScopesIInv => LoopJumpsMeet
  BY DEF ScopesIInv
<1> QED BY <1>1, CompilerKeepsOrder, PTL
=============================================================================
