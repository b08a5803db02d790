----------------------------- MODULE KpmRelocate -----------------------------
(***************************************************************************)
(* Inline hooks of kpm (base/hook.c): hook_prepare() moves the first words *)
(* of a function to a buffer, where code relative to the pc is rewritten,  *)
(* and a trampoline takes their place.                                     *)
(*                                                                         *)
(* The function is then run twice, in lock-step: as it was (orig), and     *)
(* from the buffer (relo). Addresses count words; the function is at 0 and *)
(* the buffer at RELO. An instruction is [op, to]: to is the address it    *)
(* names, or tells ordinary instructions apart.                            *)
(***************************************************************************)
EXTENDS Integers, Sequences, SequencesExt

CONSTANTS
    Functions0,     \* the functions that are hooked: sequences of words
    RELO            \* hook->relo_addr, out of the function's reach

RELOCATE_INST_NUM == 4 * 8 + 8 - 4

INST_LDR == {"LDR_32", "LDR_64", "LDRSW_LIT"}
INST_LDR_SIMD == {"LDR_SIMD_32", "LDR_SIMD_64", "LDR_SIMD_128"}
INST_CBTB == {"CBZ", "CBNZ", "TBZ", "TBNZ"}
INST_PAC == {"PACIASP", "PACIBSP"}

\* The trampoline is longer by a landing pad if the function begins with PAC.
tramp_insts_num(fn) == IF fn[1].op \in INST_PAC THEN 5 ELSE 4

\* The buffer is allocated: it is not where the function is, nor where its
\* first words lead. These load no literals: relo_ldr() rewrites such a load
\* to read its address one word early, from the padding.
ASSUME RelocateAssumption ==
    /\ RELO \in Nat /\ RELO > 5
    /\ \A fn \in Functions0 :
          /\ fn \in Seq([op : STRING, to : Int]) /\ Len(fn) >= tramp_insts_num(fn)
          /\ \A i \in 1..tramp_insts_num(fn) :
                fn[i].op \notin INST_LDR \cup INST_LDR_SIMD /\ fn[i].to \notin RELO..(RELO + 5 * 8 + 3)

VARIABLES
    phase,      \* text (not hooked), refused, orig and relo (whose turn it is)
    insts,      \* the function's first words
    buffer,     \* hook->relo_insts
    taken,      \* what the condition of the current instruction says
    orig,       \* the machine that runs the function as it was
    relo        \* the machine that runs it from the buffer

relocateVars == <<phase, insts, buffer, taken, orig, relo>>

-----------------------------------------------------------------------------
(* Relocation *)

relo_len(op) ==
    CASE op \in {"BC", "BL", "PRFM_LIT"} \cup INST_LDR_SIMD -> 8
      [] op \in {"B"} \cup INST_LDR \cup INST_CBTB -> 6
      [] op \in {"ADR", "ADRP"} -> 4
      [] OTHER -> 2

is_in_tramp(fn, addr) == addr >= 0 /\ addr < tramp_insts_num(fn)

\* Where instruction i of the function begins in the buffer.
Offset(fn, i) == LET at[k \in 0..i] == IF k = 0 THEN 0 ELSE at[k - 1] + relo_len(fn[k].op) IN at[i]

\* Mutant: a branch inside the moved words goes to the old place.
BranchAsBefore(fn, addr) == addr

relo_in_tramp(fn, addr) == IF is_in_tramp(fn, addr) THEN RELO + Offset(fn, addr) ELSE addr

Word(op, arg) == [op |-> op, arg |-> arg]
NOP == Word("nop", 0)
Address(addr) == <<Word("lo", addr), Word("hi", addr)>>

\* B, B.cond and BL: the target is loaded to X17.
relo_b(fn, inst) ==
    (IF inst.op = "BC" THEN <<Word("if", 2), Word("b", 6)>> ELSE <<>>)
    \o <<Word("ldr_x17", 2), Word("b", 3)>> \o Address(relo_in_tramp(fn, inst.to))
    \o (IF inst.op = "BL" THEN <<Word("adr_x30", 0), Word("add_x30", 3)>> ELSE <<>>)
    \o <<Word("ret_x17", 0), NOP>>

relo_adr(fn, inst) == <<Word("ldr_xt", 2), Word("b", 3)>> \o Address(inst.to)

relo_ldr(fn, inst) ==
    IF inst.op \in INST_LDR
    THEN <<Word("ldr_xt", 3), Word("load_xt", 0), Word("b", 4), NOP>>
         \o Address(relo_in_tramp(fn, inst.to))
    ELSE <<Word("push", 0), Word("ldr_x17", 4),
           IF inst.op = "PRFM_LIT" THEN Word("prfm", 0) ELSE Word("load_x17", 0),
           Word("pop_x17", 0), Word("b", 4), NOP>> \o Address(relo_in_tramp(fn, inst.to))

\* relo_cb() and relo_tb()
relo_cb(fn, inst) ==
    <<Word("if", 2), Word("b", 5), Word("ldr_x17", 2), Word("ret_x17", 0)>>
    \o Address(relo_in_tramp(fn, inst.to))

relo_ignore(fn, inst) == <<Word("inst", inst.to), NOP>>

\* A literal or page among the words the trampoline overwrites cannot be
\* read any more.
BadRelo(fn, inst) == inst.op \in {"ADRP"} \cup INST_LDR \cup INST_LDR_SIMD /\ is_in_tramp(fn, inst.to)

relocate_inst(fn, inst) ==
    CASE inst.op \in {"B", "BC", "BL"} -> relo_b(fn, inst)
      [] inst.op \in {"ADR", "ADRP"} -> relo_adr(fn, inst)
      [] inst.op \in {"PRFM_LIT"} \cup INST_LDR \cup INST_LDR_SIMD -> relo_ldr(fn, inst)
      [] inst.op \in INST_CBTB -> relo_cb(fn, inst)
      [] OTHER -> relo_ignore(fn, inst)

\* branch_from_to(): ret_absolute()
branch_from_to(addr) == <<Word("ldr_x17", 2), Word("ret_x17", 0)>> \o Address(addr)

hook_prepare(fn) ==
    LET n == tramp_insts_num(fn)
        blocks == [i \in 1..n |-> relocate_inst(fn, fn[i])]
    IN  /\ insts' = SubSeq(fn, 1, n)
        /\ IF \E i \in 1..n : BadRelo(fn, fn[i])
           THEN phase' = "refused" /\ UNCHANGED <<buffer, orig, relo>>
           ELSE /\ phase' = "orig"
                /\ buffer' = FlattenSeq(blocks) \o branch_from_to(n)
                /\ orig' = [pc |-> 0, x |-> <<"none", 0>>, lr |-> 0]
                /\ relo' = [pc |-> RELO, x |-> <<"none", 0>>, x17 |-> 0, x30 |-> 0]
        /\ UNCHANGED taken

-----------------------------------------------------------------------------
(* The two machines. x is the register, general or SIMD, an instruction     *)
(* writes: an address, what is loaded from there, or an ordinary result.    *)

Inside == orig.pc \in 0..(Len(insts) - 1)

ExecOriginal ==
    /\ phase = "orig" /\ Inside
    /\ \E t \in BOOLEAN :
          LET inst == insts[orig.pc + 1]
              jumps == inst.op \in {"B", "BL"} \/ (t /\ inst.op \in {"BC"} \cup INST_CBTB)
          IN  /\ taken' = t
              /\ t => inst.op \in {"BC"} \cup INST_CBTB
              /\ orig' = [pc |-> IF jumps THEN inst.to ELSE orig.pc + 1,
                          lr |-> IF inst.op = "BL" THEN orig.pc + 1 ELSE orig.lr,
                          x |-> CASE inst.op \in {"ADR", "ADRP"} -> <<"addr", inst.to>>
                                  [] inst.op \in INST_LDR \cup INST_LDR_SIMD -> <<"mem", inst.to>>
                                  [] inst.op \in {"B", "BL", "BC", "PRFM_LIT"} \cup INST_CBTB -> orig.x
                                  [] OTHER -> <<"inst", inst.to>>]
    /\ phase' = "relo" /\ UNCHANGED <<insts, buffer, relo>>

\* The address in two words of the buffer; anything else is no address.
Literal(pc) ==
    LET k == pc - RELO + 1
    IN  IF buffer[k].op = "lo" /\ buffer[k + 1].op = "hi" THEN buffer[k].arg ELSE -1

ExecWord(m, w, t) ==
    [pc |-> CASE w.op = "b" \/ (w.op = "if" /\ t) -> m.pc + w.arg
              [] w.op = "ret_x17" -> m.x17
              [] w.op \in {"lo", "hi"} -> -1
              [] OTHER -> m.pc + 1,
     x17 |-> CASE w.op = "ldr_x17" -> Literal(m.pc + w.arg) [] OTHER -> m.x17,
     x30 |-> CASE w.op = "adr_x30" -> m.pc [] w.op = "add_x30" -> m.x30 + w.arg [] OTHER -> m.x30,
     x |-> CASE w.op = "ldr_xt" -> <<"addr", Literal(m.pc + w.arg)>>
             [] w.op = "load_xt" -> <<"mem", m.x[2]>>
             [] w.op = "load_x17" -> <<"mem", m.x17>>
             [] w.op = "inst" -> <<"inst", w.arg>>
             [] OTHER -> m.x]

\* Where the pieces of the buffer begin: one for each word of the function,
\* and the jump back.
Starts == {RELO + Offset(insts, i) : i \in 0..Len(insts)}
InBuffer(pc) == pc \in RELO..(RELO + Len(buffer) - 1)

ExecRelocated ==
    /\ phase = "relo"
    /\ relo' = ExecWord(relo, buffer[relo.pc - RELO + 1], taken)
    /\ phase' = IF relo'.pc \in Starts \/ ~InBuffer(relo'.pc) THEN "orig" ELSE "relo"
    /\ UNCHANGED <<insts, buffer, taken, orig>>

\* The function is left, behind its first words, by way of the buffer's end.
JumpBack ==
    /\ phase = "orig" /\ orig.pc = Len(insts) /\ InBuffer(relo.pc)
    /\ phase' = "relo" /\ UNCHANGED <<insts, buffer, taken, orig, relo>>

\* What a BL of the first words called returns.
Return ==
    /\ phase = "orig" /\ ~Inside /\ ~InBuffer(relo.pc) /\ orig.lr # 0
    /\ orig' = [orig EXCEPT !.pc = orig.lr, !.lr = 0]
    /\ relo' = [relo EXCEPT !.pc = relo.x30]
    /\ phase' = IF relo.x30 \in Starts THEN "orig" ELSE "relo"
    /\ UNCHANGED <<insts, buffer, taken>>

RelocateInit ==
    /\ phase = "text" /\ insts = <<>> /\ buffer = <<>> /\ taken = FALSE
    /\ orig = [pc |-> 0, x |-> <<"none", 0>>, lr |-> 0]
    /\ relo = [pc |-> RELO, x |-> <<"none", 0>>, x17 |-> 0, x30 |-> 0]

RelocateNext ==
    \/ phase = "text" /\ \E fn \in Functions0 : hook_prepare(fn)
    \/ ExecOriginal \/ ExecRelocated \/ JumpBack \/ Return

RelocateSpec == RelocateInit /\ [][RelocateNext]_relocateVars

-----------------------------------------------------------------------------
\* The backup that hook() returns behaves as the function did ("original
\* func is backuped in backup", include/hook.h): both machines are at the same
\* place with the same register, whatever branches the moved words take and
\* wherever they come back from; and the buffer holds it all, unless the
\* trampoline begins with a landing pad.
RelocatedFaithful ==
    /\ Len(buffer) <= RELOCATE_INST_NUM \/ insts[1].op \in INST_PAC
    /\ phase = "orig" =>
          /\ relo.x = orig.x
          /\ IF Inside THEN relo.pc = RELO + Offset(insts, orig.pc)
             ELSE IF orig.pc = Len(insts) THEN relo.pc \in {orig.pc, RELO + Offset(insts, orig.pc)}
             ELSE relo.pc = orig.pc
=============================================================================
