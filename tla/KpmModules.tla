----------------------------- MODULE KpmModules -----------------------------
(***************************************************************************)
(* The loader of kpm modules (patch/module/module.c and relo.c): an object *)
(* file is laid out, moved into executable memory, linked against the      *)
(* loader's exported symbols, relocated and started; and what is done with *)
(* a module until it is unloaded. There is no lock (the code says so): one *)
(* command runs at a time here.                                            *)
(*                                                                         *)
(* A file is a record: sections, a sequence of [name, flags, align, size,  *)
(* file]; symbols, of [sec, value, name], where sec is a section, SHN_ABS  *)
(* or SHN_UNDEF; relocations, of [sec, offset, sym, addend, type]. An      *)
(* instruction is its immediate field, data its value.                     *)
(***************************************************************************)
EXTENDS Integers, Sequences, SequencesExt, FiniteSets

CONSTANTS
    ObjectFiles,    \* files to load
    Exported,       \* symbol -> address, of the loader
    Places,         \* addresses kp_malloc_exec() may return
    page_size,
    SYM_SIZE,       \* size of a symbol
    MaxLoaded       \* bound: modules in the list

VARIABLES
    mods,           \* modules.list
    loading,        \* what load_module() does
    exec_mem,       \* areas of executable memory: <<start, size>>
    vmem            \* other allocations: <<module, what>>

kpmModulesVars == <<mods, loading, exec_mem, vmem>>

NoLoad == [pc |-> "idle"]
KpmModulesInit == mods = <<>> /\ loading = NoLoad /\ exec_mem = {} /\ vmem = {}

SHN_UNDEF == 0
SHN_ABS == -1
ENOEXEC == -8
ENOENT == -2

-----------------------------------------------------------------------------
(* Layout *)

ALIGN(x, a) == ((x + a - 1) \div a) * a

\* A layout is [at, size]: offsets of the sections placed so far.
get_offset(l, i, s) ==
    LET ret == ALIGN(l.size, IF s.align = 0 THEN 1 ELSE s.align)
    IN  [l EXCEPT !.at[i] = ret, !.size = ret + s.size]

\* The sections of each of the four passes.
Pass(m, s) ==
    /\ "alloc" \in s.flags
    /\ m = 1 => "exec" \in s.flags
    /\ m = 2 => "write" \notin s.flags
    /\ m = 3 => "write" \in s.flags

Placed(f, l, m) ==
    LET placed[i \in 0 .. Len(f.sections)] ==
            IF i = 0 THEN l
            ELSE IF Pass(m, f.sections[i]) /\ placed[i - 1].at[i] = -1
            THEN get_offset(placed[i - 1], i, f.sections[i])
            ELSE placed[i - 1]
    IN  placed[Len(f.sections)]

layout_sections(f) ==
    LET Paged(l) == [l EXCEPT !.size = ALIGN(@, page_size)]
        text == Paged(Placed(f, [at |-> [i \in DOMAIN f.sections |-> -1], size |-> 0], 1))
        ro == Paged(Placed(f, text, 2))
        all == Paged(Placed(f, Placed(f, ro, 3), 4))
    IN  [at |-> all.at, size |-> all.size, text_size |-> text.size, ro_size |-> ro.size]

is_core_symbol(f, sym) == sym.sec \in DOMAIN f.sections /\ {"alloc", "exec"} \subseteq f.sections[sym.sec].flags

Section(f, name) == SelectInSeq(f.sections, LAMBDA s : s.name = name)

\* The symbols and their names go behind the sections, and between them is
\* room for the symbols of code.
layout_symtab(f, l) ==
    LET sym == Section(f, ".symtab")
        str == Section(f, ".strtab")
        a == get_offset(l, sym, f.sections[sym])
        core == Cardinality({i \in DOMAIN f.symbols : is_core_symbol(f, f.symbols[i])}) + 1
        room == get_offset(a, sym, f.sections[sym]).at[sym] + core * SYM_SIZE + 1 + core
    IN  get_offset([a EXCEPT !.size = room], str, f.sections[str])

Allocated(f, i) == "alloc" \in f.sections[i].flags \/ i \in {Section(f, ".symtab"), Section(f, ".strtab")}

-----------------------------------------------------------------------------
(* Relocation *)

\* val >> n, where values are less than 2^31, and the n lowest bits of val.
Shr(val, n) == IF n < 31 THEN val \div 2^n ELSE IF val < 0 THEN -1 ELSE 0
Low(val, n) == val % 2^n

do_reloc(op, place, val) ==
    CASE op = "ABS" -> val
      [] op = "PREL" -> val - place
      [] op = "PAGE" -> 4096 * (val \div 4096 - place \div 4096)

\* reloc_data(): what is stored, and the outcomes of the test for an overflow.
\* For 32 bits its mask, 1 << 32, is not defined: the test either works or
\* refuses all negative values.
reloc_data(op, place, val, len) ==
    LET sval == do_reloc(op, place, val)
    IN  [field |-> IF len = 16 THEN Low(sval, 16) ELSE sval,
         ovf |-> CASE len = 16 -> {~(Shr(sval, 15) \in {-1, 0, 1})}
                   [] len = 32 -> IF sval < 0 THEN BOOLEAN ELSE {FALSE}
                   [] OTHER -> {FALSE}]

\* reloc_insn_movw(): what is kept of the value is never negative, so an
\* instruction whose sign the loader chooses is always a MOVZ.
reloc_insn_movw(op, place, val, lsb) ==
    LET sval == Shr(do_reloc(op, place, val), lsb)
    IN  [field |-> Low(sval, 16), ovf |-> {Shr(sval, 16) # 0}]

ADR == 21

\* aarch64_insn_encode_immediate(): a type is its number of bits.
aarch64_insn_encode_immediate(imm_type, imm) ==
    IF imm_type = ADR THEN [lo |-> Low(imm, 2), hi |-> Low(Shr(imm, 2), 19)] ELSE Low(imm, imm_type)

\* Mutant: the test of data, which also lets an unsigned value pass.
ImmAsData(op, place, val, lsb, len, imm_type) ==
    LET sval == Shr(do_reloc(op, place, val), lsb)
    IN  [field |-> aarch64_insn_encode_immediate(imm_type, Low(sval, len)),
         ovf |-> {~(sval \div 2^(len - 1) \in {-1, 0, 1})}]

\* reloc_insn_imm(): the value is signed.
reloc_insn_imm(op, place, val, lsb, len, imm_type) ==
    LET sval == Shr(do_reloc(op, place, val), lsb)
    IN  [field |-> aarch64_insn_encode_immediate(imm_type, Low(sval, len)),
         ovf |-> {~(sval \div 2^(len - 1) \in {-1, 0})}]

\* The relocations: operation, form, lowest bit, length, field, test.
Reloc(op, form, lsb, len, type, check) ==
    [op |-> op, form |-> form, lsb |-> lsb, len |-> len, imm_type |-> type, check |-> check]

RelocTypes ==
    [ABS64 |-> Reloc("ABS", "data", 0, 64, 0, FALSE), ABS32 |-> Reloc("ABS", "data", 0, 32, 0, TRUE),
     ABS16 |-> Reloc("ABS", "data", 0, 16, 0, TRUE), PREL64 |-> Reloc("PREL", "data", 0, 64, 0, FALSE),
     PREL32 |-> Reloc("PREL", "data", 0, 32, 0, TRUE), PREL16 |-> Reloc("PREL", "data", 0, 16, 0, TRUE),
     MOVW_UABS_G0_NC |-> Reloc("ABS", "movw", 0, 16, 16, FALSE), MOVW_UABS_G0 |-> Reloc("ABS", "movw", 0, 16, 16, TRUE),
     MOVW_UABS_G1_NC |-> Reloc("ABS", "movw", 16, 16, 16, FALSE), MOVW_UABS_G1 |-> Reloc("ABS", "movw", 16, 16, 16, TRUE),
     MOVW_UABS_G2_NC |-> Reloc("ABS", "movw", 32, 16, 16, FALSE), MOVW_UABS_G2 |-> Reloc("ABS", "movw", 32, 16, 16, TRUE),
     MOVW_UABS_G3 |-> Reloc("ABS", "movw", 48, 16, 16, FALSE), MOVW_SABS_G0 |-> Reloc("ABS", "movw", 0, 16, 16, TRUE),
     MOVW_SABS_G1 |-> Reloc("ABS", "movw", 16, 16, 16, TRUE), MOVW_SABS_G2 |-> Reloc("ABS", "movw", 32, 16, 16, TRUE),
     MOVW_PREL_G0_NC |-> Reloc("PREL", "movw", 0, 16, 16, FALSE), MOVW_PREL_G0 |-> Reloc("PREL", "movw", 0, 16, 16, TRUE),
     MOVW_PREL_G1_NC |-> Reloc("PREL", "movw", 16, 16, 16, FALSE), MOVW_PREL_G1 |-> Reloc("PREL", "movw", 16, 16, 16, TRUE),
     MOVW_PREL_G2_NC |-> Reloc("PREL", "movw", 32, 16, 16, FALSE), MOVW_PREL_G2 |-> Reloc("PREL", "movw", 32, 16, 16, TRUE),
     MOVW_PREL_G3 |-> Reloc("PREL", "movw", 48, 16, 16, FALSE),
     LD_PREL_LO19 |-> Reloc("PREL", "imm", 2, 19, 19, TRUE), ADR_PREL_LO21 |-> Reloc("PREL", "imm", 0, 21, ADR, TRUE),
     ADR_PREL_PG_HI21_NC |-> Reloc("PAGE", "imm", 12, 21, ADR, FALSE), ADR_PREL_PG_HI21 |-> Reloc("PAGE", "imm", 12, 21, ADR, TRUE),
     ADD_ABS_LO12_NC |-> Reloc("ABS", "imm", 0, 12, 12, FALSE), LDST8_ABS_LO12_NC |-> Reloc("ABS", "imm", 0, 12, 12, FALSE),
     LDST16_ABS_LO12_NC |-> Reloc("ABS", "imm", 1, 11, 12, FALSE), LDST32_ABS_LO12_NC |-> Reloc("ABS", "imm", 2, 10, 12, FALSE),
     LDST64_ABS_LO12_NC |-> Reloc("ABS", "imm", 3, 9, 12, FALSE), LDST128_ABS_LO12_NC |-> Reloc("ABS", "imm", 4, 8, 12, FALSE),
     TSTBR14 |-> Reloc("PREL", "imm", 2, 14, 14, TRUE), CONDBR19 |-> Reloc("PREL", "imm", 2, 19, 19, TRUE),
     JUMP26 |-> Reloc("PREL", "imm", 2, 26, 26, TRUE), CALL26 |-> Reloc("PREL", "imm", 2, 26, 26, TRUE)]

Applied(type, place, val) ==
    LET t == RelocTypes[type]
    IN  CASE t.form = "data" -> reloc_data(t.op, place, val, t.len)
          [] t.form = "movw" -> reloc_insn_movw(t.op, place, val, t.lsb)
          [] t.form = "imm" -> reloc_insn_imm(t.op, place, val, t.lsb, t.len, t.imm_type)

-----------------------------------------------------------------------------
(* Loading *)

\* setup_load_info(): what a file must have.
setup_load_info(f) ==
    IF /\ \A name \in {".kpm.init", ".kpm.exit", ".kpm.info"} :
             Section(f, name) # 0 /\ "alloc" \in f.sections[Section(f, name)].flags
       /\ Section(f, ".symtab") # 0 /\ \A i \in DOMAIN f.sections : f.sections[i].file
    THEN 0 ELSE ENOEXEC

symbol_lookup_name(name) == IF name \in DOMAIN Exported THEN Exported[name] ELSE 0

\* simplify_symbols(): the address of each symbol, 0 if there is none.
SymbolAddress(f, l, start, sym) ==
    CASE sym.sec = SHN_ABS -> sym.value
      [] sym.sec = SHN_UNDEF -> symbol_lookup_name(sym.name)
      [] OTHER -> start + l.at[sym.sec] + sym.value

simplify_symbols(f) ==
    IF \E i \in DOMAIN f.symbols : f.symbols[i].sec = SHN_UNDEF /\ symbol_lookup_name(f.symbols[i].name) = 0
    THEN ENOENT ELSE 0

\* apply_relocate_add() for each section that is moved, up to an error.
PlaceOf(l, start, r) == start + l.at[r.sec] + r.offset
ValueOf(f, l, start, r) == SymbolAddress(f, l, start, f.symbols[r.sym]) + r.addend

apply_relocations(f, l, start) ==
    LET Moved(i) == "alloc" \in f.sections[f.relocations[i].sec].flags
        At(i) == Applied(f.relocations[i].type, PlaceOf(l, start, f.relocations[i]), ValueOf(f, l, start, f.relocations[i]))
        Refused(i) == f.relocations[i].type \notin DOMAIN RelocTypes
        moved == {i \in DOMAIN f.relocations : Moved(i)}
        Fine(i) == ~Refused(i) /\ (RelocTypes[f.relocations[i].type].check => FALSE \in At(i).ovf)
        Sure(i) == ~Refused(i) /\ (RelocTypes[f.relocations[i].type].check => At(i).ovf = {FALSE})
    IN  [text |-> [i \in {j \in moved : ~Refused(j)} |-> At(i).field],
         rcs |-> (IF \A i \in moved : Fine(i) THEN {0} ELSE {}) \cup (IF \A i \in moved : Sure(i) THEN {} ELSE {ENOEXEC})]

find_module(name) == SelectInSeq(mods, LAMBDA m : m.file.name = name)

Disjoint(a, b) == a[1] + a[2] <= b[1] \/ b[1] + b[2] <= a[1]

\* kp_malloc_exec()
FreePlaces(size) == {p \in Places : \A a \in exec_mem : Disjoint(a, <<p, size>>)}

Layout(f) ==
    LET l == layout_sections(f)
        sym == layout_symtab(f, [at |-> l.at, size |-> l.size])
    IN  [l EXCEPT !.at = sym.at, !.size = sym.size]

\* Executable memory does not begin at 0, and a page is a power of two.
ASSUME AreasAssumption ==
    /\ Places \subseteq Nat \ {0} /\ Exported \in [DOMAIN Exported -> Nat] /\ SYM_SIZE \in Nat
    /\ page_size \in Nat \ {0} /\ \E n \in 0..30 : page_size = 2^n

\* What a linker writes: alignments are powers of two, the symbols have names,
\* neither table is code, and what is moved names nothing that is not.
WellFormed(f) ==
    /\ f.sections \in Seq([name : STRING, flags : SUBSET {"alloc", "exec", "write"}, align : Nat, size : Nat, file : BOOLEAN])
    /\ f.symbols \in Seq([sec : SHN_ABS .. Len(f.sections), value : Int, name : STRING])
    /\ f.relocations \in Seq([sec : DOMAIN f.sections, offset : Nat, sym : DOMAIN f.symbols, addend : Int, type : STRING])
    /\ \A i \in DOMAIN f.sections :
          /\ f.sections[i].align = 0 \/ \E n \in 0..30 : f.sections[i].align = 2^n
          /\ f.sections[i].name \in {".symtab", ".strtab"} => "exec" \notin f.sections[i].flags
    /\ Section(f, ".symtab") # 0 => Section(f, ".strtab") # 0
    /\ \A i \in DOMAIN f.relocations :
          LET sec == f.symbols[f.relocations[i].sym].sec
          IN  "alloc" \in f.sections[f.relocations[i].sec].flags /\ sec \in DOMAIN f.sections => Allocated(f, sec)

ASSUME FilesAssumption == \A f \in ObjectFiles : WellFormed(f)

Go(pc) == loading' = [loading EXCEPT !.pc = pc]

\* load_module() up to the layout; it may end for want of memory.
load_module(f) ==
    /\ loading = NoLoad /\ Len(mods) < MaxLoaded
    /\ setup_load_info(f) = 0 /\ find_module(f.name) = 0
    /\ LET mod == [file |-> f, start |-> 0, layout |-> Layout(f), text |-> <<>>, ctl_args |-> FALSE]
       IN  \/ loading' = [mod |-> mod, pc |-> "move"] /\ vmem' = vmem \cup {<<f.name, "module">>, <<f.name, "args">>}
           \/ loading' = [mod |-> mod, pc |-> "free1"] /\ vmem' = vmem \cup {<<f.name, "module">>}
    /\ UNCHANGED <<mods, exec_mem>>

move_module ==
    LET size == loading.mod.layout.size
    IN  /\ loading.pc = "move"
        /\ \/ Go("free") /\ UNCHANGED exec_mem
           \/ \E start \in FreePlaces(size) :
                 /\ loading' = [loading EXCEPT !.pc = "link", !.mod.start = start]
                 /\ exec_mem' = exec_mem \cup {<<start, size>>}
        /\ UNCHANGED <<mods, vmem>>

\* simplify_symbols() and apply_relocations()
Link ==
    LET mod == loading.mod
        linked == apply_relocations(mod.file, mod.layout, mod.start)
    IN  /\ loading.pc = "link"
        /\ IF simplify_symbols(mod.file) # 0 THEN Go("free")
           ELSE \E rc \in linked.rcs :
                   IF rc # 0 THEN Go("free")
                   ELSE loading' = [loading EXCEPT !.pc = "init", !.mod.text = linked.text]
        /\ UNCHANGED <<mods, exec_mem, vmem>>

\* init(), and exit() of a module that does not start.
Start ==
    /\ loading.pc = "init"
    /\ \/ loading' = NoLoad /\ mods' = Append(mods, loading.mod)
       \/ Go("free") /\ UNCHANGED mods
    /\ UNCHANGED <<exec_mem, vmem>>

\* The labels free and free1: what was taken is given back.
FreeLoading ==
    LET mod == loading.mod
    IN  /\ loading.pc \in {"free", "free1"} /\ loading' = NoLoad
        /\ vmem' = vmem \ ({<<mod.file.name, "module">>}
                             \cup (IF loading.pc = "free" THEN {<<mod.file.name, "args">>} ELSE {}))
        /\ exec_mem' = IF mod.start = 0 THEN exec_mem ELSE exec_mem \ {<<mod.start, mod.layout.size>>}
        /\ UNCHANGED mods

unload_module(name) ==
    LET i == find_module(name)
    IN  /\ loading = NoLoad /\ i # 0 /\ mods' = RemoveAt(mods, i)
        /\ exec_mem' = exec_mem \ {<<mods[i].start, mods[i].layout.size>>}
        /\ vmem' = vmem \ ({<<name, "args">>, <<name, "module">>}
                             \cup (IF mods[i].ctl_args THEN {<<name, "ctl_args">>} ELSE {}))
        /\ UNCHANGED loading

\* module_control0(): the arguments stay until the next ones; without memory
\* for them there are none.
module_control0(name) ==
    LET i == find_module(name)
    IN  /\ loading = NoLoad /\ i # 0 /\ Section(mods[i].file, ".kpm.ctl0") # 0
        /\ \E enough \in BOOLEAN :
              /\ mods' = [mods EXCEPT ![i].ctl_args = enough]
              /\ vmem' = (vmem \ {<<name, "ctl_args">>}) \cup (IF enough THEN {<<name, "ctl_args">>} ELSE {})
        /\ UNCHANGED <<exec_mem, loading>>

KpmModulesNext ==
    \/ \E f \in ObjectFiles : load_module(f)
    \/ move_module \/ Link \/ Start \/ FreeLoading
    \/ \E name \in {f.name : f \in ObjectFiles} : unload_module(name) \/ module_control0(name)

KpmModulesSpec == KpmModulesInit /\ [][KpmModulesNext]_kpmModulesVars

-----------------------------------------------------------------------------
\* What the processor makes of a field: sign, split fields, scale.
Signed(x, len) == IF x >= 2^(len - 1) THEN x - 2^len ELSE x
Operand(t, field) == IF t.imm_type = ADR THEN field.hi * 4 + field.lo ELSE field

Refers(type, place, target, field) ==
    LET t == RelocTypes[type]
        wanted == do_reloc(t.op, place, target)
        operand == Operand(t, field)
    IN  CASE t.form = "data" -> IF t.len = 16 THEN wanted \in {operand, Signed(operand, 16)}
                                ELSE wanted = field
          [] t.form = "movw" -> IF t.check THEN Shr(wanted, t.lsb) = operand
                                ELSE Low(Shr(wanted, t.lsb), 16) = operand
          [] t.form = "imm" -> IF t.len + t.lsb = 12 THEN Shr(Low(wanted, 12), t.lsb) = operand
                               ELSE /\ Low(Shr(wanted, t.lsb), t.len) = operand
                                    /\ t.check => Shr(wanted, t.lsb) = Signed(operand, t.len)

\* The list has no name twice, no two modules overlap, and what is allocated
\* belongs to a module of the list.
AreasKept ==
    /\ \A m, n \in DOMAIN mods : mods[m].file.name = mods[n].file.name => m = n
    /\ loading = NoLoad => exec_mem = {<<mods[m].start, mods[m].layout.size>> : m \in DOMAIN mods}
    /\ \A m, n \in DOMAIN mods :
          m # n => Disjoint(<<mods[m].start, mods[m].layout.size>>, <<mods[n].start, mods[n].layout.size>>)
    /\ loading = NoLoad => {v[1] : v \in vmem} = {mods[m].file.name : m \in DOMAIN mods}

\* Every module in the list is linked: its sections are where no other is,
\* aligned as they ask, code before and written data behind the read-only
\* pages, and each field that refers to a symbol means the place the symbol
\* was moved to or the loader exports, near or far; where the relocation asks
\* for no test, as much of it as the field can hold.
ModulesLinked ==
    /\ AreasKept
    /\ \A m \in DOMAIN mods :
          LET f == mods[m].file
              l == mods[m].layout
              kept == {i \in DOMAIN f.sections : Allocated(f, i)}
          IN  /\ \A i, j \in kept : i # j => Disjoint(<<l.at[i], f.sections[i].size>>, <<l.at[j], f.sections[j].size>>)
              /\ \A i \in kept :
                    /\ l.at[i] >= 0 /\ l.at[i] + f.sections[i].size <= l.size
                    /\ f.sections[i].align # 0 => l.at[i] % f.sections[i].align = 0
                    /\ "exec" \in f.sections[i].flags => l.at[i] + f.sections[i].size <= l.text_size
                    /\ "write" \in f.sections[i].flags /\ "exec" \notin f.sections[i].flags => l.at[i] >= l.ro_size
              /\ \A i \in DOMAIN mods[m].text :
                    LET r == f.relocations[i]
                        s == f.symbols[r.sym]
                        target == CASE s.sec = SHN_UNDEF -> Exported[s.name]
                                    [] s.sec = SHN_ABS -> s.value
                                    [] OTHER -> mods[m].start + l.at[s.sec] + s.value
                    IN  Refers(r.type, mods[m].start + l.at[r.sec] + r.offset, target + r.addend, mods[m].text[i])
=============================================================================
