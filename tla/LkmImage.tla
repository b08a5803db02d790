------------------------------ MODULE LkmImage ------------------------------
(***************************************************************************)
(* The injection of kernelsu.ko into a kernel Image (lkm_image.rs), and    *)
(* the boot of the patched Image (lkm_image_bootstrap.S).                  *)
(*                                                                         *)
(* Three calls of the kernel are redirected into a bootstrap that is       *)
(* linked into the zero padding behind the text; the module travels in a   *)
(* capsule behind the Image. The bootstrap keeps each call, makes the      *)
(* kernel reserve the capsule, and has it load the module before init.     *)
(*                                                                         *)
(* A cell of the Image is an instruction; addresses count cells. Symbols   *)
(* are those of Kallsyms. The sizes of the formats are scaled: 16 bytes    *)
(* are two cells, a page is four.                                          *)
(***************************************************************************)
EXTENDS Kallsyms

CONSTANT Places     \* where the kernel may run: [slide, phys, memstart]

VARIABLES
    lkm,        \* the inputs: the Image with what its build knows, and the module
    lstep,      \* input, refused, patched, then the boot's phases, and over
    patched,    \* the patched Image: [text, base, size, capsule, code]
    place,      \* where it runs
    pc, stack,  \* the next instruction, and where calls return to
    arg,        \* what load_module() and strndup_user() get as user arguments
    reserved,   \* size of the reservation for the kernel
    calls,      \* history: the kernel's functions that were called
    loads       \* history: what load_module() was given

lkmVars == <<lkm, lstep, patched, place, pc, stack, arg, reserved, calls, loads>>

\* Range of a branch, alignments, and bounds of a scan, in cells.
BlRange == 90
Align16 == 2
Page == 4
ScanMax == 12
CapsuleHeader == 2

Instr(op, a, b, c) == [op |-> op, a |-> a, b |-> b, c |-> c]
Zero == Instr("zero", 0, 0, 0)

Up(n, to) == ((n + to - 1) \div to) * to

\* The names, as Kallsyms spells them.
_stext == <<10>>
_etext == <<11>>
linux_banner == <<12>>
arm64_memblock_init == <<13>>
memblock_reserve == <<14>>
memstart_addr == <<15>>
kimage_voffset == <<16>>
kernel_init == <<17>>
async_synchronize_full == <<18>>
async_synchronize_cookie_domain == <<19>>
strndup_user == <<20>>
vmalloc == <<21>>
vmalloc_noprof == <<22>>
memcpy == <<23>>
kstrdup == <<24>>

Required ==
    {_text, _end, _stext, _etext, linux_banner, arm64_memblock_init, memblock_reserve, memstart_addr,
     kimage_voffset, kernel_init, async_synchronize_full, load_module, strndup_user, memcpy, kstrdup}

\* Every required symbol has one address; the only one that may have another
\* name is vmalloc.
RequiredFound(symbols) ==
    /\ \A name \in Required : resolve(symbols, name) # {}
    /\ resolve(symbols, vmalloc) \cup resolve(symbols, vmalloc_noprof) # {}

Address(symbols, name) == CHOOSE a \in resolve(symbols, name) : TRUE
Vmalloc(symbols) ==
    IF resolve(symbols, vmalloc) # {} THEN Address(symbols, vmalloc) ELSE Address(symbols, vmalloc_noprof)

\* In what follows s are the symbols and t is the text of the Image.
Base(s) == Address(s, _text)

validate_image_bounds(s, size) ==
    /\ Address(s, _end) - Base(s) = size
    /\ \A a \in {Address(s, name) : name \in Required \ {_end}} \cup {Vmalloc(s)} :
          a - Base(s) \in 0..(size - 1)

-----------------------------------------------------------------------------
(* The places to patch. *)

Supported == {"5.10", "5.15", "6.1", "6.6", "6.12"}

\* Storage and offsets for struct load_info: BTF's, or those that are built in.
BuiltIn == [storage |-> 16, size |-> 16, hdr |-> 1, len |-> 2]
apply_btf(btf) == [storage |-> Up(Max({btf.size, BuiltIn.size}), Align16), size |-> btf.size,
                   hdr |-> btf.hdr, len |-> btf.len]
validate(abi) ==
    /\ abi.storage \in 1..64
    /\ abi.hdr < abi.size /\ abi.len < abi.size
Abi(l) == IF l.btf THEN apply_btf(l.load_info) ELSE BuiltIn
recover_gki_abi(l) == l.release \in Supported /\ validate(Abi(l))

decode_bl_target(i, at) == IF i.op = "BL" THEN {at + i.a} ELSE {}
encode_bl(from, to) == Instr("BL", to - from, 0, 0)
InRange(from, to) == to - from \in (-BlRange)..(BlRange - 1)

\* Offsets of a function's cells: up to the next symbol.
function_scan_range(t, s, fn) ==
    LET from == fn - Base(s)
        behind == {x[1] - Base(s) : x \in {y \in s : y[1] > fn}}
    IN  {o \in from..(from + ScanMax - 1) : o < Len(t) /\ \A e \in behind : o < e}

CallsTo(t, s, fn, targets) ==
    {c \in [at : function_scan_range(t, s, fn), target : targets] :
        c.target \in decode_bl_target(Cell(t, c.at), Base(s) + c.at)}

find_unique_direct_call(t, s, fn, targets) ==
    IF Cardinality(CallsTo(t, s, fn, targets)) = 1 THEN CallsTo(t, s, fn, targets) ELSE {}

\* The call for [kernel_start, _end) is the one behind a size in x1 and a
\* start in x0 that are differences with the same register.
find_kernel_image_memblock_reserve_call(t, s, fn, targets) ==
    LET from == fn - Base(s)
        semantic == {c \in CallsTo(t, s, fn, targets) :
                        /\ c.at >= from + 2
                        /\ LET size == Cell(t, c.at - 2)
                               start == Cell(t, c.at - 1)
                           IN  /\ size.op = "SUB" /\ start.op = "SUB"
                               /\ size.a = 1 /\ start.a = 0
                               /\ size.c = start.b /\ size.c # 31}
    IN  IF Cardinality(semantic) = 1 THEN semantic ELSE {}

\* An immediate, its source and its destination.
decode_orr_immediate(i) == IF i.op = "ORR" THEN {i} ELSE {}

\* PAGE_OFFSET: the one high mask that is ORed into a register and that the
\* Image's base has.
infer_page_offset(t, s, fn) ==
    LET masks == {i.a : i \in {j \in UNION {decode_orr_immediate(Cell(t, o)) : o \in function_scan_range(t, s, fn)} :
                                  j.b = j.c /\ j.a > 0 /\ Base(s) >= j.a}}
    IN  IF Cardinality(masks) = 1 THEN masks ELSE {}

analyze_patch_sites(t, s) ==
    LET of(names) == UNION {variants(s, name) \cup resolve(s, name) : name \in names}
    IN  [async : find_unique_direct_call(t, s, Address(s, kernel_init),
                     of({async_synchronize_full, async_synchronize_cookie_domain})),
         strndup : find_unique_direct_call(t, s, Address(s, load_module), of({strndup_user})),
         reserve : find_kernel_image_memblock_reserve_call(t, s, Address(s, arm64_memblock_init),
                       of({memblock_reserve})),
         page_offset : infer_page_offset(t, s, Address(s, arm64_memblock_init))]

\* The first offset, page aligned if possible, behind which the text is zero
\* and has no symbol but its end, if size cells fit.
find_text_tail_cave(t, s, size) ==
    LET end == Address(s, _etext) - Base(s)
        from == Address(s, _stext) - Base(s)
        zero == Min({o \in from..end : \A e \in o..(end - 1) : Cell(t, e) = Zero})
        fits(o) ==
            /\ o + size <= end
            /\ \A x \in s : x[1] - Base(s) \in o..(end - 1) => x[2] = _etext
        good == {o \in {Up(zero, Page), Up(zero, Align16)} : fits(o)}
    IN  IF end <= from \/ end > Len(t) THEN {}
        ELSE IF Up(zero, Page) \in good THEN {Up(zero, Page)} ELSE good

-----------------------------------------------------------------------------
(* Module, capsule, bootstrap. *)

\* Undefined symbols of the module that the kernel has, by their index.
collect_module_fixups(module, s, size) ==
    {f \in [at : DOMAIN module, offset : 0..(size - 1)] :
        /\ module[f.at].shndx = "UNDEF"
        /\ Base(s) + f.offset \in resolve(s, module[f.at].name)}

build_capsule(size, module, fixups) ==
    LET at == Up(size, Align16)
        fixupAt == CapsuleHeader + Up(Len(module), Align16)
        newSize == Up(at + fixupAt + Cardinality(fixups), Page)
    IN  [at |-> at, size |-> newSize - at, moduleAt |-> CapsuleHeader, module |-> module,
         fixupAt |-> fixupAt, fixups |-> fixups]

\* The object of lkm_image_bootstrap.S: relocations by place. BL and B are
\* CALL26 and JUMP26, REL an ADRP and its ADD, LIT a literal (ABS64, ABS32).
Bootstrap == <<
    <<"BL", "async_synchronize_full">>, <<"REL", "image_base">>, <<"REL", "kimage_voffset">>,
    <<"LIT", "capsule_image_offset">>, <<"REL", "memstart_addr">>, <<"LIT", "page_offset">>,
    <<"LIT", "capsule_size">>, <<"LIT", "module_capsule_offset">>, <<"LIT", "module_size">>,
    <<"LIT", "fixup_capsule_offset">>, <<"LIT", "fixup_count">>, <<"BL", "vmalloc">>, <<"BL", "memcpy">>,
    <<"LIT", "load_info_size">>, <<"LIT", "load_info_hdr_offset">>, <<"LIT", "load_info_len_offset">>,
    <<"REL", "empty_args">>, <<"BL", "load_module">>,
    <<"LIT", "reserve_extension">>, <<"B", "memblock_reserve">>,
    <<"REL", "empty_args">>, <<"B", "strndup_user">>, <<"BL", "kstrdup">>, <<"DATA", "">> >>

Entry == 0
ReserveWrapper == 18
StrndupAdapter == 20
EmptyArgs == 23

\* Mutant: without the gap between the Image and the capsule.
CapsuleOnly(l, capsule) == capsule.size

reserve_extension(l, capsule) == capsule.at + capsule.size - l.size

Definitions(l, s, sites, capsule, code) ==
    [async_synchronize_full |-> sites.async.target, image_base |-> Base(s),
     kimage_voffset |-> Address(s, kimage_voffset), capsule_image_offset |-> capsule.at,
     memstart_addr |-> Address(s, memstart_addr), page_offset |-> sites.page_offset,
     capsule_size |-> capsule.size, module_capsule_offset |-> capsule.moduleAt,
     module_size |-> Len(l.module), fixup_capsule_offset |-> capsule.fixupAt,
     fixup_count |-> Cardinality(capsule.fixups), vmalloc |-> Vmalloc(s), memcpy |-> Address(s, memcpy),
     load_info_size |-> Abi(l).storage, load_info_hdr_offset |-> Abi(l).hdr, load_info_len_offset |-> Abi(l).len,
     load_module |-> Address(s, load_module), reserve_extension |-> reserve_extension(l, capsule),
     memblock_reserve |-> sites.reserve.target, strndup_user |-> sites.strndup.target,
     kstrdup |-> Address(s, kstrdup), empty_args |-> code + EmptyArgs]

\* A branch holds the distance, an ADRP the distance of the pages and its ADD
\* the offset in the page.
apply_bootstrap_relocation(type, at, value) ==
    CASE type \in {"BL", "B"} -> Instr(type, value - at, 0, 0)
      [] type = "REL" -> Instr(type, value \div Page - at \div Page, value % Page, 0)
      [] type = "LIT" -> Instr(type, value, 0, 0)
      [] OTHER -> Instr(type, 0, 0, 0)

link(definitions, code) ==
    [i \in DOMAIN Bootstrap |->
        LET r == Bootstrap[i] IN
        apply_bootstrap_relocation(r[1], code + i - 1, IF r[1] = "DATA" THEN 0 ELSE definitions[r[2]])]

Overlap(from, size, at) == at \in from..(from + size - 1)

\* What replaces the cells of the Image.
Patches(sites, base, code, cave, linked) ==
    [o \in {sites.async.at, sites.strndup.at, sites.reserve.at} \cup (cave..(cave + Len(linked) - 1)) |->
        CASE o \in cave..(cave + Len(linked) - 1) -> linked[o - cave + 1]
          [] o = sites.async.at -> encode_bl(base + o, code + Entry)
          [] o = sites.strndup.at -> encode_bl(base + o, code + StrndupAdapter)
          [] o = sites.reserve.at -> encode_bl(base + o, code + ReserveWrapper)]

-----------------------------------------------------------------------------
LkmInit ==
    /\ lstep = "input"
    /\ patched = [text |-> <<>>, base |-> 0, size |-> 0, capsule |-> build_capsule(0, <<>>, {}), code |-> 0]
    /\ place = [slide |-> 0, phys |-> 0, memstart |-> 0]
    /\ pc = 0 /\ stack = <<>> /\ arg = 0 /\ reserved = 0 /\ calls = <<>> /\ loads = <<>>

BootVars == <<place, pc, stack, arg, reserved, calls, loads>>

inject_image ==
    LET t == lkm.text
        s == lkm.symbols
        capsule == build_capsule(lkm.size, lkm.module, collect_module_fixups(lkm.module, s, lkm.size))
        caves == find_text_tail_cave(t, s, Len(Bootstrap))
        found ==
            /\ Len(t) <= lkm.size
            /\ RequiredFound(s)
            /\ validate_image_bounds(s, lkm.size)
            /\ recover_gki_abi(lkm)
            /\ analyze_patch_sites(t, s) # {}
            /\ \E i \in DOMAIN lkm.module : lkm.module[i].shndx = "UNDEF"
            /\ caves # {}
    IN  /\ lstep = "input"
        /\ IF ~found THEN lstep' = "refused" /\ UNCHANGED patched
           ELSE LET sites == CHOOSE x \in analyze_patch_sites(t, s) : TRUE
                    cave == CHOOSE o \in caves : TRUE
                    code == Base(s) + cave
                    linked == link(Definitions(lkm, s, sites, capsule, code), code)
                    new == Patches(sites, Base(s), code, cave, linked)
                    size == Address(s, _etext) - code
                IN  IF /\ \A c \in {sites.async, sites.strndup, sites.reserve} :
                              InRange(Base(s) + c.at, code) /\ ~Overlap(cave, size, c.at)
                       /\ \A i \in DOMAIN linked : linked[i].op \in {"BL", "B"} => InRange(0, linked[i].a)
                       /\ Cardinality({sites.async.at, sites.strndup.at, sites.reserve.at}) = 3
                    THEN /\ lstep' = "patched"
                         /\ patched' = [text |-> [i \in DOMAIN t |-> IF i - 1 \in DOMAIN new THEN new[i - 1] ELSE t[i]],
                                        base |-> Base(s), size |-> capsule.at + capsule.size, capsule |-> capsule, code |-> code]
                    ELSE lstep' = "refused" /\ UNCHANGED patched
        /\ UNCHANGED <<lkm, BootVars>>

-----------------------------------------------------------------------------
(* The boot of the patched Image. Addresses below are those of the link,   *)
(* and the kernel runs place.slide above them.                             *)

ImageBase == patched.base
Fetch(at) == Cell(patched.text, at - ImageBase)
NameOf(at) == {x[2] : x \in {y \in lkm.symbols : y[1] = at}}
Leaves == {async_synchronize_full, async_synchronize_cookie_domain, strndup_user, memblock_reserve,
           vmalloc, vmalloc_noprof, memcpy, kstrdup}

\* Run-time address that word k of the bootstrap refers to, and its literal.
Refers(k) ==
    LET at == patched.code + k + place.slide
        w == Fetch(patched.code + k)
    IN  IF w.op = "REL" THEN (at \div Page + w.a) * Page + w.b ELSE at + w.a
Literal(k) == Fetch(patched.code + k).a

\* An address of user space.
UserArgs == 5

StartKernel ==
    /\ lstep = "patched"
    /\ lstep' = "memblock"
    /\ place' \in Places
    /\ pc' = Address(lkm.symbols, arm64_memblock_init)
    /\ stack' = <<>>
    /\ UNCHANGED <<lkm, patched, arg, reserved, calls, loads>>

\* One instruction of the kernel's own functions. A leaf is one of the
\* functions that are called here; it is logged and returns.
Return ==
    /\ pc' = IF stack = <<>> THEN pc ELSE Head(stack)
    /\ stack' = IF stack = <<>> THEN stack ELSE Tail(stack)

InBootstrap == pc \in patched.code..(patched.code + Len(Bootstrap) - 1)
Running == lstep \in {"memblock", "init", "user"}

\* Whether the reservation of the kernel is about to be made: [start, _end).
ForKernel == Fetch(pc - 1).op = "SUB" /\ Fetch(pc - 2).op = "SUB"
KernelSize == Address(lkm.symbols, _end) - ImageBase

Execute ==
    /\ Running /\ ~InBootstrap
    /\ Fetch(pc).op # "RET"
    /\ IF Fetch(pc).op = "BL"
       THEN LET to == pc + Fetch(pc).a IN
            IF NameOf(to) \cap Leaves # {}
            THEN /\ calls' = Append(calls, to)
                 /\ reserved' = IF ForKernel /\ memblock_reserve \in NameOf(to) THEN KernelSize ELSE reserved
                 /\ pc' = pc + 1
                 /\ UNCHANGED stack
            ELSE /\ pc' = to
                 /\ stack' = <<pc + 1>> \o stack
                 /\ UNCHANGED <<calls, reserved>>
       ELSE pc' = pc + 1 /\ UNCHANGED <<stack, calls, reserved>>
    /\ UNCHANGED <<lkm, lstep, patched, place, arg, loads>>

\* The end of one of the kernel's functions; the boot goes on with the next.
ExecuteReturn ==
    /\ Running /\ ~InBootstrap
    /\ Fetch(pc).op = "RET"
    /\ IF stack # <<>> THEN Return /\ UNCHANGED <<lstep, arg, loads>>
       ELSE CASE lstep = "memblock" ->
                    /\ lstep' = "init" /\ pc' = Address(lkm.symbols, kernel_init)
                    /\ UNCHANGED <<stack, arg, loads>>
              [] lstep = "init" ->
                    /\ lstep' = "user" /\ pc' = Address(lkm.symbols, load_module)
                    /\ arg' = UserArgs
                    /\ UNCHANGED <<stack, loads>>
              [] lstep = "user" -> lstep' = "over" /\ UNCHANGED <<pc, stack, arg, loads>>
    /\ UNCHANGED <<lkm, patched, place, reserved, calls>>

\* The call of the wrapper came from the reservation of the kernel.
ksu_memblock_reserve_wrapper ==
    /\ Running /\ pc = patched.code + ReserveWrapper
    /\ reserved' = KernelSize + Literal(ReserveWrapper)
    /\ calls' = Append(calls, Refers(ReserveWrapper + 1) - place.slide)
    /\ Return
    /\ UNCHANGED <<lkm, lstep, patched, place, arg, loads>>

\* kstrdup() for the arguments of the bootstrap, and else what the kernel
\* called.
ksu_strndup_user_adapter ==
    /\ Running /\ pc = patched.code + StrndupAdapter
    /\ calls' = Append(calls, Refers(StrndupAdapter + IF arg = Refers(StrndupAdapter) THEN 2 ELSE 1) - place.slide)
    /\ Return
    /\ UNCHANGED <<lkm, lstep, patched, place, arg, reserved, loads>>

\* The bootstrap computes where the linear map has the capsule. It is still
\* there if the kernel reserved it, and its header must be the expected one.
CapsuleFound ==
    LET voffset == ImageBase + place.slide - place.phys
        virt == Refers(1) - voffset + Literal(3) - place.memstart + Literal(5)
        c == patched.capsule
    IN  /\ virt - lkm.page_offset + place.memstart = place.phys + c.at
        /\ c.at + c.size <= reserved
        /\ Refers(2) = Address(lkm.symbols, kimage_voffset) + place.slide
        /\ Refers(4) = Address(lkm.symbols, memstart_addr) + place.slide
        /\ <<c.size, c.moduleAt, Len(c.module), c.fixupAt, Cardinality(c.fixups)>> =
               <<Literal(6), Literal(7), Literal(8), Literal(9), Literal(10)>>

\* The copy of the module, its fixups applied.
FixedUp ==
    LET c == patched.capsule IN
    [i \in DOMAIN c.module |->
        IF \E f \in c.fixups : f.at = i
        THEN [c.module[i] EXCEPT !.shndx = "ABS",
                                 !.value = Refers(1) + (CHOOSE f \in c.fixups : f.at = i).offset]
        ELSE c.module[i]]

\* What load_module() finds at its own offsets of a zeroed load_info.
LoadInfo ==
    LET storage == [o \in 0..(Literal(13) - 1) |->
                       IF o = Literal(14) THEN "module" ELSE IF o = Literal(15) THEN "length" ELSE "zero"]
        at(o) == IF o \in DOMAIN storage THEN storage[o] ELSE "stack"
    IN  <<at(lkm.load_info.hdr), at(lkm.load_info.len), at(lkm.load_info.size - 1) # "stack">>

\* The call that was there, then the load of the module, which returns to
\* where the bootstrap was called.
ksu_bootstrap ==
    /\ Running /\ pc = patched.code + Entry
    /\ LET log == Append(calls, Refers(0) - place.slide) IN
       IF ~CapsuleFound THEN calls' = log /\ Return /\ UNCHANGED <<arg, loads>> ELSE
       \/ /\ calls' = log \o <<Refers(11) - place.slide, Refers(12) - place.slide>>
          /\ loads' = Append(loads, [module |-> FixedUp, info |-> LoadInfo])
          /\ arg' = Refers(16)
          /\ pc' = Refers(17) - place.slide
          /\ UNCHANGED stack
       \/ \* vmalloc() fails
          /\ calls' = Append(log, Refers(11) - place.slide)
          /\ Return
          /\ UNCHANGED <<arg, loads>>
    /\ UNCHANGED <<lkm, lstep, patched, place, reserved>>

LkmNext ==
    \/ inject_image \/ StartKernel \/ Execute \/ ExecuteReturn
    \/ ksu_memblock_reserve_wrapper \/ ksu_strndup_user_adapter \/ ksu_bootstrap

-----------------------------------------------------------------------------
\* Calls that the kernel made before it was patched, in a function.
OwnCalls(name) ==
    LET s == lkm.symbols
        in == function_scan_range(lkm.text, s, Address(s, name))
        targets == [i \in 1..Cardinality(in) |-> decode_bl_target(Cell(lkm.text, Min(in) + i - 1), Base(s) + Min(in) + i - 1)]
    IN  FlattenSeq([i \in DOMAIN targets |-> SetToSeq(targets[i])])

\* A call of load_module() by the bootstrap: its arguments are duplicated in
\* the kernel.
LoadCalls ==
    LET s == lkm.symbols IN
    [i \in DOMAIN OwnCalls(load_module) |->
        IF OwnCalls(load_module)[i] \in variants(s, strndup_user)
        THEN Address(s, kstrdup) ELSE OwnCalls(load_module)[i]]

IsAsync(a) == a \in variants(lkm.symbols, async_synchronize_full) \cup variants(lkm.symbols, async_synchronize_cookie_domain)

\* A patched kernel boots as before, wherever it runs: it makes each of its
\* calls, in order, and after the one for asynchronous probes it loads the
\* module once, if there is memory for it. The capsule is reserved, the
\* symbols that the kernel has are the module's at their addresses, and the
\* others are as they were; load_module() finds module and length where it
\* looks for them, and the modules that are loaded later are loaded as ever.
BootsWithModule ==
    LET s == lkm.symbols
        init == OwnCalls(kernel_init)
        k == CHOOSE i \in DOMAIN init : IsAsync(init[i])
        Boot(inserted) ==
            OwnCalls(arm64_memblock_init) \o SubSeq(init, 1, k) \o inserted
            \o SubSeq(init, k + 1, Len(init)) \o OwnCalls(load_module)
        value(name) == {a + place.slide : a \in {b \in resolve(s, name) : b - Base(s) \in 0..(lkm.size - 1)}}
        fixed(e) == IF e.shndx = "UNDEF" /\ value(e.name) # {}
                    THEN [e EXCEPT !.shndx = "ABS", !.value = CHOOSE v \in value(e.name) : TRUE] ELSE e
    IN  /\ lstep = "refused" => lkm.odd
        /\ lstep = "over" =>
              /\ reserved = patched.size
              /\ \/ loads = <<>> /\ calls = Boot(<<Vmalloc(s)>>)
                 \/ /\ loads = <<[module |-> [i \in DOMAIN lkm.module |-> fixed(lkm.module[i])],
                                  info |-> <<"module", "length", TRUE>>]>>
                    /\ calls = Boot(<<Vmalloc(s), Address(s, memcpy)>> \o LoadCalls)
=============================================================================
