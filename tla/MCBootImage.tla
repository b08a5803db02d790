---------------------------- MODULE MCBootImage ----------------------------
(***************************************************************************)
(* Instance of what ksud does with boot images: the kernel that it         *)
(* analyses (Kallsyms, KernelBtf) and patches (LkmImage), the partitions   *)
(* that it patches and restores (BootPatch), and the load of the module by *)
(* the init that it puts there (KsuLoad). A behaviour is one of one part,  *)
(* with the others at rest.                                                *)
(***************************************************************************)
EXTENDS KernelBtf, LkmImage, BootPatch, KsuLoad

VARIABLE part

Sym(a, k, n) == [addr |-> a, kind |-> k, name |-> n]
KBase == 1024
KSize == 120

\* An Image: header, blobs of BTF, junk, the table, and another complete one.
MCImage(blobs, junk, list, old, uleb, percpu, twin) ==
    LET body == <<ImageMagic, KSize>> \o blobs \o junk \o Table(list, KBase, old, uleb, percpu)
        second == Table(<<Sym(KBase, T, _text), Sym(KBase + 1, T, load_module), Sym(KBase + KSize, T, _end)>>,
                        KBase, old, uleb, FALSE)
    IN  [image |-> IF twin THEN body \o second ELSE body,
         symbols |-> SymbolsOf(list), other |-> twin]

MCLists(at) ==
    LET plain == <<Sym(KBase, T, _text), Sym(KBase + 3, T, load_module), Sym(KBase + KSize, T, _end)>>
        local == <<Sym(KBase, T, _text), Sym(KBase + 3, T, load_module), Sym(KBase + 9, T, <<Letter, Suffix, 2>>),
                   Sym(KBase + KSize, T, _end)>>
        long == <<Sym(KBase, T, _text), Sym(KBase + 3, T, load_module), Sym(KBase + 9, T, <<4, 4, 4, 3, 2>>),
                   Sym(KBase + 9, T, <<3, 4, 4>>), Sym(KBase + KSize, T, _end)>>
        btf == <<Sym(KBase, T, _text), Sym(KBase + at, T, __start_BTF), Sym(KBase + at + 4, T, __stop_BTF),
                 Sym(KBase + 50, T, load_module), Sym(KBase + KSize, T, _end)>>
        absolute == <<Sym(0, Absolute, <<3, 3>>), Sym(4, Absolute, <<2, 3>>)>>
    IN  {plain, local, long, btf} \cup {absolute \o plain, absolute \o btf}

MCKernels ==
    {MCImage(blobs, junk, list, old, uleb, list[1].kind = Absolute, twin) :
        <<blobs, junk, list, old, uleb, twin>> \in
            {<<>>, <<BtfMagic, 4, 1, 1>>, <<BtfMagic, 4, 1, 1, BtfMagic, 2, 0, 0>>}
            \X {<<>>, <<0, 4>>, <<KBase, 0>>, <<3, 0, 0, 4>>}
            \X MCLists(2) \X BOOLEAN \X BOOLEAN \X BOOLEAN}

-----------------------------------------------------------------------------
MCBase == 1024
At(o) == MCBase + o
I(op) == Instr(op, 0, 0, 0)
Call(from, to) == Instr("BL", to - from, 0, 0)

\* Functions of the Image, with their offsets: kernel_init, load_module and
\* arm64_memblock_init are the ones that are scanned.
MCText(asyncs, strndups, kernelSub, masks, pad) ==
    LET body == <<I("header"), I("header"), I("other")>>
            \o [i \in 1..2 |-> IF i \in asyncs THEN Call(2 + i, 18 + i) ELSE I("other")]
            \o <<I("RET"), I("other")>>
            \o [i \in 1..2 |-> IF i \in strndups THEN Call(6 + i, 21) ELSE Call(6 + i, 24)]
            \o <<I("RET")>>
            \o <<Instr("ORR", masks[1], 1, 1), Instr("ORR", masks[2], 2, 2), Call(12, 22),
                 Instr("SUB", 1, 3, 4), Instr("SUB", 0, kernelSub, 3), Call(15, 22), I("RET")>>
            \o [i \in 1..9 |-> I("other")]
    IN  body \o [i \in 1..pad |-> Zero] \o [i \in 1..4 |-> I("data")]

MCSymbols(extra, pad, noprof) ==
    {<<At(0), _text>>, <<At(2), _stext>>, <<At(2), kernel_init>>, <<At(6), load_module>>, <<At(10), arm64_memblock_init>>,
     <<At(17), <<99>>>>, <<At(19), async_synchronize_full>>, <<At(20), async_synchronize_cookie_domain>>,
     <<At(21), strndup_user>>, <<At(22), memblock_reserve>>, <<At(23), IF noprof THEN vmalloc_noprof ELSE vmalloc>>,
     <<At(24), memcpy>>, <<At(25), kstrdup>>, <<At(26 + pad), _etext>>, <<At(26 + pad), linux_banner>>, <<At(27 + pad), memstart_addr>>,
     <<At(28 + pad), kimage_voffset>>, <<At(35 + pad), _end>>} \cup extra

Und(name) == [name |-> name, shndx |-> "UNDEF", value |-> 0]
MCModules == <<
    <<Und(memcpy), Und(<<50>>), [name |-> kernel_init, shndx |-> "DEF", value |-> 3]>>,
    <<Und(<<Letter>>), Und(<<51>>), Und(kstrdup), Und(<<52>>)>> >>

\* What may differ: which calls there are, the register of the kernel's
\* start, the masks, the padding, further symbols, vmalloc's name, struct
\* load_info, and the module.
Plain == [asyncs |-> {1}, strndups |-> {1}, start |-> 4, masks |-> <<512, 0>>, pad |-> 30, extra |-> {},
          noprof |-> FALSE, info |-> 16, module |-> 1]
Usual == {[Plain EXCEPT !.asyncs = a, !.strndups = {3 - b}, !.masks = <<512, m>>, !.pad = p, !.info = i, !.module = k,
                        !.noprof = (a = {2}), !.extra = x] :
             a \in {{1}, {2}}, b \in {1, 2}, m \in {0, 2048}, p \in {27, 30}, i \in {16, 20}, k \in {1, 2},
             x \in {{}, {<<At(18), <<51, Suffix, 1>>>>, <<At(17), <<52>>>>, <<At(18), <<52>>>>}}}
Odd == {[Plain EXCEPT !.asyncs = {1, 2}], [Plain EXCEPT !.asyncs = {}], [Plain EXCEPT !.strndups = {1, 2}],
        [Plain EXCEPT !.start = 5], [Plain EXCEPT !.masks = <<512, 256>>], [Plain EXCEPT !.pad = 20],
        [Plain EXCEPT !.extra = {<<At(27), <<60>>>>}], [Plain EXCEPT !.info = 70],
        [Plain EXCEPT !.extra = {<<At(8), kstrdup>>}]}

MCInputs ==
    {[text |-> MCText(in.asyncs, in.strndups, in.start, in.masks, in.pad), size |-> 35 + in.pad,
      symbols |-> MCSymbols(in.extra, in.pad, in.noprof), release |-> "6.6", btf |-> in.info # 16,
      load_info |-> [size |-> in.info, hdr |-> IF in.info = 16 THEN 1 ELSE 3, len |-> IF in.info = 16 THEN 2 ELSE 19],
      module |-> MCModules[in.module], page_offset |-> 512, odd |-> in \in Odd] :
     in \in Usual \cup Odd}
MCPlaces == {[slide |-> 0, phys |-> 64, memstart |-> 64], [slide |-> 8, phys |-> 100, memstart |-> 32]}

-----------------------------------------------------------------------------
Ty(kind, name, ref, n, elems) == [kind |-> kind, name |-> name, ref |-> ref, size |-> n, elems |-> elems]
Mem(name, ref, at) == [name |-> name, ref |-> ref, at |-> at, bits |-> FALSE]
MCSimple == {Ty("INT", "long", 0, 8, <<>>), Ty("INT", "int", 0, 4, <<>>)}
         \cup {Ty("PTR", "anon", r, 0, <<>>) : r \in {0, 4}}
         \cup {Ty(k, "t", r, 0, <<>>) : k \in {"TYPEDEF"}, r \in 0..3}
         \cup {Ty("ARRAY", "anon", 0, n, <<Mem("x", r, 0)>>) : n \in {1, 2}, r \in 1..3}
MCThird == {Ty("INT", "long", 0, 8, <<>>), Ty("TYPEDEF", "t", 1, 0, <<>>)}
MCInfo == {Ty("STRUCT", "load_info", 0, 24, <<Mem("hdr", h, ha), Mem("len", l, 128)>>) : h \in {1, 2}, l \in {2}, ha \in {0, 64, 68}}
MCTail == {<<>>, <<Ty("FUNC_PROTO", "anon", 0, 0, <<Mem("a", 1, 0), Mem("b", 2, 0), Mem("c", 3, 0)>>), Ty("FUNC", "load_module", 5, 0, <<>>)>>,
           <<Ty("STRUCT", "load_info", 0, 24, <<Mem("hdr", 1, 64), Mem("len", 2, 128)>>)>>}
Header(types, extra) == [magic |-> TRUE, length |-> 2, typeAt |-> 0, typeLength |-> TypesLength(types) + extra,
    stringsAt |-> TypesLength(types), stringsLength |-> 2, data |-> 4 + TypesLength(types)]
MCBlobs == {[header |-> Header(<<p[1], p[2], p[3], p[4]>> \o p[5], p[6]), types |-> <<p[1], p[2], p[3], p[4]>> \o p[5]] :
      p \in MCSimple \X MCSimple \X MCThird \X MCInfo \X MCTail \X {0, 1}}

-----------------------------------------------------------------------------
\* Arguments of boot-patch: first a file without root, then with root.
Args(flash, ota, file) ==
    [flash |-> flash, ota |-> ota, file |-> file, out |-> ~flash, backup |-> FALSE, no_install |-> FALSE,
     kernel |-> FALSE, kpimg |-> FALSE, config |-> {}, adb |-> FALSE, partition |-> ""]
InPlace == Args(TRUE, FALSE, FALSE)
MCPatchArgs ==
    {Args(FALSE, FALSE, TRUE), [Args(FALSE, FALSE, TRUE) EXCEPT !.backup = TRUE],
     InPlace, [InPlace EXCEPT !.backup = TRUE], [InPlace EXCEPT !.ota = TRUE],
     [InPlace EXCEPT !.no_install = TRUE, !.config = {"norc=1"}, !.adb = TRUE], [InPlace EXCEPT !.kernel = TRUE],
     [InPlace EXCEPT !.kpimg = TRUE, !.partition = "boot", !.config = {"allow_shell=1"}]}

\* A device without init_boot, and one with; two versions of each.
OemKernel(kmi) == [kmi |-> kmi, by |-> "oem"]
OldDevice(v) == [partitions |-> [boot |-> [kernel |-> OemKernel("android12-5.10"), cpio |-> "init" :> v]]]
NewDevice(v, kmi) == [partitions |-> [boot |-> [kernel |-> OemKernel(kmi), cpio |-> <<>>],
                                      init_boot |-> [kernel |-> NoKernel, cpio |-> "init" :> v]]]
MCFirmwares == {OldDevice("init1"), OldDevice("init2"),
                NewDevice("init1", "android13-5.15"), NewDevice("init2", "android14-6.1")}

-----------------------------------------------------------------------------
Line(base, addr, module) == [base |-> base, addr |-> addr, module |-> module]
MCRunningKernels ==
    {[lines |-> lines, exported |-> {"printk"}, vermagic |-> "6.1", kptr |-> k] :
        k \in {0, 2}, lines \in {<<Line("vfs", 1, FALSE), Line("vfs", 2, FALSE), Line("sel", 3, FALSE)>>,
                                  <<Line("sel", 1, FALSE), Line("vfs", 9, TRUE)>>}}
Undefined(name) == [name |-> name, shndx |-> "UNDEF", value |-> 0]
MCKoModules ==
    {[symbols |-> symbols, modinfo |-> modinfo] :
        symbols \in {<<Undefined("vfs"), Undefined("printk")>>, <<Undefined("sel"), [name |-> "vfs", shndx |-> "DEF", value |-> 7]>>,
                     <<[name |-> "vfs", shndx |-> "DEF", value |-> 7]>>},
        modinfo \in {<<<<"license", "GPL">>, <<"vermagic", "6.1">>>>, <<<<"vermagic", "5.10">>, <<"license", "GPL">>>>,
                     <<<<"license", "GPL">>>>, <<>>,
                     <<<<"vermagic", "5.10">>, <<"license", "GPL">>, <<"vermagic", "6.1x">>, <<"name", "ksu">>>>}}

-----------------------------------------------------------------------------
Parts == {"kallsyms", "btf", "lkm", "patch", "load"}

Init ==
    /\ part \in Parts
    /\ KallsymsInit /\ LkmInit
    /\ IF part = "kallsyms" THEN kernel \in MCKernels ELSE kernel = 0
    /\ IF part = "lkm" THEN lkm \in MCInputs ELSE lkm = 0
    /\ IF part = "btf" THEN BtfInit ELSE blob = 0 /\ bstep = "none" /\ layout = {}
    /\ BootInit
    /\ part = "patch" \/ device["a"] = OldDevice("init1").partitions
    /\ IF part = "load" THEN LoadInit
       ELSE /\ running = 0 /\ buffer = 0 /\ given = 0 /\ kstate = 0 /\ kptr = 0 /\ kmsg = 0 /\ mark = 0 /\ noise = 0

Next ==
    /\ UNCHANGED part
    /\ \/ part = "kallsyms" /\ KallsymsNext /\ UNCHANGED <<btfVars, lkmVars, bootVars, loadVars>>
       \/ part = "btf" /\ BtfNext /\ UNCHANGED <<kallsymsVars, lkmVars, bootVars, loadVars>>
       \/ part = "lkm" /\ LkmNext /\ UNCHANGED <<kallsymsVars, btfVars, bootVars, loadVars>>
       \/ part = "patch" /\ BootNext /\ UNCHANGED <<kallsymsVars, btfVars, lkmVars, loadVars>>
       \/ part = "load" /\ LoadNext /\ UNCHANGED <<kallsymsVars, btfVars, lkmVars, bootVars>>

Spec == Init /\ [][Next]_<<part, kallsymsVars, btfVars, lkmVars, bootVars, loadVars>>

-----------------------------------------------------------------------------
\* What ksud recovers from a kernel Image, its symbols (SymbolsExact) and the
\* layout of struct load_info (LoadInfoExact), is the kernel's own.
MetadataExact == SymbolsExact /\ (part = "btf" => LoadInfoExact)

\* The module is loaded as it should be, by the patched kernel (BootsWithModule)
\* and by ksuinit (LoadedExact).
ModuleLoaded == (part = "lkm" => BootsWithModule) /\ (part = "load" => LoadedExact)
=============================================================================
