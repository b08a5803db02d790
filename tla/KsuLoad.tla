------------------------------ MODULE KsuLoad ------------------------------
(***************************************************************************)
(* How ksuinit, and ksud's late load, load kernelsu.ko into a running      *)
(* kernel (ksuinit/src/lib.rs, load_module): the symbols that the module   *)
(* leaves undefined are set from /proc/kallsyms, and a module that the     *)
(* kernel refuses for its version magic is given the one that the kernel   *)
(* logged, and is tried once more.                                         *)
(*                                                                         *)
(* A module is [symbols, modinfo]: entries [name, shndx, value], and the   *)
(* strings of .modinfo, where <<"vermagic", v>> is one.                    *)
(***************************************************************************)
EXTENDS Integers, Sequences, FiniteSets, FiniteSetsExt, SequencesExt

CONSTANTS
    KoModules,      \* modules of the instance
    RunningKernels, \* kernels: [lines of kallsyms, exported, vermagic, kptr]
    Noise           \* what others log, and how often

VARIABLES
    running,    \* the kernel
    buffer,     \* the copy of the module that is loaded
    given,      \* the module as it was given
    kstate,     \* symbols, log, try, failed, retry, loaded or refused
    kptr,       \* kptr_restrict
    kmsg,       \* records of the kernel's log
    mark,       \* where the log is read from; 0 if it cannot be read
    noise       \* records of others so far

loadVars == <<running, buffer, given, kstate, kptr, kmsg, mark, noise>>

\* kallsyms up to the first symbol of a module: a line has a fourth word then.
kernel_symbols_iter ==
    LET last == {i \in DOMAIN running.lines : running.lines[i].module}
    IN  IF last = {} THEN running.lines ELSE SubSeq(running.lines, 1, Min(last) - 1)

\* The first line of a name; what follows a "$" or ".llvm." is not part of it.
Lines == kernel_symbols_iter
FirstLine(name) == {i \in DOMAIN Lines : Lines[i].base = name /\ \A j \in 1..(i - 1) : Lines[j].base # name}

LoadInit ==
    /\ kstate = "symbols" /\ kmsg = <<>> /\ mark = 0 /\ noise = 0
    /\ running \in RunningKernels /\ given \in KoModules
    /\ buffer = given /\ kptr = running.kptr

\* kptr_restrict is 1 while the table is read.
resolve_symbols ==
    /\ kstate = "symbols"
    /\ IF \A i \in DOMAIN buffer.symbols : buffer.symbols[i].shndx # "UNDEF"
       THEN kstate' = "log" /\ UNCHANGED <<buffer, kptr>>
       ELSE \/ kptr = running.kptr /\ kptr' = 1 /\ UNCHANGED <<buffer, kstate>>
            \/ /\ kptr = 1
               /\ buffer' = [buffer EXCEPT !.symbols =
                     [i \in DOMAIN @ |->
                         LET e == @[i]
                             line == FirstLine(e.name)
                         IN  IF e.shndx = "UNDEF" /\ line # {}
                             THEN [e EXCEPT !.shndx = "ABS", !.value = Lines[CHOOSE l \in line : TRUE].addr] ELSE e]]
               /\ kptr' = running.kptr
               /\ kstate' = "log"
            \/ kptr' = running.kptr /\ kstate' = "refused" /\ UNCHANGED buffer
    /\ UNCHANGED <<running, given, kmsg, mark, noise>>

open_kmsg_at_end ==
    /\ kstate = "log"
    /\ mark' \in {0, Len(kmsg) + 1}
    /\ kstate' = "try"
    /\ UNCHANGED <<running, buffer, given, kptr, kmsg, noise>>

\* The kernel compares the magic first, then resolves what is undefined.
init_module ==
    LET good == <<"vermagic", running.vermagic>> \in Range(buffer.modinfo)
        linked == \A i \in DOMAIN buffer.symbols :
                      buffer.symbols[i].shndx = "UNDEF" => buffer.symbols[i].name \in running.exported
    IN  /\ kstate \in {"try", "retry"}
        /\ IF good /\ linked THEN kstate' = "loaded" /\ UNCHANGED kmsg
           ELSE /\ kstate' = IF kstate = "try" THEN "failed" ELSE "refused"
                /\ kmsg' = Append(kmsg, IF good THEN <<"unknown", "symbol">> ELSE <<"magic", running.vermagic>>)
        /\ UNCHANGED <<running, buffer, given, kptr, mark, noise>>

\* The last of the new records that names the magic that is required.
extract_required_vermagic(records) ==
    LET named == {i \in DOMAIN records : records[i][1] = "magic"}
    IN  IF named = {} THEN {} ELSE {records[Max(named)][2]}

\* The first one is replaced, the others go; without one it is appended.
replace_module_vermagic(modinfo, required) ==
    LET first == {i \in DOMAIN modinfo : modinfo[i][1] = "vermagic" /\ \A j \in 1..(i - 1) : modinfo[j][1] # "vermagic"}
        new == [i \in DOMAIN modinfo |->
                   IF i \in first THEN <<<<"vermagic", required>>>>
                   ELSE IF modinfo[i][1] = "vermagic" THEN <<>> ELSE <<modinfo[i]>>]
    IN  IF first = {} THEN Append(modinfo, <<"vermagic", required>>) ELSE FlattenSeq(new)

load_module_failed ==
    LET required == IF mark = 0 THEN {} ELSE extract_required_vermagic(SubSeq(kmsg, mark, Len(kmsg)))
    IN  /\ kstate = "failed"
        /\ IF required = {} \/ buffer.modinfo = <<>> THEN kstate' = "refused" /\ UNCHANGED buffer
           ELSE /\ kstate' = "retry"
                /\ buffer' = [buffer EXCEPT !.modinfo = replace_module_vermagic(@, CHOOSE v \in required : TRUE)]
        /\ UNCHANGED <<running, given, kptr, kmsg, mark, noise>>

\* Others log too; the kernel refuses their modules for the same magic.
OtherLogs ==
    /\ noise < Noise /\ kstate \notin {"loaded", "refused"}
    /\ \E record \in {<<"other", "">>, <<"magic", running.vermagic>>} : kmsg' = Append(kmsg, record)
    /\ noise' = noise + 1
    /\ UNCHANGED <<running, buffer, given, kstate, kptr, mark>>

LoadNext ==
    \/ resolve_symbols \/ open_kmsg_at_end \/ init_module \/ load_module_failed \/ OtherLogs
    \/ kstate \in {"loaded", "refused"} /\ UNCHANGED loadVars

-----------------------------------------------------------------------------
\* A module that is loaded has the addresses of the kernel's symbols, the
\* magic of the kernel and else its own strings in their order; one that only
\* had another magic is refused for want of the log alone; and kptr_restrict
\* is as it was, however it ends.
LoadedExact ==
    LET Plain(modinfo) == SelectSeq(modinfo, LAMBDA e : e[1] # "vermagic")
        of(name) == {running.lines[i].addr : i \in {j \in DOMAIN running.lines :
                        running.lines[j].base = name /\ ~running.lines[j].module}}
    IN  /\ kstate \notin {"symbols"} => kptr = running.kptr
        /\ kstate = "loaded" =>
              /\ <<"vermagic", running.vermagic>> \in Range(buffer.modinfo)
              /\ Plain(buffer.modinfo) = Plain(given.modinfo)
              /\ \A i \in DOMAIN given.symbols :
                    LET was == given.symbols[i]
                        now == buffer.symbols[i]
                    IN  IF was.shndx = "UNDEF" /\ of(was.name) # {}
                        THEN now.shndx = "ABS" /\ now.value \in of(was.name) ELSE now = was
        /\ kstate = "refused" /\ mark # 0 /\ given.modinfo # <<>> =>
              \E i \in DOMAIN given.symbols : given.symbols[i].shndx = "UNDEF"
                  /\ of(given.symbols[i].name) = {} /\ given.symbols[i].name \notin running.exported
=============================================================================
