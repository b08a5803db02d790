------------------------------ MODULE RcInject ------------------------------
(***************************************************************************)
(* The injection of init scripts by kernel/runtime/ksud_integration.c.     *)
(*                                                                         *)
(* When pid 1 reads init.rc, the read and fstat system calls are hooked:   *)
(* fstat reports a larger size, and the first read replaces the file's     *)
(* operations by proxies that, once the file itself is exhausted, go on    *)
(* with KernelSU's own script and then with the script of the modules.     *)
(* pid 1 is one thread and may pass any buffer sizes.                      *)
(*                                                                         *)
(* The bytes of the file and of the two scripts are numbered in the order  *)
(* they should arrive: 1 .. OrigLen, then RcLen more, then the modules'.   *)
(***************************************************************************)
EXTENDS Integers, Sequences

CONSTANTS
    OrigLen,    \* size of init.rc
    RcLen,      \* ksu_rc_len
    ModSizes,   \* sizes that the modules' script can have
    Counts,     \* buffer sizes that pid 1 passes
    MaxFaults   \* bound: faults while copying from or to pid 1

ASSUME RcAssumption ==
    /\ OrigLen \in Nat
    /\ RcLen \in Nat \ {0}
    /\ ModSizes \subseteq Nat
    /\ Counts \subseteq Nat \ {0}
    /\ MaxFaults \in Nat

VARIABLES
    hook,           \* "table": the system calls are hooked; "proxy": the file is
    iter,           \* the file has read_iter (and not read)
    loaded,         \* load_module_rc_once() has run
    mod_size,       \* what it found: bytes of the modules' script
    module_rc_buf,  \* the buffer is allocated
    module_rc_len, module_rc_pos, ksu_rc_pos,
    fpos,           \* position in init.rc itself
    size,           \* the size fstat reported, or -1: none, or not adjusted
    out,            \* the bytes pid 1 has received
    asked, given,   \* the last read's buffer size and result
    eof,            \* a read without a fault has returned 0
    faults

loadVars == <<loaded, mod_size, module_rc_buf, module_rc_len>>
vars == <<hook, iter, loadVars, module_rc_pos, ksu_rc_pos, fpos, size, out,
          asked, given, eof, faults>>

\* The smaller of two numbers.
Least(a, b) == IF a <= b THEN a ELSE b

-----------------------------------------------------------------------------
Init ==
    /\ hook = "table"
    /\ iter \in BOOLEAN
    /\ loaded = FALSE /\ mod_size = 0
    /\ module_rc_buf = FALSE /\ module_rc_len = 0 /\ module_rc_pos = 0
    /\ ksu_rc_pos = 0
    /\ fpos = 0
    /\ size = -1
    /\ out = <<>>
    /\ asked = 0 /\ given = 0
    /\ eof = FALSE
    /\ faults = 0

\* The script is looked for once; without it, or without memory, or when
\* it is disabled or unreadable, there is none (size 0).
load_module_rc_once ==
    \/ loaded /\ UNCHANGED loadVars
    \/ /\ ~loaded /\ loaded' = TRUE
       /\ \E n \in ModSizes \cup {0} :
             /\ mod_size' = n
             /\ module_rc_len' = n
             /\ module_rc_buf' = (n > 0)

-----------------------------------------------------------------------------
\* ksu_sys_fstat(), before the first read unhooks it.
Fstat ==
    /\ hook = "table"
    /\ load_module_rc_once
    /\ size' = OrigLen + RcLen + module_rc_len'
    /\ UNCHANGED <<hook, iter, module_rc_pos, ksu_rc_pos, fpos, out,
                   asked, given, eof, faults>>

\* The adjustment of the size faults.
FstatFault ==
    /\ hook = "table"
    /\ faults < MaxFaults /\ faults' = faults + 1
    /\ load_module_rc_once
    /\ size' = -1
    /\ UNCHANGED <<hook, iter, module_rc_pos, ksu_rc_pos, fpos, out, asked, given, eof>>

\* ksu_install_rc_hook(), on the way into the first read.
InstallHook ==
    /\ hook = "table"
    /\ hook' = "proxy"
    /\ load_module_rc_once
    /\ UNCHANGED <<iter, module_rc_pos, ksu_rc_pos, fpos, size, out,
                   asked, given, eof, faults>>

-----------------------------------------------------------------------------
(* read_proxy() and read_iter_proxy() *)

\* The two jumps at the start of a read.
InStatic == ksu_rc_pos # 0 /\ ksu_rc_pos < RcLen
InModule == ksu_rc_pos >= RcLen /\ module_rc_pos < module_rc_len
AllDone  == ksu_rc_pos >= RcLen /\ module_rc_pos >= module_rc_len

\* The n bytes of the stream that follow the first k, and what a copy from
\* a buffer that is gone yields.
Bytes(k, n) == [i \in 1..n |-> k + i]
Stale(n) == [i \in 1..n |-> 0]

\* A read of `count' bytes that returns `ret'.
Proxied(count, ret) ==
    /\ hook = "proxy"
    /\ asked' = count /\ given' = ret
    /\ UNCHANGED <<hook, iter, loaded, mod_size, size>>

\* orig_read() delivers, possibly less than asked for.
ReadOrig(count) ==
    /\ ~InStatic /\ ~InModule
    /\ fpos < OrigLen
    /\ \E n \in 1..Least(count, OrigLen - fpos) :
          /\ Proxied(count, n)
          /\ out' = out \o Bytes(fpos, n)
          /\ fpos' = fpos + n
    /\ UNCHANGED <<module_rc_buf, module_rc_len, module_rc_pos, ksu_rc_pos, eof, faults>>

ReadEnd(count) ==
    /\ ~InStatic /\ ~InModule
    /\ fpos = OrigLen
    /\ AllDone
    /\ Proxied(count, 0)
    /\ eof' = TRUE
    /\ UNCHANGED <<module_rc_buf, module_rc_len, module_rc_pos, ksu_rc_pos, fpos, out,
                   faults>>

Appending == InStatic \/ InModule \/ (fpos = OrigLen /\ ~AllDone)

\* What fits of each script into a buffer of `count'.
StaticPart(count) == Least(RcLen - ksu_rc_pos, count)

ModulePart(count) == Least(module_rc_len - module_rc_pos, count - StaticPart(count))

\* Mutant: the buffer is released while bytes are still missing.
AdvanceAndFree(pos) ==
    /\ module_rc_pos' = pos
    /\ module_rc_buf' = FALSE
    /\ UNCHANGED module_rc_len

\* free_module_rc() when the last byte is out.
AdvanceModule(pos) ==
    /\ module_rc_pos' = pos
    /\ IF pos = module_rc_len /\ pos # module_rc_pos
       THEN module_rc_buf' = FALSE /\ module_rc_len' = 0
       ELSE UNCHANGED <<module_rc_buf, module_rc_len>>

\* s bytes of KernelSU's script, then m of the modules', reach the reader.
Deliver(count, s, m) ==
    /\ Appending
    /\ Proxied(count, s + m)
    /\ ksu_rc_pos' = ksu_rc_pos + s
    /\ AdvanceModule(module_rc_pos + m)
    /\ LET static == out \o Bytes(OrigLen + ksu_rc_pos, s)
       IN  \/ module_rc_buf /\ out' = static \o Bytes(OrigLen + RcLen + module_rc_pos, m)
           \/ ~module_rc_buf /\ out' = static \o Stale(m)
    /\ UNCHANGED fpos

ReadAppend(count) ==
    /\ Deliver(count, StaticPart(count), ModulePart(count))
    /\ eof' = (eof \/ given' = 0)
    /\ UNCHANGED faults

\* A fault on the way: copy_to_user() then counts for nothing,
\* copy_to_iter() for what it copied, and nothing is copied after it.
ReadStaticFault(count, s) ==
    /\ faults < MaxFaults /\ faults' = faults + 1
    /\ s < StaticPart(count) /\ (iter \/ s = 0)
    /\ Deliver(count, s, 0)
    /\ UNCHANGED eof

ReadModuleFault(count, m) ==
    /\ faults < MaxFaults /\ faults' = faults + 1
    /\ m < ModulePart(count) /\ (iter \/ m = 0)
    /\ Deliver(count, StaticPart(count), m)
    /\ UNCHANGED eof

-----------------------------------------------------------------------------
ReadNext(count) ==
    \/ ReadOrig(count) \/ ReadEnd(count) \/ ReadAppend(count)
    \/ \E n \in 0..count : ReadStaticFault(count, n) \/ ReadModuleFault(count, n)

Next == Fstat \/ FstatFault \/ InstallHook \/ \E count \in Counts : ReadNext(count)

Spec == Init /\ [][Next]_vars

-----------------------------------------------------------------------------
(* Properties *)

Total == OrigLen + RcLen + mod_size

(* Positions stay within the file and the two scripts.                     *)
TypeOK ==
    /\ hook \in {"table", "proxy"} /\ iter \in BOOLEAN
    /\ loaded \in BOOLEAN /\ mod_size \in Nat
    /\ module_rc_buf \in BOOLEAN /\ module_rc_len \in {0, mod_size}
    /\ module_rc_pos \in 0..mod_size
    /\ ksu_rc_pos \in 0..RcLen
    /\ fpos \in 0..OrigLen
    /\ size \in Nat \cup {-1}
    /\ out \in Seq(Nat)
    /\ asked \in Nat /\ given \in Nat /\ eof \in BOOLEAN
    /\ faults \in 0..MaxFaults

(* Whatever the sizes of the reads and wherever one faults, pid 1 receives *)
(* init.rc, KernelSU's script and the modules' script in this order, each  *)
(* byte once, none from a released buffer.                                 *)
StreamExact ==
    /\ Len(out) <= Total
    /\ \A i \in 1..Len(out) : out[i] = i

(* A read without a fault returns 0 only when everything has been          *)
(* delivered: pid 1 never takes a pause in the stream for its end.         *)
EofAtEnd == eof => Len(out) = Total

(* The size that ksu_sys_fstat() made of the file's before the first read  *)
(* is the number of bytes that the reads deliver.                          *)
FstatAgrees == eof /\ size # -1 => size = Len(out)

(* No read fills more than the buffer pid 1 passed.                        *)
WithinBuffer == given <= asked

(* What pid 1 sees of init.rc is one file: read_proxy() and                *)
(* read_iter_proxy() deliver the stream in order and once, in pieces that  *)
(* fit the buffer, end it at its end, and ksu_sys_fstat() foretold its     *)
(* length.                                                                 *)
InjectionExact == StreamExact /\ EofAtEnd /\ FstatAgrees /\ WithinBuffer
=============================================================================
