------------------------------- MODULE Hooks -------------------------------
(***************************************************************************)
(* How the module gets into the kernel and out again: the entries of the   *)
(* system call table it replaces and the dispatcher behind one of them     *)
(* (hook/arm64/syscall_hook.c, hook/syscall_hook_manager.c), the LSM slot  *)
(* (hook/lsm_hook.c), the selinuxfs slots of selinux_hide                  *)
(* (feature/selinux_hide.c), the feature handlers (policy/feature.c), and  *)
(* the order of kernelsu_init() and kernelsu_exit() (core/init.c).         *)
(*                                                                         *)
(* A function that patches slots is a sequence of steps, and other tasks   *)
(* call through the slots between any two of them.  The initialization and *)
(* the exit run in one thread ("life"), the ioctl that sets a feature in   *)
(* another ("ioctl"), under feature_mutex.                                 *)
(***************************************************************************)
EXTENDS Naturals, FiniteSets, Sequences, SequencesExt

CONSTANTS
    Tasks,      \* tasks that make system calls
    Nrs,        \* the system calls that go through the dispatcher
    Symbols,    \* the symbols that can be missing in this run
    MaxEntries, \* ARRAY_SIZE(hooked_entries)
    MaxFaults,  \* slots and symbols that are missing in one run
    MaxSets     \* how often the feature is set

TableSlots == {"ni", "read", "fstat"}
HideSlots == {"context_write", "access_write"}
Slots == TableSlots \cup HideSlots \cup {"status_open", "setprocattr"}

ASSUME HooksAssumption ==
    /\ Symbols \subseteq {"sys_call_table", "ni_syscall", "write_op", "sel_handle_status_ops",
                          "selinux_setprocattr"}
    /\ MaxEntries \in Nat /\ MaxSets \in Nat
    /\ MaxEntries >= 3 \* room for every entry of TableSlots
    /\ IsFiniteSet(Nrs)

Threads == {"life", "ioctl"}
Features == {"su_compat", "kernel_umount", "sulog", "adb_root", "selinux_hide"}
None == "none"
Unhooked == "unhooked" \* a system call no hook is registered for

VARIABLES
    unmapped,   \* slots whose page ksu_patch_text() does not find
    missing,    \* symbols this kernel does not have
    late,       \* ksu_late_loaded
    slot,       \* "kernel" or "ksu": whom a slot calls
    orig,       \* the saved pointer of each slot, or None
    hooked_entries, \* table slots to restore
    lsm_entry, lsm_tracked, \* ksu_lsm_hook.entry, and its place in the tracking table
    syscall_hooks, dispatcher, tracepoint,
    probes,     \* kprobes and kretprobes
    feature_handlers,
    enabled, running, backup, \* selinux_hide: asked for, hooked, and backup_sepolicy
    fake, fake_key, \* fake_status with the enforcing bit it shows; its static key
    enforcing,  \* the kernel's own status page: None before it exists
    work,       \* the steps each thread still has to do
    phase,      \* "init", "live", "exit", "gone"
    sets, call, enosys, nullCall

hideVars == <<enabled, running, backup, fake, fake_key>>
tableVars == <<hooked_entries, syscall_hooks, dispatcher, tracepoint>>
regVars == <<probes, feature_handlers>>
lsmVars == <<lsm_entry, lsm_tracked>>
envVars == <<unmapped, missing, late>>
callVars == <<call, enosys, nullCall>>
vars == <<envVars, slot, orig, tableVars, lsmVars, regVars, hideVars, enforcing, work,
          phase, sets, callVars>>

-----------------------------------------------------------------------------
(* Functions as sequences of steps *)

\* ksu_syscall_hook_init(): the number is known before the entry is patched.
ksu_syscall_hook_init ==
    <<<<"find_slot">>, <<"record", "ni">>, <<"patch_table", "ni">>>>

\* ksu_syscall_hook_manager_init(), with ksu_setuid_hook_init() and
\* ksu_sucompat_init() at its end.
ksu_syscall_hook_manager_init ==
    <<<<"probe", "regfunc">>, <<"probe", "unregfunc">>>>
    \o SetToSeq({<<"register", nr>> : nr \in Nrs})
    \o <<<<"trace">>, <<"feature", "kernel_umount">>, <<"feature", "su_compat">>>>

\* ksu_ksud_init(): the boot-time hooks.
ksu_ksud_init ==
    <<<<"record", "read">>, <<"patch_table", "read">>,
      <<"record", "fstat">>, <<"patch_table", "fstat">>, <<"probe", "input">>>>

\* kernelsu_init(): what registers, patches or allocates, in its order.
kernelsu_init ==
    ksu_syscall_hook_init
    \o <<<<"feature", "sulog">>, <<"feature", "adb_root">>, <<"feature", "selinux_hide">>,
         <<"fake_init">>, <<"save_status">>, <<"patch_status">>, <<"probe", "reboot">>>>
    \o (IF late THEN <<<<"rules">>>> \o ksu_syscall_hook_manager_init
        ELSE ksu_syscall_hook_manager_init \o ksu_ksud_init)
    \o <<<<"live">>>>

\* ksu_selinux_hide_enable() and ksu_lsm_hook().  The LSM slot is patched
\* before hook->original and hook->entry are set.
ksu_selinux_hide_enable ==
    <<<<"check_enable">>, <<"save_status">>, <<"patch_status">>,
      <<"save", "context_write">>, <<"patch", "context_write">>,
      <<"save", "access_write">>, <<"patch", "access_write">>,
      <<"lsm_track">>, <<"lsm_patch">>, <<"lsm_set">>, <<"running", TRUE>>>>

\* Mutant: the first failure ends the function, without the label "unhook".
NothingUndone == <<>>

\* ksu_selinux_hide_unhook(): each slot is restored, then its pointer dropped.
ksu_selinux_hide_unhook ==
    <<<<"restore", "context_write">>, <<"restore", "access_write">>,
      <<"restore", "status_open">>, <<"lsm_restore">>, <<"lsm_untrack">>>>

\* ksu_syscall_hook_exit(): all recorded entries, then the tables.
ksu_syscall_hook_exit ==
    <<<<"restore_table", "ni">>, <<"restore_table", "read">>, <<"restore_table", "fstat">>,
      <<"clear_hooks">>>>

\* ksu_syscall_hook_manager_exit().
ksu_syscall_hook_manager_exit ==
    <<<<"untrace">>, <<"unprobe", "regfunc">>, <<"unprobe", "unregfunc">>>>
    \o SetToSeq({<<"unregister", nr>> : nr \in Nrs})
    \o ksu_syscall_hook_exit
    \o <<<<"unfeature", "su_compat">>, <<"unfeature", "kernel_umount">>>>

\* kernelsu_exit(), with the exits it calls: ksu_selinux_hide_exit() unhooks
\* only when the feature runs, ksu_lsm_hook_exit() what is still tracked.
kernelsu_exit ==
    ksu_syscall_hook_manager_exit
    \o <<<<"unprobe", "reboot">>>>
    \o (IF late THEN <<>> ELSE <<<<"unprobe", "input">>>>)
    \o (IF running THEN ksu_selinux_hide_unhook \o <<<<"running", FALSE>>>> ELSE <<>>)
    \o <<<<"unfeature", "selinux_hide">>, <<"fake_free">>, <<"lsm_restore">>, <<"lsm_untrack">>,
         <<"unfeature", "adb_root">>, <<"unfeature", "sulog">>, <<"gone">>>>

Init ==
    /\ unmapped \in {{}} \cup {{s} : s \in Slots}
    /\ missing \in {{}} \cup {{y} : y \in Symbols}
    /\ Cardinality(unmapped) + Cardinality(missing) <= MaxFaults
    /\ late \in BOOLEAN
    /\ slot = [s \in Slots |-> "kernel"] /\ orig = [s \in Slots |-> None]
    /\ hooked_entries = <<>> /\ lsm_entry = FALSE /\ lsm_tracked = FALSE
    /\ syscall_hooks = {} /\ dispatcher = FALSE /\ tracepoint = FALSE
    /\ probes = {} /\ feature_handlers = {}
    /\ enabled = FALSE /\ running = FALSE /\ backup = FALSE
    /\ fake = None /\ fake_key = FALSE
    /\ enforcing \in {None, "permissive", "enforcing"}
    /\ work = [t \in Threads |-> IF t = "life" THEN kernelsu_init ELSE <<>>]
    /\ phase = "init" /\ sets = 0
    /\ call = [t \in Tasks |-> None] /\ enosys = FALSE /\ nullCall = {}

-----------------------------------------------------------------------------
(* The steps *)

Step(t, name) == work[t] # <<>> /\ Head(work[t])[1] = name
Arg(t) == Head(work[t])[2]
Done(t) == work' = [work EXCEPT ![t] = Tail(@)]

\* ksu_patch_text(): stop_machine() makes it one step; it fails when the
\* address is in no page table.
ksu_patch_text(s, fn) ==
    slot' = IF s \in unmapped THEN slot ELSE [slot EXCEPT ![s] = fn]

Found(y) == y \notin missing

\* ksu_find_ni_syscall_slots(), and memset(syscall_hooks).
ksu_find_ni_syscall_slots(t) ==
    /\ Step(t, "find_slot") /\ Done(t)
    /\ dispatcher' = (Found("sys_call_table") /\ Found("ni_syscall"))
    /\ UNCHANGED <<envVars, slot, orig, hooked_entries, syscall_hooks, tracepoint, lsmVars,
                   regVars, hideVars, enforcing, phase, sets, callVars>>

\* ksu_syscall_table_hook() up to the patch: the original is saved and the
\* entry recorded once.
TableRecord(t) ==
    /\ Step(t, "record") /\ Done(t)
    /\ LET s == Arg(t)
           hooks == Found("sys_call_table") /\ (s = "ni" => dispatcher)
       IN  /\ orig' = IF hooks THEN [orig EXCEPT ![s] = slot[s]] ELSE orig
           /\ hooked_entries' = IF hooks /\ s \notin Range(hooked_entries)
                                            /\ Len(hooked_entries) < MaxEntries
                                THEN Append(hooked_entries, s) ELSE hooked_entries
    /\ UNCHANGED <<envVars, slot, syscall_hooks, dispatcher, tracepoint, lsmVars, regVars,
                   hideVars, enforcing, phase, sets, callVars>>

\* patch_syscall_table(): its result is not looked at.
patch_syscall_table(t) ==
    /\ Step(t, "patch_table") /\ Done(t)
    /\ IF Found("sys_call_table") /\ (Arg(t) = "ni" => dispatcher)
       THEN ksu_patch_text(Arg(t), "ksu") ELSE slot' = slot
    /\ UNCHANGED <<envVars, orig, tableVars, lsmVars, regVars, hideVars, enforcing, phase, sets,
                   callVars>>

\* Restores one recorded entry at exit.
RestoreTable(t) ==
    /\ Step(t, "restore_table") /\ Done(t)
    /\ IF Arg(t) \in Range(hooked_entries) THEN ksu_patch_text(Arg(t), "kernel") ELSE slot' = slot
    /\ UNCHANGED <<envVars, orig, tableVars, lsmVars, regVars, hideVars, enforcing, phase, sets,
                   callVars>>

ClearHooks(t) ==
    /\ Step(t, "clear_hooks") /\ Done(t)
    /\ hooked_entries' = <<>> /\ syscall_hooks' = {} /\ dispatcher' = FALSE
    /\ UNCHANGED <<envVars, slot, orig, tracepoint, lsmVars, regVars, hideVars, enforcing, phase,
                   sets, callVars>>

\* ksu_register_syscall_hook(), ksu_unregister_syscall_hook().
RouteHook(t) ==
    /\ Step(t, "register") \/ Step(t, "unregister")
    /\ Done(t)
    /\ syscall_hooks' = IF Step(t, "register") THEN syscall_hooks \cup {Arg(t)}
                        ELSE syscall_hooks \ {Arg(t)}
    /\ UNCHANGED <<envVars, slot, orig, hooked_entries, dispatcher, tracepoint, lsmVars, regVars,
                   hideVars, enforcing, phase, sets, callVars>>

\* register_trace_prio_sys_enter(); the unregistration waits until no handler
\* of the tracepoint runs any more, but not for the calls it redirected.
TraceHook(t) ==
    /\ Step(t, "trace") \/ Step(t, "untrace")
    /\ Done(t)
    /\ tracepoint' = Step(t, "trace")
    /\ UNCHANGED <<envVars, slot, orig, hooked_entries, syscall_hooks, dispatcher, lsmVars,
                   regVars, hideVars, enforcing, phase, sets, callVars>>

\* init_kretprobe(), destroy_kretprobe(), ksu_supercalls_init() and _exit().
ProbeHook(t) ==
    /\ Step(t, "probe") \/ Step(t, "unprobe")
    /\ Done(t)
    /\ probes' = IF Step(t, "probe") THEN probes \cup {Arg(t)} ELSE probes \ {Arg(t)}
    /\ UNCHANGED <<envVars, slot, orig, tableVars, lsmVars, feature_handlers, hideVars,
                   enforcing, phase, sets, callVars>>

\* ksu_register_feature_handler(), ksu_unregister_feature_handler().
FeatureHandler(t) ==
    /\ Step(t, "feature") \/ Step(t, "unfeature")
    /\ Done(t)
    /\ feature_handlers' = IF Step(t, "feature") THEN feature_handlers \cup {Arg(t)}
                           ELSE feature_handlers \ {Arg(t)}
    /\ UNCHANGED <<envVars, slot, orig, tableVars, lsmVars, probes, hideVars, enforcing, phase,
                   sets, callVars>>

-----------------------------------------------------------------------------
(* selinux_hide *)

\* initialize_fake_status(): a copy of the status page, once, that must say
\* "enforcing".
initialize_fake_status ==
    fake' = CASE fake # None \/ enforcing = None -> fake
              [] OTHER -> IF late THEN "enforcing"
                          ELSE IF enforcing = "enforcing" THEN enforcing ELSE fake

\* The first lines of ksu_selinux_hide_init().
FakeInit(t) ==
    /\ Step(t, "fake_init") /\ Done(t)
    /\ IF late THEN initialize_fake_status /\ UNCHANGED fake_key
       ELSE fake_key' = TRUE /\ UNCHANGED fake
    /\ UNCHANGED <<envVars, slot, orig, tableVars, lsmVars, regVars, enabled, running, backup,
                   enforcing, phase, sets, callVars>>

FakeFree(t) ==
    /\ Step(t, "fake_free") /\ Done(t)
    /\ fake' = None
    /\ UNCHANGED <<envVars, slot, orig, tableVars, lsmVars, regVars, enabled, running, backup,
                   fake_key, enforcing, phase, sets, callVars>>

\* hook_selinux_status_open(): nothing to do if it is hooked already.
hook_selinux_status_open(t) ==
    /\ Step(t, "save_status")
    /\ IF orig["status_open"] # None \/ ~Found("sel_handle_status_ops")
       THEN work' = [work EXCEPT ![t] = Tail(Tail(@))] /\ UNCHANGED orig
       ELSE Done(t) /\ orig' = [orig EXCEPT !["status_open"] = slot["status_open"]]
    /\ UNCHANGED <<envVars, slot, tableVars, lsmVars, regVars, hideVars, enforcing, phase, sets,
                   callVars>>

PatchStatus(t) ==
    /\ Step(t, "patch_status") /\ Done(t)
    /\ ksu_patch_text("status_open", "ksu")
    /\ orig' = IF "status_open" \in unmapped THEN [orig EXCEPT !["status_open"] = None] ELSE orig
    /\ UNCHANGED <<envVars, tableVars, lsmVars, regVars, hideVars, enforcing, phase, sets, callVars>>

\* The error paths of ksu_selinux_hide_enable(): before the first patch a
\* plain return, from then on the label "unhook".
CheckEnable(t) ==
    /\ Step(t, "check_enable")
    /\ work' = [work EXCEPT ![t] = IF backup /\ Found("write_op") THEN Tail(@) ELSE <<>>]
    /\ UNCHANGED <<envVars, slot, orig, tableVars, lsmVars, regVars, hideVars, enforcing, phase,
                   sets, callVars>>

SaveSlot(t) ==
    /\ Step(t, "save") /\ Done(t)
    /\ orig' = [orig EXCEPT ![Arg(t)] = slot[Arg(t)]]
    /\ UNCHANGED <<envVars, slot, tableVars, lsmVars, regVars, hideVars, enforcing, phase, sets,
                   callVars>>

PatchSlot(t) ==
    /\ Step(t, "patch")
    /\ ksu_patch_text(Arg(t), "ksu")
    /\ work' = [work EXCEPT ![t] = IF Arg(t) \in unmapped THEN ksu_selinux_hide_unhook ELSE Tail(@)]
    /\ UNCHANGED <<envVars, orig, tableVars, lsmVars, regVars, hideVars, enforcing, phase, sets,
                   callVars>>

\* ksu_selinux_hide_unhook() for one slot.
RestoreSlot(t) ==
    /\ Step(t, "restore") /\ Done(t)
    /\ IF orig[Arg(t)] # None
       THEN ksu_patch_text(Arg(t), "kernel") /\ orig' = [orig EXCEPT ![Arg(t)] = None]
       ELSE UNCHANGED <<slot, orig>>
    /\ UNCHANGED <<envVars, tableVars, lsmVars, regVars, hideVars, enforcing, phase, sets, callVars>>

\* ksu_lsm_hook() until the target's slot is found and tracked.
LsmTrack(t) ==
    /\ Step(t, "lsm_track")
    /\ IF lsm_entry \/ ~Found("selinux_setprocattr")
       THEN work' = [work EXCEPT ![t] = ksu_selinux_hide_unhook] /\ UNCHANGED lsm_tracked
       ELSE Done(t) /\ lsm_tracked' = TRUE
    /\ UNCHANGED <<envVars, slot, orig, tableVars, lsm_entry, regVars, hideVars, enforcing, phase,
                   sets, callVars>>

\* ksu_lsm_hook_patch_slot(), untracked again if it fails.
ksu_lsm_hook_patch_slot(t) ==
    /\ Step(t, "lsm_patch")
    /\ ksu_patch_text("setprocattr", "ksu")
    /\ IF "setprocattr" \in unmapped
       THEN work' = [work EXCEPT ![t] = ksu_selinux_hide_unhook] /\ lsm_tracked' = FALSE
       ELSE Done(t) /\ UNCHANGED lsm_tracked
    /\ UNCHANGED <<envVars, orig, tableVars, lsm_entry, regVars, hideVars, enforcing, phase, sets,
                   callVars>>

LsmSet(t) ==
    /\ Step(t, "lsm_set") /\ Done(t)
    /\ lsm_entry' = TRUE /\ orig' = [orig EXCEPT !["setprocattr"] = "kernel"]
    /\ UNCHANGED <<envVars, slot, tableVars, lsm_tracked, regVars, hideVars, enforcing, phase,
                   sets, callVars>>

\* ksu_lsm_unhook(): hook->original keeps its value; after synchronize_rcu()
\* the entry is dropped.
LsmRestore(t) ==
    /\ Step(t, "lsm_restore") /\ Done(t)
    /\ IF lsm_entry THEN ksu_patch_text("setprocattr", "kernel") ELSE slot' = slot
    /\ UNCHANGED <<envVars, orig, tableVars, lsmVars, regVars, hideVars, enforcing, phase, sets,
                   callVars>>

LsmUntrack(t) ==
    /\ Step(t, "lsm_untrack") /\ Done(t)
    /\ lsm_entry' = FALSE /\ lsm_tracked' = (lsm_tracked /\ ~lsm_entry)
    /\ UNCHANGED <<envVars, slot, orig, tableVars, regVars, hideVars, enforcing, phase, sets,
                   callVars>>

SetRunning(t) ==
    /\ Step(t, "running") /\ Done(t)
    /\ running' = Arg(t)
    /\ UNCHANGED <<envVars, slot, orig, tableVars, lsmVars, regVars, enabled, backup, fake,
                   fake_key, enforcing, phase, sets, callVars>>

\* ksu_set_feature() and selinux_hide_feature_set(), both mutexes held to the
\* end of the ioctl's work.
selinux_hide_feature_set(v) ==
    /\ phase = "live" /\ work["ioctl"] = <<>> /\ sets < MaxSets
    /\ "selinux_hide" \in feature_handlers
    /\ enabled' = v
    /\ work' = [work EXCEPT !["ioctl"] =
                    CASE v /\ ~running -> ksu_selinux_hide_enable
                      [] ~v /\ running -> ksu_selinux_hide_unhook \o <<<<"running", FALSE>>>>
                      [] v <=> running -> <<>>]
    /\ sets' = sets + 1
    /\ UNCHANGED <<envVars, slot, orig, tableVars, lsmVars, regVars, running, backup, fake,
                   fake_key, enforcing, phase, callVars>>

\* apply_kernelsu_rules() as far as the backup goes: it may fail.
Rules(t) ==
    /\ Step(t, "rules") /\ Done(t)
    /\ backup' \in BOOLEAN
    /\ UNCHANGED <<envVars, slot, orig, tableVars, lsmVars, regVars, enabled, running, fake,
                   fake_key, enforcing, phase, sets, callVars>>

\* ksu_handle_execveat_ksud() at init's second stage:
\* ksu_selinux_hide_handle_second_stage(), then the rules.
SecondStage ==
    /\ phase = "live" /\ ~late /\ fake_key /\ ~backup /\ ~running /\ work["ioctl"] = <<>>
    /\ initialize_fake_status
    /\ fake_key' = (fake' = None)
    /\ backup' \in BOOLEAN
    /\ UNCHANGED <<envVars, slot, orig, tableVars, lsmVars, regVars, enabled, running, enforcing,
                   work, phase, sets, callVars>>

\* on_post_fs_data(): ksu_stop_input_hook_runtime(), by a work item, and
\* ksu_selinux_hide_handle_post_fs_data().
on_post_fs_data ==
    /\ phase = "live" /\ (fake_key \/ "input" \in probes)
    /\ fake_key' = FALSE /\ probes' = probes \ {"input"}
    /\ UNCHANGED <<envVars, slot, orig, tableVars, lsmVars, feature_handlers, enabled, running,
                   backup, fake, enforcing, work, phase, sets, callVars>>

\* on_boot_completed(): ksu_selinux_hide_drop_backup_if_unused(), which takes
\* selinux_hide_mutex.
ksu_selinux_hide_drop_backup_if_unused ==
    /\ phase = "live" /\ work["ioctl"] = <<>> /\ backup
    /\ ~running
    /\ backup' = FALSE
    /\ UNCHANGED <<envVars, slot, orig, tableVars, lsmVars, regVars, enabled, running, fake,
                   fake_key, enforcing, work, phase, sets, callVars>>

\* A read of init.rc is done, the entry is recorded, and hooked_entries_lock is
\* not held by a ksu_syscall_table_hook() between its two steps.
UnhookMayRun(s) ==
    /\ phase \in {"init", "live"} /\ s \in {"read", "fstat"} /\ s \in Range(hooked_entries)
    /\ ~Step("life", "patch_table")

\* Mutant: the entry found is dropped, but the last one is not moved there.
UnhookLosingLast(s) ==
    /\ UnhookMayRun(s)
    /\ ksu_patch_text(s, "kernel")
    /\ hooked_entries' = Front(hooked_entries)
    /\ UNCHANGED <<envVars, orig, syscall_hooks, dispatcher, tracepoint, lsmVars, regVars,
                   hideVars, enforcing, work, phase, sets, callVars>>

\* stop_init_rc_hook(), from a read of init.rc that is done:
\* ksu_syscall_table_unhook() swaps the entry with the last one.
ksu_syscall_table_unhook(s) ==
    /\ UnhookMayRun(s)
    /\ ksu_patch_text(s, "kernel")
    /\ LET i == CHOOSE k \in DOMAIN hooked_entries : hooked_entries[k] = s
           n == Len(hooked_entries)
       IN  hooked_entries' = Front([hooked_entries EXCEPT ![i] = hooked_entries[n]])
    /\ UNCHANGED <<envVars, orig, syscall_hooks, dispatcher, tracepoint, lsmVars, regVars,
                   hideVars, enforcing, work, phase, sets, callVars>>

\* SELinux creates its status page, and root switches it.
StatusChanges ==
    /\ phase \in {"init", "live"}
    /\ enforcing' \in {"permissive", "enforcing"} \ {enforcing}
    /\ UNCHANGED <<envVars, slot, orig, tableVars, lsmVars, regVars, hideVars, work, phase, sets,
                   callVars>>

\* The last step of kernelsu_init(), an unload while nothing holds a file of
\* the module, and its last step.
Lifecycle ==
    \/ /\ Step("life", "live") /\ phase' = "live" /\ Done("life")
    \/ /\ phase = "live" /\ work["ioctl"] = <<>>
       /\ phase' = "exit" /\ work' = [work EXCEPT !["life"] = kernelsu_exit]
    \/ /\ Step("life", "gone") /\ phase' = "gone" /\ Done("life")

Lives ==
    /\ Lifecycle
    /\ UNCHANGED <<envVars, slot, orig, tableVars, lsmVars, regVars, hideVars, enforcing, sets,
                   callVars>>

-----------------------------------------------------------------------------
(* The tasks that call through the slots *)

\* Mutant: every call of a marked task is redirected.
RedirectAll(t, nr) ==
    /\ call[t] = None /\ tracepoint /\ dispatcher
    /\ call' = [call EXCEPT ![t] = <<"redirected", nr>>]
    /\ UNCHANGED <<envVars, slot, orig, tableVars, lsmVars, regVars, hideVars, enforcing, work,
                   phase, sets, enosys, nullCall>>

\* ksu_sys_enter_handler(): the number is replaced by the dispatcher's.
ksu_sys_enter_handler(t, nr) ==
    /\ call[t] = None /\ tracepoint /\ dispatcher /\ nr \in syscall_hooks
    /\ call' = [call EXCEPT ![t] = <<"redirected", nr>>]
    /\ UNCHANGED <<envVars, slot, orig, tableVars, lsmVars, regVars, hideVars, enforcing, work,
                   phase, sets, enosys, nullCall>>

\* The kernel calls the table's entry: ksu_syscall_dispatcher(), which finds
\* the handler of the original number, or sys_ni_syscall().
ksu_syscall_dispatcher(t) ==
    /\ call[t] # None /\ call[t][1] = "redirected" /\ phase # "gone"
    /\ call' = [call EXCEPT ![t] = None]
    /\ enosys' = (enosys \/ slot["ni"] # "ksu" \/ call[t][2] \notin syscall_hooks)
    /\ UNCHANGED <<envVars, slot, orig, tableVars, lsmVars, regVars, hideVars, enforcing, work,
                   phase, sets, nullCall>>

\* A task enters a replacement: ksu_sys_read(), ksu_sys_fstat(),
\* my_write_context(), my_write_access(), my_sel_open_handle_status(),
\* my_setprocattr().
Enter(t, s) ==
    /\ call[t] = None /\ slot[s] = "ksu" /\ s # "ni" /\ phase # "gone"
    /\ call' = [call EXCEPT ![t] = <<"inside", s>>]
    /\ UNCHANGED <<envVars, slot, orig, tableVars, lsmVars, regVars, hideVars, enforcing, work,
                   phase, sets, enosys, nullCall>>

\* ... and calls the saved original.  The open of the status page makes the
\* fake page if it is late.
CallOriginal(t) ==
    /\ call[t] # None /\ call[t][1] = "inside" /\ phase # "gone"
    /\ LET s == call[t][2]
       IN  /\ nullCall' = IF orig[s] = None THEN nullCall \cup {s} ELSE nullCall
           /\ IF s = "status_open" /\ fake_key THEN initialize_fake_status ELSE UNCHANGED fake
    /\ call' = [call EXCEPT ![t] = None]
    /\ UNCHANGED <<envVars, slot, orig, tableVars, lsmVars, regVars, enabled, running, backup,
                   fake_key, enforcing, work, phase, sets, enosys>>

Works(t) ==
    \/ ksu_find_ni_syscall_slots(t) \/ TableRecord(t) \/ patch_syscall_table(t)
    \/ RestoreTable(t) \/ ClearHooks(t) \/ RouteHook(t) \/ TraceHook(t) \/ ProbeHook(t)
    \/ FeatureHandler(t) \/ FakeInit(t) \/ FakeFree(t) \/ hook_selinux_status_open(t)
    \/ PatchStatus(t) \/ CheckEnable(t) \/ SaveSlot(t) \/ PatchSlot(t) \/ RestoreSlot(t)
    \/ LsmTrack(t) \/ ksu_lsm_hook_patch_slot(t) \/ LsmSet(t) \/ LsmRestore(t) \/ LsmUntrack(t)
    \/ SetRunning(t) \/ Rules(t)

Next ==
    \/ \E t \in Threads : Works(t)
    \/ \E v \in BOOLEAN : selinux_hide_feature_set(v)
    \/ SecondStage \/ on_post_fs_data \/ ksu_selinux_hide_drop_backup_if_unused
    \/ \E s \in TableSlots : ksu_syscall_table_unhook(s)
    \/ StatusChanges \/ Lives
    \/ \E t \in Tasks :
          \/ \E nr \in Nrs \cup {Unhooked} : ksu_sys_enter_handler(t, nr)
          \/ ksu_syscall_dispatcher(t) \/ CallOriginal(t)
          \/ \E s \in Slots : Enter(t, s)

Spec == Init /\ [][Next]_vars

-----------------------------------------------------------------------------
TypeOK ==
    /\ slot \in [Slots -> {"kernel", "ksu"}]
    /\ orig \in [Slots -> {"kernel", "ksu", None}]
    /\ Range(hooked_entries) \subseteq TableSlots
    /\ syscall_hooks \subseteq Nrs
    /\ feature_handlers \subseteq Features
    /\ {lsm_entry, lsm_tracked, dispatcher, tracepoint, enabled, running, backup, fake_key, late,
        enosys} \subseteq BOOLEAN
    /\ fake \in {None, "permissive", "enforcing"}

\* Every replaced entry of the system call table is recorded, once, with the
\* kernel's own function: otherwise the exit could not restore it, or would
\* restore a pointer into the module.  And no replacement in the table ever
\* found that pointer unset: it is saved before the entry is patched, and
\* survives it.  (See README for the slots outside the table.)
EntriesExact ==
    /\ \A s \in TableSlots : slot[s] = "ksu" => s \in Range(hooked_entries) /\ orig[s] = "kernel"
    /\ IsInjective(hooked_entries)
    /\ nullCall \cap TableSlots = {}

\* selinux_hide is on entirely or not at all, whatever slot could not be
\* patched and whatever symbol is missing, once the ioctl that set it is done;
\* and as long as it runs it has the policy it answers apps from, whatever the
\* order of the boot events that drop an unused one.
HideAllOrNothing ==
    /\ work["ioctl"] = <<>> /\ phase = "live" =>
            \A s \in HideSlots \cup {"setprocattr"} : slot[s] = "ksu" <=> running
    /\ running => backup

\* A redirected system call is not refused as long as the module is not being
\* unloaded and the dispatcher's entry could be patched.
RedirectedIsServed == enosys => phase \in {"exit", "gone"} \/ "ni" \in unmapped

\* After the unload nothing of the module is reachable through the slots, the
\* tables or the probes.  (The open of the status page is the exception: it
\* stays hooked unless selinux_hide was running.)
UnloadClean ==
    phase = "gone" =>
        /\ \A s \in Slots \ {"status_open"} : slot[s] = "kernel"
        /\ syscall_hooks = {} /\ ~tracepoint /\ probes = {} /\ feature_handlers = {}

\* What is hooked can be undone at every time, and is undone by the exit.
HooksUndone == TypeOK /\ EntriesExact /\ UnloadClean

=============================================================================
