----------------------------- MODULE SuSession -----------------------------
(***************************************************************************)
(* How a task comes to root and is kept on the path to it: the mark that   *)
(* routes a task's system calls to the hooks (hook/tp_marker.c,            *)
(* hook/syscall_hook_manager.c), the hooks of setresuid and execve         *)
(* (hook/setuid_hook.c, hook/syscall_event_bridge.c), su compatibility     *)
(* (feature/sucompat.c), the GRANT_ROOT ioctl (supercall/dispatch.c), the  *)
(* root profile (policy/app_profile.c, infra/su_mount_ns.c), the umount at *)
(* setresuid (feature/kernel_umount.c) and the log of it (sulog/event.c).  *)
(*                                                                         *)
(* A task is forked by pid 1 or by a task, execs app_process to become a   *)
(* zygote, is specialised by setresuid, and asks for root.  Between two    *)
(* steps of a handler other tasks run, the manager changes profiles, and   *)
(* other users of the syscall tracepoint come and go.  A hook that is      *)
(* switched off (su_compat, kernel_umount) leaves the plain system call,   *)
(* which changes nothing here; the log is on.                              *)
(***************************************************************************)
EXTENDS Naturals

CONSTANTS
    Tasks,      \* user tasks; pid 1 is not among them and is always marked
    Apps,       \* app uids that can have a profile
    Mgr,        \* the manager's uid
    Iso,        \* the uid of an isolated process
    Spaces,     \* mount namespaces other than the global one
    Nil,
    MaxOps      \* bound: changes of profiles, registrations of other users of the
                \* tracepoint and MANAGE_MARK calls

Root == "root"
Uids == Apps \cup {Mgr, Iso, Root}
Global == "global"

(* What a profile says of its uid: no profile (umount by default), allow_su *)
(* with uid 0, allow_su with the app's own uid and FLAG_KSU_NO_NEW_PRIVS,   *)
(* or no su and no umount.                                                  *)
Kinds == {"none", "full", "limited", "keep"}
Granting == {"full", "limited"}

Steps == {"idle", "decide", "mark", "umount", "escape", "commit", "emit", "done"}

ASSUME SuAssumption ==
    /\ {Mgr, Iso, Root} \cap Apps = {} /\ Mgr # Iso /\ Root \notin {Mgr, Iso}
    /\ Global \notin Spaces
    /\ Nil \notin Uids \cup Granting \cup {"later"} /\ "later" \notin Uids
    /\ MaxOps \in Nat

VARIABLES
    alive,
    uid, dom, ns,   \* uid, SELinux domain and mount namespace of each task
    priv,           \* what it gained: "none", "limited" or "full"
    nnp,            \* tasks with TIF_KSU_DISABLE_ESCAPE_WITH_ROOT
    filter,         \* seccomp: "off", "on", or "reboot": on but for reboot(2)
    marked,         \* tasks with the tracepoint flag
    pc, arg,        \* the handler's step, and what it has read so far
    caller,         \* the uid in the pending log event, or "later" for an ioctl
    profile,        \* the allowlist
    rescans,        \* set_app_profile calls before ksu_mark_running_process()
    tracepoint_reg_count,
    umounted,       \* namespaces without the modules' mounts
    log,            \* the uid in the event of a task's last call, or "dropped"
    seen,           \* history: kinds the uid had since the check for su
    audit_uid,      \* the uid that asked for root, saved by do_grant_root()
    sealed,         \* history: tasks that must not escape any more
    overtaken,      \* history: marks undone by hand or by an overtaken decision
    ops

taskVars == <<alive, uid, dom, ns, priv, nnp, filter, pc, arg, caller>>
histVars == <<seen, audit_uid, sealed, overtaken>>
vars == <<taskVars, marked, profile, rescans, tracepoint_reg_count, umounted,
          log, histVars, ops>>

Init ==
    /\ alive = {} /\ marked = {} /\ nnp = {}
    /\ uid = [t \in Tasks |-> Root]
    /\ dom = [t \in Tasks |-> "init"]
    /\ ns = [t \in Tasks |-> Global]
    /\ priv = [t \in Tasks |-> "none"]
    /\ filter = [t \in Tasks |-> "off"]
    /\ pc = [t \in Tasks |-> "idle"]
    /\ arg = [t \in Tasks |-> Nil]
    /\ caller = [t \in Tasks |-> Nil]
    /\ profile \in [Apps -> {"none", "limited"}]
    /\ rescans = 0
    /\ tracepoint_reg_count = 1
    /\ umounted = {}
    /\ log = [t \in Tasks |-> Nil]
    /\ seen = [t \in Tasks |-> {}]
    /\ audit_uid = [t \in Tasks |-> Nil]
    /\ sealed = {} /\ overtaken = {}
    /\ ops = 0

-----------------------------------------------------------------------------
(* The allowlist as the handlers ask it *)

KindOf(u) == IF u \in Apps THEN profile[u] ELSE "none"

\* __ksu_is_allow_uid()
ksu_is_allow_uid(u) == u = Mgr \/ KindOf(u) \in Granting

\* __ksu_is_allow_uid_for_current()
ksu_is_allow_uid_for_current(t, u) ==
    IF u = Root THEN dom[t] = "ksu" ELSE ksu_is_allow_uid(u)

\* ksu_uid_should_umount(), and the exception for isolated processes.
ksu_uid_should_umount(u) == u = Iso \/ (u \in Apps /\ profile[u] = "none")

\* ksu_get_root_profile(): the default profile is uid 0 without limits.
ksu_get_root_profile(u) == IF KindOf(u) = "limited" THEN "limited" ELSE "full"

-----------------------------------------------------------------------------
(* Marks *)

\* ksu_mark_running_process_locked(): which tasks it marks; it clears the rest.
Wanted == {t \in alive : \/ uid[t] = Root /\ dom[t] = "ksu"
                         \/ dom[t] = "zygote"
                         \/ ksu_is_allow_uid(uid[t])}

ksu_mark_running_process_locked ==
    /\ marked' = Wanted
    /\ overtaken' = {t \in overtaken : t \notin Wanted \/ pc[t] = "mark"}
                        \cup {t \in alive : dom[t] = "init"}

ksu_clear_task_tracepoint_flag_if_needed(t) ==
    marked' = IF tracepoint_reg_count <= 1 THEN marked \ {t} ELSE marked

\* ksu_mark_running_process() at the end of do_set_app_profile().
ksu_mark_running_process ==
    /\ rescans > 0
    /\ rescans' = rescans - 1
    /\ IF tracepoint_reg_count <= 1 THEN ksu_mark_running_process_locked
       ELSE UNCHANGED <<marked, overtaken>>
    /\ UNCHANGED <<taskVars, profile, tracepoint_reg_count, umounted, log,
                   seen, audit_uid, sealed, ops>>

\* Another user registers: the first one makes every task marked.
syscall_regfunc_handler ==
    /\ ops < MaxOps
    /\ ops' = ops + 1
    /\ tracepoint_reg_count' = tracepoint_reg_count + 1
    /\ IF tracepoint_reg_count = 1
       THEN marked' = alive /\ overtaken' = {t \in overtaken : pc[t] = "mark"}
       ELSE UNCHANGED <<marked, overtaken>>
    /\ UNCHANGED <<taskVars, profile, rescans, umounted, log, seen, audit_uid,
                   sealed>>

\* Another user unregisters: the last one leaves our marks only.
syscall_unregfunc_handler ==
    /\ tracepoint_reg_count > 1
    /\ tracepoint_reg_count' = tracepoint_reg_count - 1
    /\ IF tracepoint_reg_count' = 1 THEN ksu_mark_running_process_locked
       ELSE UNCHANGED <<marked, overtaken>>
    /\ UNCHANGED <<taskVars, profile, rescans, umounted, log,
                   seen, audit_uid, sealed, ops>>

\* ksu_set_task_mark() of one task, or handle_process_mark() of all: whoever
\* else uses the tracepoint.
ksu_set_task_mark(ts, mark) ==
    IF mark THEN marked' = marked \cup ts /\ UNCHANGED overtaken
    ELSE marked' = marked \ ts /\ overtaken' = overtaken \cup ts

\* do_manage_mark(): mark, unmark and refresh; get changes nothing.
do_manage_mark ==
    /\ ops < MaxOps
    /\ ops' = ops + 1
    /\ \/ \E ts \in {{t} : t \in alive} \cup {alive}, mark \in BOOLEAN :
             ksu_set_task_mark(ts, mark)
       \/ tracepoint_reg_count <= 1 /\ ksu_mark_running_process_locked
    /\ UNCHANGED <<taskVars, profile, rescans, tracepoint_reg_count, umounted,
                   log, seen, audit_uid, sealed>>

-----------------------------------------------------------------------------
(* The manager *)

\* Calls for root that have passed their check but have no profile yet.
Asking == {t \in Tasks : pc[t] = "escape"}

\* do_set_app_profile() for u, up to its ksu_mark_running_process(); or
\* ksu_prune_allowlist(), which removes a profile and scans nothing.
SetProfile(u, k, scan) ==
    /\ ops < MaxOps /\ k # profile[u]
    /\ ops' = ops + 1
    /\ profile' = [profile EXCEPT ![u] = k]
    /\ rescans' = rescans + (IF scan THEN 1 ELSE 0)
    /\ seen' = [t \in Tasks |-> IF t \in Asking /\ uid[t] = u THEN seen[t] \cup {k}
                                ELSE seen[t]]
    /\ overtaken' = overtaken \cup {t \in Tasks : pc[t] = "mark" /\ uid[t] = u}
    /\ UNCHANGED <<taskVars, marked, tracepoint_reg_count, umounted, log,
                   audit_uid, sealed>>

\* Mutant: no ksu_mark_running_process() after a change.
SetWithoutScan == \E u \in Apps, k \in Kinds : SetProfile(u, k, FALSE)

do_set_app_profile == \E u \in Apps, k \in Kinds : SetProfile(u, k, TRUE)
ksu_prune_allowlist == \E u \in Apps : SetProfile(u, "none", FALSE)

-----------------------------------------------------------------------------
(* Life of a task *)

\* The zygote itself, not a child that it is about to specialise.
IsZygote(t) == dom[t] = "zygote" /\ uid[t] = Root /\ ns[t] = Global

\* A fork by pid 1: the child runs in init's domain and inherits the mark.
InitForks(c) ==
    /\ c \notin alive
    /\ alive' = alive \cup {c}
    /\ marked' = marked \cup {c}
    /\ UNCHANGED <<uid, dom, ns, priv, nnp, filter, pc, arg, caller, profile, rescans,
                   tracepoint_reg_count, umounted, log, histVars, ops>>

\* A fork by p: flags, credentials and namespace are inherited; the child of
\* a zygote gets a namespace of its own and a seccomp filter before it is
\* specialised.
Forks(p, c) ==
    /\ p \in alive /\ c \notin alive /\ pc[p] = "idle"
    /\ IsZygote(p) \/ dom[p] \in {"app", "ksu"}
    /\ alive' = alive \cup {c}
    /\ uid' = [uid EXCEPT ![c] = uid[p]]
    /\ dom' = [dom EXCEPT ![c] = dom[p]]
    /\ priv' = [priv EXCEPT ![c] = priv[p]]
    /\ \E n \in Spaces \cup {Global} :
          /\ IF IsZygote(p)
             THEN n # Global /\ \A t \in alive : ns[t] # n
             ELSE n = ns[p]
          /\ ns' = [ns EXCEPT ![c] = n]
    /\ filter' = [filter EXCEPT ![c] = IF IsZygote(p) THEN "on" ELSE filter[p]]
    /\ nnp' = IF p \in nnp THEN nnp \cup {c} ELSE nnp
    /\ marked' = IF p \in marked THEN marked \cup {c} ELSE marked
    /\ sealed' = IF p \in sealed THEN sealed \cup {c} ELSE sealed
    /\ overtaken' = IF p \in overtaken THEN overtaken \cup {c} ELSE overtaken
    /\ UNCHANGED <<pc, arg, caller, profile, rescans, tracepoint_reg_count, umounted,
                   log, seen, audit_uid, ops>>

\* ksu_handle_init_mark_tracker() for a child of init that is marked: ksud
\* becomes root's daemon, app_process stays marked, others do not.  The exec
\* then leaves init's domain.
ksu_handle_init_mark_tracker(t) ==
    /\ t \in alive /\ dom[t] = "init" /\ pc[t] = "idle"
    /\ \/ dom' = [dom EXCEPT ![t] = IF t \in marked THEN "ksu" ELSE "app"]
          /\ priv' = [priv EXCEPT ![t] = IF t \in marked THEN "full" ELSE @]
          /\ UNCHANGED marked
       \/ dom' = [dom EXCEPT ![t] = "zygote"] /\ UNCHANGED <<priv, marked>>
       \/ /\ dom' = [dom EXCEPT ![t] = "app"] /\ UNCHANGED priv
          /\ IF t \in marked THEN ksu_clear_task_tracepoint_flag_if_needed(t)
             ELSE UNCHANGED marked
    /\ UNCHANGED <<alive, uid, ns, nnp, filter, pc, arg, caller, profile, rescans,
                   tracepoint_reg_count, umounted, log, histVars, ops>>

\* The zygote's child leaves the zygote's domain when it is specialised.
SetContext(t) ==
    /\ t \in alive /\ dom[t] = "zygote" /\ uid[t] # Root /\ pc[t] = "idle"
    /\ dom' = [dom EXCEPT ![t] = "app"]
    /\ UNCHANGED <<alive, uid, ns, priv, nnp, filter, marked, pc, arg, caller, profile, rescans,
                   tracepoint_reg_count, umounted, log, histVars, ops>>

-----------------------------------------------------------------------------
(* The setresuid hook *)

\* ksu_seccomp_allow_cache(): reboot(2), by which the driver's file is asked
\* for, passes the filter.
ksu_seccomp_allow_cache(t) ==
    filter' = [filter EXCEPT ![t] = IF @ = "on" THEN "reboot" ELSE @]

\* A task with uid 0 drops to u: the system call itself, then
\* ksu_hook_setresuid() if the task was marked at its entry.
ksu_hook_setresuid(t, u) ==
    /\ t \in alive /\ uid[t] = Root /\ pc[t] = "idle" /\ u # Root
    /\ dom[t] \in {"ksu", "zygote"} /\ ~IsZygote(t)
    /\ uid' = [uid EXCEPT ![t] = u]
    /\ priv' = [priv EXCEPT ![t] = "none"]
    /\ pc' = [pc EXCEPT ![t] = IF t \in marked THEN "decide" ELSE "idle"]
    /\ UNCHANGED <<alive, dom, ns, nnp, filter, marked, arg, caller, profile, rescans,
                   tracepoint_reg_count, umounted, log, histVars, ops>>

\* ksu_handle_setresuid() reads the allowlist; the manager is done with its
\* flag and its driver file, and not unmounted for.
ksu_handle_setresuid(t) ==
    /\ pc[t] = "decide"
    /\ IF uid[t] = Mgr
       THEN /\ pc' = [pc EXCEPT ![t] = "idle"]
            /\ marked' = marked \cup {t}
            /\ ksu_seccomp_allow_cache(t)
            /\ UNCHANGED arg
       ELSE /\ pc' = [pc EXCEPT ![t] = "mark"]
            /\ arg' = [arg EXCEPT ![t] =
                                IF ksu_is_allow_uid_for_current(t, uid[t])
                                THEN "allowed" ELSE "denied"]
            /\ UNCHANGED <<marked, filter>>
    /\ UNCHANGED <<alive, uid, dom, ns, priv, nnp, caller, profile, rescans,
                   tracepoint_reg_count, umounted, log, histVars, ops>>

\* ... and sets or clears the flag by what it has read.
SetOrClear(t) ==
    /\ pc[t] = "mark"
    /\ IF arg[t] = "allowed"
       THEN marked' = marked \cup {t} /\ ksu_seccomp_allow_cache(t)
       ELSE ksu_clear_task_tracepoint_flag_if_needed(t) /\ UNCHANGED filter
    /\ pc' = [pc EXCEPT ![t] = "umount"]
    /\ arg' = [arg EXCEPT ![t] = Nil]
    /\ UNCHANGED <<alive, uid, dom, ns, priv, nnp, caller, profile, rescans,
                   tracepoint_reg_count, umounted, log, histVars, ops>>

\* Mutant: whoever drops to the uid is unmounted for.
UmountForAll(t) ==
    /\ pc[t] = "umount"
    /\ pc' = [pc EXCEPT ![t] = "idle"]
    /\ umounted' = IF ksu_uid_should_umount(uid[t]) THEN umounted \cup {ns[t]}
                   ELSE umounted
    /\ UNCHANGED <<alive, uid, dom, ns, priv, nnp, filter, marked, arg, caller, profile, rescans,
                   tracepoint_reg_count, log, histVars, ops>>

\* ksu_handle_umount(): only for a zygote's child.
ksu_handle_umount(t) ==
    /\ pc[t] = "umount"
    /\ pc' = [pc EXCEPT ![t] = "idle"]
    /\ umounted' = IF ksu_uid_should_umount(uid[t]) /\ dom[t] = "zygote"
                   THEN umounted \cup {ns[t]} ELSE umounted
    /\ UNCHANGED <<alive, uid, dom, ns, priv, nnp, filter, marked, arg, caller, profile, rescans,
                   tracepoint_reg_count, log, histVars, ops>>

-----------------------------------------------------------------------------
(* Asking for root *)

\* The check has passed.  ksu_sulog_capture() of an event that names the
\* caller's uid fails without memory, and the event is dropped.
Asks(t, event) ==
    /\ t \in alive /\ pc[t] = "idle"
    /\ pc' = [pc EXCEPT ![t] = "escape"]
    /\ seen' = [seen EXCEPT ![t] = {KindOf(uid[t])}]
    /\ audit_uid' = [audit_uid EXCEPT ![t] = uid[t]]
    /\ arg' = [arg EXCEPT ![t] = Nil]
    /\ \/ caller' = [caller EXCEPT ![t] = event] /\ log' = [log EXCEPT ![t] = Nil]
       \/ /\ event \in Uids
          /\ caller' = [caller EXCEPT ![t] = Nil]
          /\ log' = [log EXCEPT ![t] = "dropped"]
    /\ UNCHANGED <<alive, uid, dom, ns, priv, nnp, filter, marked, profile, rescans,
                   tracepoint_reg_count, umounted, sealed, overtaken, ops>>

\* ksu_handle_execve_sucompat(): execve of /system/bin/su by a marked task.
ksu_handle_execve_sucompat(t) ==
    /\ t \in marked /\ dom[t] # "zygote"
    /\ ksu_is_allow_uid_for_current(t, uid[t])
    /\ Asks(t, uid[t])

\* ksu_hook_execve(): the children of init apart.
ksu_hook_execve(t) == IF dom[t] = "init" THEN ksu_handle_init_mark_tracker(t)
                      ELSE ksu_handle_execve_sucompat(t)

\* do_grant_root() behind allowed_for_su(), on the driver's file that reboot(2)
\* installed: it logs when it is done.
do_grant_root(t) ==
    /\ dom[t] = "app" /\ filter[t] # "on"
    /\ uid[t] = Mgr \/ ksu_is_allow_uid_for_current(t, uid[t])
    /\ Asks(t, "later")

\* Mutant: the thread flag is not looked at.
EscapeUnsealed(t) ==
    /\ pc[t] = "escape"
    /\ IF uid[t] = Root
       THEN pc' = [pc EXCEPT ![t] = "emit"] /\ UNCHANGED arg
       ELSE /\ pc' = [pc EXCEPT ![t] = "commit"]
            /\ arg' = [arg EXCEPT ![t] = ksu_get_root_profile(uid[t])]
    /\ UNCHANGED <<alive, uid, dom, ns, priv, nnp, filter, marked, caller, profile, rescans,
                   tracepoint_reg_count, umounted, log, histVars, ops>>

\* escape_with_root_profile(): "Already root" and the thread flag end it,
\* or it takes a reference to a profile.
escape_with_root_profile(t) ==
    /\ pc[t] = "escape"
    /\ IF uid[t] = Root \/ t \in nnp
       THEN pc' = [pc EXCEPT ![t] = "emit"] /\ UNCHANGED arg
       ELSE /\ pc' = [pc EXCEPT ![t] = "commit"]
            /\ arg' = [arg EXCEPT ![t] = ksu_get_root_profile(uid[t])]
    /\ UNCHANGED <<alive, uid, dom, ns, priv, nnp, filter, marked, caller, profile, rescans,
                   tracepoint_reg_count, umounted, log, histVars, ops>>

\* disable_seccomp(): without memory the filter stays.
disable_seccomp(t) == \/ filter' = [filter EXCEPT ![t] = "off"]
                      \/ filter[t] # "off" /\ UNCHANGED filter

\* setup_mount_ns(): inherited (or a mode that fails), global, or a new one
\* that starts as a copy.
setup_mount_ns(t) ==
    \/ UNCHANGED <<ns, umounted>>
    \/ ns' = [ns EXCEPT ![t] = Global] /\ UNCHANGED umounted
    \/ \E n \in Spaces :
          /\ \A s \in alive : ns[s] # n
          /\ ns' = [ns EXCEPT ![t] = n]
          /\ umounted' = IF ns[t] \in umounted THEN umounted \cup {n} ELSE umounted \ {n}

\* The rest of escape_with_root_profile(): credentials, flags, marks of the
\* threads, namespace.
CommitCreds(t) ==
    /\ pc[t] = "commit"
    /\ pc' = [pc EXCEPT ![t] = "emit"]
    /\ uid' = [uid EXCEPT ![t] = IF arg[t] = "full" THEN Root ELSE @]
    /\ dom' = [dom EXCEPT ![t] = "ksu"]
    /\ priv' = [priv EXCEPT ![t] = arg[t]]
    /\ nnp' = IF arg[t] = "limited" THEN nnp \cup {t} ELSE nnp
    /\ sealed' = IF arg[t] = "limited" THEN sealed \cup {t} ELSE sealed
    /\ marked' = marked \cup {t}
    /\ disable_seccomp(t)
    /\ setup_mount_ns(t)
    /\ UNCHANGED <<alive, arg, caller, profile, rescans, tracepoint_reg_count, log, seen, audit_uid, overtaken, ops>>

\* out_abort_creds: no memory for the user or its ucounts.
AbortCreds(t) ==
    /\ pc[t] = "commit"
    /\ pc' = [pc EXCEPT ![t] = "emit"]
    /\ UNCHANGED <<alive, uid, dom, ns, priv, nnp, filter, marked, arg, caller, profile, rescans,
                   tracepoint_reg_count, umounted, log, histVars, ops>>

\* Mutant: the event of the ioctl is filled from the task that is root by now.
EmitCurrent(t) ==
    /\ pc[t] = "emit"
    /\ pc' = [pc EXCEPT ![t] = "done"]
    /\ arg' = [arg EXCEPT ![t] = Nil]
    /\ \E e \in CASE caller[t] \in Uids             -> {caller[t]}
               [] caller[t] = "later" -> {uid[t], "dropped"}
               [] OTHER                        -> {log[t]} :
          log' = [log EXCEPT ![t] = e]
    /\ caller' = [caller EXCEPT ![t] = Nil]
    /\ UNCHANGED <<alive, uid, dom, ns, priv, nnp, filter, marked, profile, rescans,
                   tracepoint_reg_count, umounted, histVars, ops>>

\* ksu_sulog_emit_pending() of execve's event; ksu_sulog_emit_grant_root()
\* captures with the identity that do_grant_root() saved.
Emit(t) ==
    /\ pc[t] = "emit"
    /\ pc' = [pc EXCEPT ![t] = "done"]
    /\ arg' = [arg EXCEPT ![t] = Nil]
    /\ \E e \in CASE caller[t] \in Uids             -> {caller[t]}
               [] caller[t] = "later" -> {audit_uid[t], "dropped"}
               [] OTHER                        -> {log[t]} :
          log' = [log EXCEPT ![t] = e]
    /\ caller' = [caller EXCEPT ![t] = Nil]
    /\ UNCHANGED <<alive, uid, dom, ns, priv, nnp, filter, marked, profile, rescans,
                   tracepoint_reg_count, umounted, histVars, ops>>

\* The call is over; what it had read is forgotten.
Return(t) ==
    /\ pc[t] = "done"
    /\ pc' = [pc EXCEPT ![t] = "idle"]
    /\ seen' = [seen EXCEPT ![t] = {}]
    /\ audit_uid' = [audit_uid EXCEPT ![t] = Nil]
    /\ log' = [log EXCEPT ![t] = Nil]
    /\ UNCHANGED <<alive, uid, dom, ns, priv, nnp, filter, marked, arg, caller, profile, rescans,
                   tracepoint_reg_count, umounted, sealed, overtaken, ops>>

\* do_disable_escape_to_root(), for root only.
do_disable_escape_to_root(t) ==
    /\ t \in alive /\ uid[t] = Root /\ dom[t] = "ksu" /\ pc[t] = "idle" /\ t \notin nnp
    /\ nnp' = nnp \cup {t}
    /\ sealed' = sealed \cup {t}
    /\ UNCHANGED <<alive, uid, dom, ns, priv, filter, marked, pc, arg, caller, profile, rescans,
                   tracepoint_reg_count, umounted, log, seen, audit_uid, overtaken, ops>>

-----------------------------------------------------------------------------
Next ==
    \/ ksu_mark_running_process \/ do_manage_mark
    \/ syscall_regfunc_handler \/ syscall_unregfunc_handler
    \/ do_set_app_profile \/ ksu_prune_allowlist
    \/ \E t \in Tasks :
          \/ InitForks(t) \/ SetContext(t)
          \/ \E c \in Tasks : Forks(t, c)
          \/ \E u \in Uids : ksu_hook_setresuid(t, u)
          \/ ksu_handle_setresuid(t) \/ SetOrClear(t) \/ ksu_handle_umount(t)
          \/ ksu_hook_execve(t) \/ do_grant_root(t)
          \/ escape_with_root_profile(t) \/ CommitCreds(t) \/ AbortCreds(t)
          \/ Emit(t) \/ Return(t) \/ do_disable_escape_to_root(t)

Spec == Init /\ [][Next]_vars

TypeOK ==
    /\ nnp \subseteq Tasks /\ marked \subseteq Tasks
    /\ sealed \subseteq Tasks /\ overtaken \subseteq Tasks
    /\ alive \subseteq Tasks /\ umounted \subseteq Spaces \cup {Global}
    /\ uid \in [Tasks -> Uids]
    /\ dom \in [Tasks -> {"init", "zygote", "app", "ksu"}]
    /\ ns \in [Tasks -> Spaces \cup {Global}]
    /\ priv \in [Tasks -> {"none", "limited", "full"}]
    /\ filter \in [Tasks -> {"off", "on", "reboot"}]
    /\ pc \in [Tasks -> Steps]
    /\ arg \in [Tasks -> Granting \cup {"allowed", "denied", Nil}]
    /\ caller \in [Tasks -> Uids \cup {"later", Nil}]
    /\ audit_uid \in [Tasks -> Uids \cup {Nil}]
    /\ profile \in [Apps -> Kinds]
    /\ seen \in [Tasks -> SUBSET Kinds]
    /\ log \in [Tasks -> Uids \cup {"dropped", Nil}]
    /\ rescans \in 0..MaxOps /\ tracepoint_reg_count \in 1..(1 + MaxOps)
    /\ ops \in 0..MaxOps

\* Once no set_app_profile call still owes its scan, every zygote and every
\* task whose uid may use su is marked, or execve of su and setresuid would
\* pass the hooks by.  Two kinds of task can be missed until the next scan
\* (overtaken): one whose profile changed between ksu_handle_setresuid()
\* reading it and clearing the flag, and a child of init that a scan saw
\* before its exec, with what either forks.
MarkedIfAllowed ==
    rescans = 0 =>
        \A t \in alive \ overtaken :
            pc[t] = "idle" /\ (IsZygote(t) \/ ksu_is_allow_uid(uid[t])) => t \in marked

\* While someone else uses the syscall tracepoint, no hook and no change of
\* the allowlist takes the flag from a task: syscall_regfunc_handler() marked
\* all, and every clear looks at tracepoint_reg_count under its lock.
TracedAllMarked == tracepoint_reg_count > 1 => alive \ overtaken \subseteq marked

\* No task loses the mark through which its system calls reach the hooks.
MarksKept == MarkedIfAllowed /\ TracedAllMarked

\* ksu_handle_umount() never unmounts in the global namespace ("that is a
\* disaster!"), not even for a root task that entered it by its profile and
\* then drops to an app's uid.
GlobalIntact == Global \notin umounted

\* Root without limits is given only to the manager, or to a uid that had a
\* grant when the call began and whose profile was not the limited one all
\* the time until escape_with_root_profile() looked it up.
EscapeAccountable ==
    \A t \in alive :
        pc[t] \in {"commit", "emit"} /\ arg[t] = "full" =>
            \/ audit_uid[t] = Mgr
            \/ seen[t] \cap Granting # {} /\ seen[t] # {"limited"}

\* A task that was given a profile with FLAG_KSU_NO_NEW_PRIVS, or that asked
\* not to escape any more, never gains root again, nor does what it forks,
\* whatever its profile becomes.
SealedStaysSealed ==
    [][\A t \in sealed : priv'[t] = "full" => priv[t] = "full"]_vars

\* A finished call for root is in the log under the uid that made it, which
\* is not the uid the task has by then, or it is counted as dropped.
EscapesLogged ==
    \A t \in alive : pc[t] = "done" => log[t] \in {audit_uid[t], "dropped"}

\* Who became root, by which grant, can be told at every time.
EscapesAccounted == TypeOK /\ EscapeAccountable /\ EscapesLogged

=============================================================================
