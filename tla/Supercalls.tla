----------------------------- MODULE Supercalls -----------------------------
(***************************************************************************)
(* The files behind the supercalls, and the list of mounts they edit: the  *)
(* driver's file (supercall/supercall.c), the ioctls on it with their      *)
(* permission tests (supercall/dispatch.c, supercall/perm.c), the single   *)
(* reader of the sulog (sulog/fd.c), the wrappers that carry a caller's    *)
(* file past SELinux (infra/file_wrapper.c), and the walk of the mount     *)
(* list at setresuid (feature/kernel_umount.c).                            *)
(*                                                                         *)
(* A file is reference counted.  Its last fput() only queues the release,  *)
(* which runs later (Release), so that other calls come in between.        *)
(***************************************************************************)
EXTENDS Naturals, FiniteSets, Sequences, SequencesExt

CONSTANTS
    Procs,      \* processes that call
    Rootly,     \* those with uid 0
    Mgr,        \* the manager's process
    Files,      \* struct file objects that can exist at a time
    Paths,      \* mount points that can be listed
    Walkers,    \* tasks in ksu_handle_umount()
    Nil

ASSUME SupercallAssumption ==
    /\ Rootly \subseteq Procs
    /\ Nil \notin Files \cup Paths
    /\ IsFiniteSet(Files) /\ IsFiniteSet(Procs)

Kinds == {"plain", "driver", "reader", "wrapper"}

VARIABLES
    kind,       \* what a file is, while it is not "free"
    f_count,    \* its references
    orig,       \* the file a wrapper forwards to
    fds,        \* the files each process has in its table
    ksu_sulog_fd_active,
    reopened,   \* history: originals that ksu_wrapper_open() opened
    mount_list,
    cursor      \* the entry each walker looks at, under mount_list_lock

fileVars == <<kind, f_count, orig, fds, ksu_sulog_fd_active, reopened>>
supercallsVars == <<fileVars, mount_list, cursor>>

Free == {f \in Files : kind[f] = "free"}
HasDriver(p) == \E f \in fds[p] : kind[f] = "driver"

SupercallsInit ==
    /\ kind = [f \in Files |-> "free"]
    /\ f_count = [f \in Files |-> 0]
    /\ orig = [f \in Files |-> Nil]
    /\ fds = [p \in Procs |-> {}]
    /\ ksu_sulog_fd_active = FALSE
    /\ reopened = {}
    /\ mount_list = <<>>
    /\ cursor = [w \in Walkers |-> Nil]

-----------------------------------------------------------------------------
(* Who may call what *)

only_root(p) == p \in Rootly
manager_or_root(p) == p \in Rootly \/ p = Mgr

\* ksu_ioctl_handlers: the test before each command.  The getters change no
\* state; the others that are not actions below change what SuSession, Lifecycle,
\* SePolicy and AllowlistStore model.
ksu_ioctl_handlers ==
    [allowed_for_su |-> {"GRANT_ROOT"},
     always_allow |-> {"GET_INFO", "GET_INFO_LEGACY", "CHECK_SAFEMODE"},
     only_root |-> {"REPORT_EVENT", "SET_SEPOLICY", "SET_INIT_PGRP", "GET_SULOG_FD",
                    "DISABLE_ESCAPE_TO_ROOT"},
     only_manager |-> {"GET_APP_PROFILE", "SET_APP_PROFILE"},
     manager_or_root |-> {"GET_ALLOW_LIST", "GET_DENY_LIST", "NEW_GET_ALLOW_LIST",
                          "NEW_GET_DENY_LIST", "UID_GRANTED_ROOT", "UID_SHOULD_UMOUNT",
                          "GET_MANAGER_APPID", "GET_FEATURE", "SET_FEATURE",
                          "GET_WRAPPER_FD", "MANAGE_MARK", "NUKE_EXT4_SYSFS",
                          "ADD_TRY_UMOUNT"}]

perm_check(p, cmd) ==
    \/ cmd \in ksu_ioctl_handlers.only_root /\ only_root(p)
    \/ cmd \in ksu_ioctl_handlers.manager_or_root /\ manager_or_root(p)
    \/ cmd \in ksu_ioctl_handlers.always_allow

\* ksu_supercall_handle_ioctl(): the command runs if its test passes.
ksu_supercall_handle_ioctl(p, cmd) == HasDriver(p) /\ perm_check(p, cmd)

-----------------------------------------------------------------------------
(* Files *)

\* p gets a new file f of kind k in its table.
Install(p, f, k) ==
    /\ f \in Free
    /\ kind' = [kind EXCEPT ![f] = k]
    /\ f_count' = [f_count EXCEPT ![f] = 1]
    /\ fds' = [fds EXCEPT ![p] = @ \cup {f}]

\* ksu_install_fd(): for the manager at setresuid, or by the task work that
\* reboot_handler_pre() queues for whoever knows the magic numbers.  A copy to
\* user space that fails closes the file again.
ksu_install_fd(p) ==
    /\ ~HasDriver(p)
    /\ \E f \in Files : Install(p, f, "driver")
    /\ UNCHANGED <<orig, ksu_sulog_fd_active, reopened, mount_list, cursor>>

\* A process opens some file of its own, its terminal for example.
OpenPlain(p) ==
    /\ \E f \in Files : Install(p, f, "plain")
    /\ UNCHANGED <<orig, ksu_sulog_fd_active, reopened, mount_list, cursor>>

\* fork() or a unix socket hand a file on.
Pass(p, q, f) ==
    /\ f \in fds[p] \ fds[q]
    /\ fds' = [fds EXCEPT ![q] = @ \cup {f}]
    /\ f_count' = [f_count EXCEPT ![f] = @ + 1]
    /\ UNCHANGED <<kind, orig, ksu_sulog_fd_active, reopened, mount_list, cursor>>

Close(p, f) ==
    /\ f \in fds[p]
    /\ fds' = [fds EXCEPT ![p] = @ \ {f}]
    /\ f_count' = [f_count EXCEPT ![f] = @ - 1]
    /\ UNCHANGED <<kind, orig, ksu_sulog_fd_active, reopened, mount_list, cursor>>

\* Mutant: the reader's release leaves the flag to the next open.
ReleaseKeepingFlag(f) ==
    /\ kind[f] # "free" /\ f_count[f] = 0
    /\ kind' = [kind EXCEPT ![f] = "free"]
    /\ orig' = [orig EXCEPT ![f] = Nil]
    /\ f_count' = IF kind[f] = "wrapper" THEN [f_count EXCEPT ![orig[f]] = @ - 1]
                  ELSE f_count
    /\ reopened' = reopened \ {f}
    /\ UNCHANGED <<fds, ksu_sulog_fd_active, mount_list, cursor>>

\* The release after the last fput(): ksu_sulog_release() makes room for the
\* next reader, ksu_wrapper_release() puts the original.
Release(f) ==
    /\ kind[f] # "free" /\ f_count[f] = 0
    /\ kind' = [kind EXCEPT ![f] = "free"]
    /\ orig' = [orig EXCEPT ![f] = Nil]
    /\ f_count' = IF kind[f] = "wrapper" THEN [f_count EXCEPT ![orig[f]] = @ - 1]
                  ELSE f_count
    /\ ksu_sulog_fd_active' = (ksu_sulog_fd_active /\ kind[f] # "reader")
    /\ reopened' = reopened \ {f}
    /\ UNCHANGED <<fds, mount_list, cursor>>

\* do_get_sulog_fd() and ksu_install_sulog_fd(), under ksu_sulog_fd_lock.
ksu_install_sulog_fd(p) ==
    /\ ksu_supercall_handle_ioctl(p, "GET_SULOG_FD")
    /\ ~ksu_sulog_fd_active
    /\ \E f \in Files : Install(p, f, "reader")
    /\ ksu_sulog_fd_active' = TRUE
    /\ UNCHANGED <<orig, reopened, mount_list, cursor>>

\* ksu_create_file_wrapper(): get_file() on the original, whose operations
\* the wrapper forwards one by one.
ksu_create_file_wrapper(w, f) ==
    /\ orig' = [orig EXCEPT ![w] = f]
    /\ f_count' = [f_count EXCEPT ![w] = 1, ![f] = @ + 1]

\* ksu_install_file_wrapper(): on success the fget() of the original is
\* balanced; on every error path the state is as before.
ksu_install_file_wrapper(p, f) ==
    /\ ksu_supercall_handle_ioctl(p, "GET_WRAPPER_FD")
    /\ f \in fds[p]
    /\ \E w \in Free :
          /\ ksu_create_file_wrapper(w, f)
          /\ kind' = [kind EXCEPT ![w] = "wrapper"]
          /\ fds' = [fds EXCEPT ![p] = @ \cup {w}]
    /\ UNCHANGED <<ksu_sulog_fd_active, reopened, mount_list, cursor>>

\* ksu_wrapper_open(): a wrapper opened by its path opens the original's path
\* anew, which an anonymous inode refuses.  The reference of dentry_open() and
\* that of ksu_create_file_wrapper() both stay.
ksu_wrapper_open(p, w) ==
    /\ w \in fds[p] /\ kind[w] = "wrapper" /\ kind[orig[w]] = "plain"
    /\ \E f, v \in Free :
          /\ f # v
          /\ kind' = [kind EXCEPT ![f] = "plain", ![v] = "wrapper"]
          /\ orig' = [orig EXCEPT ![v] = f]
          /\ f_count' = [f_count EXCEPT ![f] = 2, ![v] = 1]
          /\ fds' = [fds EXCEPT ![p] = @ \cup {v}]
          /\ reopened' = reopened \cup {f}
    /\ UNCHANGED <<ksu_sulog_fd_active, mount_list, cursor>>

-----------------------------------------------------------------------------
(* The mount list *)

\* mount_list_lock: a writer waits for the walkers, which hold it to read.
Writable == \A w \in Walkers : cursor[w] = Nil

\* add_try_umount() with KSU_UMOUNT_WIPE.
umount_wipe ==
    /\ \E p \in Procs : ksu_supercall_handle_ioctl(p, "ADD_TRY_UMOUNT")
    /\ Writable
    /\ mount_list' = <<>>
    /\ UNCHANGED <<fileVars, cursor>>

\* ... KSU_UMOUNT_ADD: at the head, unless it is there already.
umount_add ==
    /\ \E p \in Procs : ksu_supercall_handle_ioctl(p, "ADD_TRY_UMOUNT")
    /\ Writable
    /\ \E m \in Paths \ Range(mount_list) : mount_list' = <<m>> \o mount_list
    /\ UNCHANGED <<fileVars, cursor>>

\* ... KSU_UMOUNT_DEL: every entry with that path, which is one (WalkSafe).
umount_del ==
    /\ \E p \in Procs : ksu_supercall_handle_ioctl(p, "ADD_TRY_UMOUNT")
    /\ Writable
    /\ \E i \in DOMAIN mount_list : mount_list' = RemoveAt(mount_list, i)
    /\ UNCHANGED <<fileVars, cursor>>

\* ksu_handle_umount(): list_for_each_entry with a sleep in every umount.
WalkStarts(w) ==
    /\ cursor[w] = Nil /\ mount_list # <<>>
    /\ cursor' = [cursor EXCEPT ![w] = Head(mount_list)]
    /\ UNCHANGED <<fileVars, mount_list>>

WalkGoesOn(w) ==
    /\ cursor[w] \in Range(mount_list)
    /\ LET i == CHOOSE k \in DOMAIN mount_list : mount_list[k] = cursor[w]
       IN  cursor' = [cursor EXCEPT ![w] = IF i = Len(mount_list) THEN Nil
                                           ELSE mount_list[i + 1]]
    /\ UNCHANGED <<fileVars, mount_list>>

SupercallsNext ==
    \/ \E p \in Procs :
          \/ ksu_install_fd(p) \/ OpenPlain(p) \/ ksu_install_sulog_fd(p)
          \/ \E f \in Files :
                \/ Close(p, f) \/ ksu_install_file_wrapper(p, f) \/ ksu_wrapper_open(p, f)
                \/ \E q \in Procs : Pass(p, q, f)
    \/ \E f \in Files : Release(f)
    \/ umount_wipe \/ umount_add \/ umount_del
    \/ \E w \in Walkers : WalkStarts(w) \/ WalkGoesOn(w)

SupercallsSpec == SupercallsInit /\ [][SupercallsNext]_supercallsVars

-----------------------------------------------------------------------------
SupercallsTypeOK ==
    /\ kind \in [Files -> Kinds \cup {"free"}]
    /\ f_count \in [Files -> Nat]
    /\ orig \in [Files -> Files \cup {Nil}]
    /\ fds \in [Procs -> SUBSET Files]
    /\ ksu_sulog_fd_active \in BOOLEAN
    /\ reopened \subseteq Files
    /\ mount_list \in Seq(Paths)
    /\ cursor \in [Walkers -> Paths \cup {Nil}]

\* What refers to f: tables of processes, and wrappers until they are freed.
Holders(f) == Cardinality({p \in Procs : f \in fds[p]})
              + Cardinality({w \in Files : kind[w] = "wrapper" /\ orig[w] = f})

\* The reader's flag is set exactly as long as a reader's file exists, and
\* there is never a second one: two readers would share the sulog's events.
\* The file outlives its descriptor as long as a fork or a wrapper holds it.
OneReader ==
    LET readers == {f \in Files : kind[f] = "reader"}
    IN  Cardinality(readers) <= 1 /\ (ksu_sulog_fd_active <=> readers # {})

\* No file is freed while a table or a wrapper refers to it, and none that
\* was not opened by ksu_wrapper_open() outlives its last holder; those keep
\* one reference too many.
RefsExact ==
    \A f \in Files :
        /\ f_count[f] = Holders(f) + (IF f \in reopened THEN 1 ELSE 0)
        /\ Holders(f) > 0 => kind[f] # "free"

\* Files, descriptors and wrappers account for each other, whatever forks,
\* wraps and closes came in which order.
FilesExact == OneReader /\ RefsExact

\* An entry that a walker of the mount list looks at is not freed under it,
\* and the list never holds a path twice (a second umount could hit a mount
\* below the module's).
WalkSafe ==
    /\ \A w \in Walkers : cursor[w] # Nil => cursor[w] \in Range(mount_list)
    /\ IsInjective(mount_list)

\* Nothing that a supercall made is freed in use or kept for nobody.
SupercallsExact == SupercallsTypeOK /\ FilesExact /\ WalkSafe
=============================================================================
