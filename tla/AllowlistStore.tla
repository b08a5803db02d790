--------------------------- MODULE AllowlistStore ---------------------------
(***************************************************************************)
(* The life of the allowlist across boots: kernel/policy/allowlist.c with  *)
(* the boot events (runtime/boot_event.c, core/init.c), the package        *)
(* observer and throne tracker (manager/), and the supercall that sets a   *)
(* profile (supercall/dispatch.c).                                         *)
(*                                                                         *)
(* The boot thread loads /data/adb/ksu/.allowlist, starts the observer and *)
(* completes the boot; each change of packages.list makes the observer     *)
(* look for the manager app and prune profiles of removed apps; the        *)
(* manager, once crowned, sets profiles; every change queues a task work   *)
(* on which pid 1 rewrites the file.  A crash keeps what was written back. *)
(*                                                                         *)
(* A section under allowlist_mutex is one action, except the dump, which   *)
(* holds the mutex (ipc = "dump") over one action per record.              *)
(***************************************************************************)
EXTENDS Integers, Sequences, FiniteSets

CONSTANTS
    Apps,           \* app ids that can have a profile
    Mgr,            \* the manager app
    Preserve,       \* KSU_APP_PROFILE_PRESERVE_UID: the default profile
    None,           \* no profile
    AppKinds,       \* profiles the manager gives apps
    FileVersions,   \* versions of the file found at first boot
    MaxSets, MaxMoves, MaxCrashes, MaxFaults,   \* bounds on the environment
    MaxUpsets   \* bound on package changes and faults together

(* A profile, as far as loading and migration tell profiles apart: without *)
(* su and with or without unmounting modules; with su in the current or    *)
(* the legacy SELinux domain, with or without FLAG_KSU_NO_NEW_PRIVS.       *)
SuKinds == {"su", "su_nnp", "su_legacy", "su_legacy_nnp"}
Kinds   == {"umount", "keep"} \cup SuKinds

ASSUME StoreAssumption ==
    /\ AppKinds \subseteq Kinds
    /\ None \notin Kinds
    /\ Preserve \notin Apps /\ Mgr \notin Apps
    /\ FileVersions \subseteq Nat
    /\ {MaxSets, MaxMoves, MaxCrashes, MaxFaults, MaxUpsets} \subseteq Nat

Uids     == Apps \cup {Preserve}
Trackers == {"boot", "observer"}
VER      == 4       \* KSU_APP_PROFILE_VER, FILE_FORMAT_VERSION

VARIABLES
    mem,            \* allow_list: the profile of each uid
    default_umount, \* default_non_root_profile.umount_modules
    ver, recs,      \* the file: version in its header (0: no full header), records
    disk_ver, disk_recs,    \* what of the file a crash leaves
    works,          \* task works queued on pid 1
    ipc, left,      \* pid 1: step of the dump, uids it has still to write
    bpc, lver, off, \* the boot thread: step, version and offset of the load
    late,           \* ksu_late_loaded
    boot_completed,
    observing,      \* the fsnotify mark on /data/system is set
    crowned,        \* ksu_manager_appid is the manager's
    packages,       \* packages.list
    tpc, snap,      \* each track_throne(): step, uid list it has read
    mpc             \* the manager's ioctl

(* Never read by the code's actions.                                       *)
VARIABLES
    failed,         \* a request or a write was lost since the last good dump
    had,            \* what each uid's profile was since the last dump began
    sets, moves, crashes, faults    \* used up of the bounds

memVars   == <<mem, default_umount>>
fileVars  == <<ver, recs>>
diskVars  == <<disk_ver, disk_recs>>
initVars  == <<ipc, left>>
bootVars  == <<bpc, lver, off, late, boot_completed, observing>>
trackVars == <<crowned, packages, tpc, snap>>
budget    == <<sets, moves, crashes, faults>>
vars == <<memVars, fileVars, diskVars, works, initVars, bootVars, trackVars, mpc,
          failed, had, budget>>

-----------------------------------------------------------------------------
(* Loading *)

\* Mutant: the rewrite of version 2 forgets to fall through to version 3.
MigrateNoFallthrough(version, k) ==
    IF k \notin SuKinds THEN k
    ELSE CASE version = 2 -> "su"
           [] version = 3 -> IF k = "su_legacy" THEN "su_legacy_nnp" ELSE "su_nnp"
           [] OTHER -> k

\* Version 2 had its own domain for su, versions before 4 no flags.
migrate_profile(version, k) ==
    IF k \notin SuKinds THEN k
    ELSE CASE version = 2 -> "su_nnp"
           [] version = 3 -> IF k \in {"su", "su_nnp"} THEN "su_nnp" ELSE "su_legacy_nnp"
           [] OTHER -> k

Readable(v) == 2 <= v /\ v <= VER

\* The profile a load of the file gives u.
Loaded(u) ==
    LET mine == {i \in 1..Len(recs) : recs[i].uid = u}
    IN  IF Readable(ver) /\ mine # {}
        THEN migrate_profile(ver, recs[CHOOSE i \in mine : \A j \in mine : j <= i].kind)
        ELSE None

-----------------------------------------------------------------------------
OldKinds(v) == IF v = VER THEN AppKinds ELSE {"umount", "su", "su_legacy"}

\* The file some earlier version left: one app's record or none, and the
\* default profile or none.
OldFiles(v) ==
    LET apps == [uid : Apps, kind : OldKinds(v)]
        def  == [uid |-> Preserve, kind |-> "keep"]
    IN  IF v = 0 THEN {<<>>}
        ELSE {<<>>, <<def>>} \cup {<<a>> : a \in apps} \cup {<<a, def>> : a \in apps}

Init ==
    /\ mem = [u \in Uids |-> None]
    /\ default_umount = TRUE
    /\ works = 0
    /\ ipc = "idle" /\ left = {}
    /\ bpc = "early" /\ lver = 0 /\ off = 0
    /\ late \in BOOLEAN
    /\ boot_completed = FALSE /\ observing = FALSE /\ crowned = FALSE
    /\ tpc = [t \in Trackers |-> "idle"] /\ snap = [t \in Trackers |-> {}]
    /\ mpc = "idle"
    /\ failed = FALSE
    /\ ver \in FileVersions
    /\ recs \in OldFiles(ver)
    /\ disk_ver = ver /\ disk_recs = recs
    /\ packages = Apps \cup {Mgr}
    /\ had = [u \in Uids |-> {Loaded(u)}]
    /\ sets = 0 /\ moves = 0 /\ crashes = 0 /\ faults = 0

-----------------------------------------------------------------------------
(* Shared parts *)

\* What memory says now counts as recent.
Note == had' = [u \in Uids |-> had[u] \cup {mem'[u]}]

\* The environment may still change the packages or make a step fail.
Upset == moves + faults < MaxUpsets
Fault == Upset /\ faults < MaxFaults /\ faults' = faults + 1 /\ failed' = TRUE

NoFault == UNCHANGED <<failed, faults>>

MutexFree == ipc # "dump"

\* ksu_set_app_profile(), the list part; it is refused without memory.
set_app_profile(u, k) ==
    /\ MutexFree
    /\ mem' = [mem EXCEPT ![u] = k]
    /\ default_umount' = IF u = Preserve THEN k = "umount" ELSE default_umount
    /\ Note

\* ksu_persistent_allow_list(): the work is queued, or lost for want of
\* memory or because pid 1 does not take it.
persistent_allow_list ==
    \/ works' = works + 1 /\ NoFault
    \/ UNCHANGED works /\ Fault

-----------------------------------------------------------------------------
(* The boot thread: on_post_fs_data(), which runs once, on ksud's report   *)
(* or at the latest on the exec of zygote, and on_boot_completed(); or,    *)
(* when the module is loaded late, the same part of kernelsu_init().       *)

BootOnly == UNCHANGED <<fileVars, diskVars, initVars, late, packages, crowned, mpc,
                        sets, moves, crashes>>

\* Mutant: the observer is started before the load.
LoadOpenObserving ==
    /\ bpc = "early"
    /\ lver' = ver /\ off' = 0
    /\ bpc' = IF Readable(ver) THEN "load" ELSE "observe"
    /\ observing' = TRUE
    /\ UNCHANGED <<memVars, works, boot_completed, tpc, snap, had>>
    /\ BootOnly /\ NoFault

LoadOpen ==
    /\ bpc = "early"
    /\ lver' = ver /\ off' = 0
    /\ bpc' = IF Readable(ver) THEN "load" ELSE "observe"
    /\ UNCHANGED <<memVars, works, boot_completed, observing, tpc, snap, had>>
    /\ BootOnly /\ NoFault

\* The file is read record by record, as it is at that moment.
LoadRecord ==
    /\ bpc = "load" /\ off < Len(recs)
    /\ off' = off + 1
    /\ LET r == recs[off + 1]
       IN  \/ set_app_profile(r.uid, migrate_profile(lver, r.kind)) /\ NoFault
           \/ MutexFree /\ UNCHANGED <<memVars, had>> /\ Fault
    /\ UNCHANGED <<works, bpc, lver, boot_completed, observing, tpc, snap>>
    /\ BootOnly

LoadEnd ==
    /\ bpc = "load" /\ off >= Len(recs)
    /\ bpc' = IF lver < VER THEN "load_persist" ELSE "observe"
    /\ lver' = 0 /\ off' = 0
    /\ UNCHANGED <<memVars, works, boot_completed, observing, tpc, snap, had>>
    /\ BootOnly /\ NoFault

LoadPersist ==
    /\ bpc = "load_persist"
    /\ bpc' = "observe"
    /\ persistent_allow_list
    /\ UNCHANGED <<memVars, lver, off, boot_completed, observing, tpc, snap, had>>
    /\ BootOnly

\* ksu_observer_init(), whose failure is ignored.
ObserverInit ==
    /\ bpc = "observe"
    /\ bpc' = "complete"
    /\ observing' \in BOOLEAN
    /\ UNCHANGED <<memVars, works, lver, off, boot_completed, tpc, snap, had>>
    /\ BootOnly /\ NoFault

BootCompleted ==
    /\ bpc = "complete"
    /\ bpc' = "done"
    /\ boot_completed' = TRUE
    /\ tpc' = [tpc EXCEPT !["boot"] = "read"]
    /\ UNCHANGED <<memVars, works, lver, off, observing, snap, had>>
    /\ BootOnly /\ NoFault

-----------------------------------------------------------------------------
(* track_throne(), called by the boot thread and by the observer, which    *)
(* runs inside the task that replaced packages.list.                       *)

TrackOnly == UNCHANGED <<fileVars, diskVars, initVars, bootVars, mpc, sets, crashes>>
Step(t, from, to) == tpc[t] = from /\ tpc' = [tpc EXCEPT ![t] = to]
FreeList(t) == snap' = [snap EXCEPT ![t] = {}]

PackagesChange(apps) ==
    /\ Upset /\ moves < MaxMoves /\ moves' = moves + 1
    /\ apps # packages
    /\ packages' = apps
    /\ Step("observer", "idle", IF observing THEN "read" ELSE "idle")
    /\ UNCHANGED <<memVars, works, crowned, snap, had>>
    /\ TrackOnly /\ NoFault

TrackRead(t) ==
    /\ Step(t, "read", IF t = "boot" /\ ~late THEN "prune" ELSE "crown")
    /\ snap' = [snap EXCEPT ![t] = packages]
    /\ UNCHANGED <<memVars, works, crowned, packages, had, moves>>
    /\ TrackOnly /\ NoFault

\* A line that cannot be read or parsed ends the list there, and the rest
\* of the call goes on with what it has.
TrackReadPart(t) ==
    /\ Upset /\ faults < MaxFaults /\ faults' = faults + 1
    /\ Step(t, "read", IF t = "boot" /\ ~late THEN "prune" ELSE "crown")
    /\ \E part \in SUBSET packages \ {packages} : snap' = [snap EXCEPT ![t] = part]
    /\ UNCHANGED <<memVars, works, crowned, packages, failed, had, moves>>
    /\ TrackOnly

\* packages.list cannot be opened, or no memory for its entries.
TrackAbort(t) ==
    /\ Step(t, "read", "idle")
    /\ UNCHANGED <<memVars, works, crowned, packages, snap, had, moves>>
    /\ TrackOnly /\ NoFault

\* The manager's apk has been found: its package is looked up in the list.
crown_manager(t) == IF Mgr \in snap[t] THEN crowned' = TRUE ELSE UNCHANGED crowned

\* The walk of /data/app finds the apk or not: it may not be there, not be
\* readable, or be in the cache of apks that are not the manager's.
search_manager(t) == crown_manager(t) \/ UNCHANGED crowned

\* A manager that is gone is dethroned; without one /data/app is searched.
TrackCrown(t) ==
    /\ Step(t, "crown", "prune")
    /\ \/ crowned /\ Mgr \in snap[t] /\ UNCHANGED crowned
       \/ crowned /\ Mgr \notin snap[t] /\ crowned' = FALSE
       \/ ~crowned /\ search_manager(t)
    /\ UNCHANGED <<memVars, works, packages, snap, had, moves>>
    /\ TrackOnly /\ NoFault

is_uid_exist(t, u) == u \in snap[t]

Doomed(t) == {u \in Uids \ {Preserve} : mem[u] # None /\ ~is_uid_exist(t, u)}

PruneEarly(t) ==
    /\ ~boot_completed
    /\ Step(t, "prune", "idle")
    /\ UNCHANGED <<memVars, works, crowned, packages, had, moves>>
    /\ FreeList(t) /\ TrackOnly /\ NoFault

\* Mutant: a prune is not saved.
PruneUnsaved(t) ==
    /\ boot_completed /\ MutexFree
    /\ mem' = [u \in Uids |-> IF u \in Doomed(t) THEN None ELSE mem[u]]
    /\ Note
    /\ Step(t, "prune", "idle")
    /\ UNCHANGED <<default_umount, works, crowned, packages, moves>>
    /\ FreeList(t) /\ TrackOnly /\ NoFault

prune_allowlist(t) ==
    /\ boot_completed /\ MutexFree
    /\ mem' = [u \in Uids |-> IF u \in Doomed(t) THEN None ELSE mem[u]]
    /\ Note
    /\ Step(t, "prune", IF Doomed(t) = {} THEN "idle" ELSE "persist")
    /\ UNCHANGED <<default_umount, works, crowned, packages, moves>>
    /\ FreeList(t) /\ TrackOnly /\ NoFault

PrunePersist(t) ==
    /\ Step(t, "persist", "idle")
    /\ persistent_allow_list
    /\ UNCHANGED <<memVars, crowned, packages, snap, had, moves>>
    /\ TrackOnly

-----------------------------------------------------------------------------
(* The manager: do_set_app_profile().                                      *)

only_manager == crowned

MgrOnly == UNCHANGED <<fileVars, diskVars, initVars, bootVars, trackVars, moves, crashes>>

SetProfile(u, k) ==
    /\ only_manager /\ mpc = "idle"
    /\ sets < MaxSets /\ sets' = sets + 1
    /\ set_app_profile(u, k)
    /\ mpc' = "persist"
    /\ UNCHANGED works
    /\ MgrOnly /\ NoFault

\* Mutant: the profile is set but not saved.
SetPersistForgotten ==
    /\ mpc = "persist"
    /\ mpc' = "idle"
    /\ UNCHANGED <<works, memVars, had, sets>>
    /\ MgrOnly /\ NoFault

SetPersist ==
    /\ mpc = "persist"
    /\ mpc' = "idle"
    /\ persistent_allow_list
    /\ UNCHANGED <<memVars, had, sets>>
    /\ MgrOnly

-----------------------------------------------------------------------------
(* pid 1: do_persistent_allow_list().                                      *)

DumpOnly == UNCHANGED <<memVars, diskVars, bootVars, trackVars, mpc, sets, moves, crashes>>

\* Mutant: the file is opened without O_TRUNC and appended to.
DumpOpenAppend ==
    /\ ipc = "idle" /\ works > 0
    /\ works' = works - 1
    /\ ipc' = "head"
    /\ UNCHANGED <<fileVars, left, had>>
    /\ DumpOnly /\ NoFault

\* O_CREAT | O_TRUNC: nothing of the old file is left.
DumpOpen ==
    /\ ipc = "idle" /\ works > 0
    /\ works' = works - 1
    /\ ver' = 0 /\ recs' = <<>>
    /\ ipc' = "head"
    /\ UNCHANGED <<left, had>>
    /\ DumpOnly /\ NoFault

DumpOpenFails ==
    /\ ipc = "idle" /\ works > 0
    /\ works' = works - 1
    /\ UNCHANGED <<fileVars, initVars, had>>
    /\ DumpOnly /\ Fault

\* Magic and version, or one of the writes fails and the dump is given up.
DumpHeader ==
    /\ ipc = "head"
    /\ \/ ver' = VER /\ ipc' = "lock" /\ NoFault
       \/ UNCHANGED ver /\ ipc' = "idle" /\ Fault
    /\ UNCHANGED <<recs, works, left, had>>
    /\ DumpOnly

\* mutex_lock(): from here on the records are those of memory as it is.
DumpLock ==
    /\ ipc = "lock"
    /\ ipc' = "dump"
    /\ left' = {u \in Uids : mem[u] # None}
    /\ had' = [u \in Uids |-> {mem[u]}]
    /\ failed' = FALSE
    /\ UNCHANGED <<fileVars, works, faults>>
    /\ DumpOnly

\* One kernel_write(), whose failure is ignored.
DumpRecord(u) ==
    /\ ipc = "dump" /\ u \in left
    /\ left' = left \ {u}
    /\ \/ recs' = Append(recs, [uid |-> u, kind |-> mem[u]]) /\ NoFault
       \/ UNCHANGED recs /\ Fault
    /\ UNCHANGED <<ver, works, ipc, had>>
    /\ DumpOnly

DumpUnlock ==
    /\ ipc = "dump" /\ left = {}
    /\ ipc' = "idle"
    /\ UNCHANGED <<fileVars, works, left, had>>
    /\ DumpOnly /\ NoFault

-----------------------------------------------------------------------------
(* The storage and the machine *)

\* The page cache reaches the disk, at any point of a dump.  Nobody could
\* tell after the last crash of the bound.
Writeback ==
    /\ crashes < MaxCrashes
    /\ diskVars # fileVars
    /\ disk_ver' = ver /\ disk_recs' = recs
    /\ UNCHANGED <<memVars, fileVars, works, initVars, bootVars, trackVars, mpc,
                   failed, had, budget>>

\* Every thread and all of memory is gone; the next boot begins.
Crash ==
    /\ crashes < MaxCrashes /\ crashes' = crashes + 1
    /\ mem' = [u \in Uids |-> None]
    /\ default_umount' = TRUE
    /\ works' = 0
    /\ ipc' = "idle" /\ left' = {}
    /\ bpc' = "early" /\ lver' = 0 /\ off' = 0
    /\ late' \in BOOLEAN
    /\ boot_completed' = FALSE /\ observing' = FALSE /\ crowned' = FALSE
    /\ tpc' = [t \in Trackers |-> "idle"] /\ snap' = [t \in Trackers |-> {}]
    /\ mpc' = "idle"
    /\ failed' = FALSE
    /\ ver' = disk_ver /\ recs' = disk_recs
    /\ had' = [u \in Uids |-> {Loaded(u)'}]
    /\ UNCHANGED <<diskVars, packages, sets, moves, faults>>

-----------------------------------------------------------------------------
BootNext == LoadOpen \/ LoadRecord \/ LoadEnd \/ LoadPersist \/ ObserverInit \/ BootCompleted

TrackNext(t) == TrackRead(t) \/ TrackReadPart(t) \/ TrackAbort(t) \/ TrackCrown(t)
                \/ PruneEarly(t) \/ prune_allowlist(t) \/ PrunePersist(t)

SetNext == \/ \E u \in Apps, k \in AppKinds : SetProfile(u, k)
           \/ \E k \in {"umount", "keep"} : SetProfile(Preserve, k)

DumpNext == DumpOpen \/ DumpOpenFails \/ DumpHeader \/ DumpLock
            \/ (\E u \in Uids : DumpRecord(u)) \/ DumpUnlock

Next ==
    \/ BootNext
    \/ \E t \in Trackers : TrackNext(t)
    \/ \E apps \in SUBSET (Apps \cup {Mgr}) : PackagesChange(apps)
    \/ SetNext \/ SetPersist
    \/ DumpNext
    \/ Writeback \/ Crash

Spec == Init /\ [][Next]_vars

(* The boot goes on, an ioctl or a handler that has started ends, and      *)
(* pid 1 keeps returning to user mode, where it runs its task works.       *)
FairSpec ==
    /\ Spec
    /\ WF_vars(BootNext) /\ WF_vars(SetPersist) /\ WF_vars(DumpNext)
    /\ \A t \in Trackers : WF_vars(TrackNext(t))

-----------------------------------------------------------------------------
(* Properties *)

Record == [uid : Uids, kind : Kinds]

(* Memory, file and the threads' steps stay in their types; no work runs   *)
(* that was not queued.                                                    *)
TypeOK ==
    /\ mem \in [Uids -> Kinds \cup {None}] /\ default_umount \in BOOLEAN
    /\ ver \in Nat /\ disk_ver \in Nat
    /\ recs \in Seq(Record) /\ disk_recs \in Seq(Record)
    /\ works \in Nat
    /\ ipc \in {"idle", "head", "lock", "dump"} /\ left \subseteq Uids
    /\ bpc \in {"early", "load", "load_persist", "observe", "complete", "done"}
    /\ lver \in Nat /\ off \in Nat
    /\ late \in BOOLEAN /\ boot_completed \in BOOLEAN
    /\ observing \in BOOLEAN /\ crowned \in BOOLEAN
    /\ packages \subseteq Apps \cup {Mgr}
    /\ tpc \in [Trackers -> {"idle", "read", "crown", "prune", "persist"}]
    /\ snap \in [Trackers -> SUBSET (Apps \cup {Mgr})]
    /\ mpc \in {"idle", "persist"}
    /\ failed \in BOOLEAN
    /\ had \in [Uids -> SUBSET (Kinds \cup {None})]

\* Nobody stands between a change of memory and its save.
Settled ==
    /\ bpc \in {"observe", "complete", "done"}
    /\ works = 0 /\ ipc = "idle" /\ mpc = "idle"
    /\ \A t \in Trackers : tpc[t] # "persist"
    /\ ~failed

FileMatches == \A u \in Uids : Loaded(u) = mem[u]

(* Once every queued dump has run, a reboot would load exactly the list in *)
(* memory: a profile set or pruned before, during or after a dump is never *)
(* left out of the file, unless a request or a write failed and no dump    *)
(* followed.                                                               *)
SettledFileMatches == Settled => FileMatches

(* The load of the list is never cut short by a dump that truncates the    *)
(* file it reads, and no profile set meanwhile is overwritten by an older  *)
(* one from the file: nothing can change the list before it is loaded.     *)
LoadUndisturbed == bpc \in {"early", "load"} => works = 0 /\ ipc = "idle" /\ mpc = "idle"

(* A record of the file is never older than the last dump's critical       *)
(* section: whatever fails or is interrupted, a reboot gives a uid no      *)
(* profile that it had lost or changed before that dump.                   *)
NoStaleGrant == \A u \in Uids : Loaded(u) \in had[u] \cup {None}

Migrated == AppKinds \cup {"umount", "keep", "su_nnp", "su_legacy_nnp"}

(* A profile from a file of an older version is never used, nor written to *)
(* a file of the current version, without the changes of every version in  *)
(* between, also when the rewrite of the file is interrupted and repeated. *)
NoHalfMigrated ==
    /\ \A u \in Uids : mem[u] \in Migrated \cup {None}
    /\ ver = VER => \A i \in 1..Len(recs) : recs[i].kind \in Migrated

(* The default for apps without a profile is what the preserved uid's      *)
(* profile says, through prunes, dumps and reloads.                        *)
DefaultFollowsProfile == default_umount = (mem[Preserve] # "keep")

(* A profile means the same before and after loads, migrations, prunes and *)
(* crashes.                                                                *)
MeaningKept == TypeOK /\ NoHalfMigrated /\ DefaultFollowsProfile

(* Unless something failed, the file catches up with memory.               *)
EventuallySaved == []<>(failed \/ FileMatches)
=============================================================================
