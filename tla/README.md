# A verification project for KernelSU

TLA+ models of KernelSU (`src/kernel`, `src/userspace`) and of the kpm runtime
it ships (`src/kpm/kernel`), with TLC runs on small instances and TLAPS proofs
for all instances. `PROJECT.json` maps every definition to the lines it models
and lists runs, mutants, hazards, findings and theorems.

Parse a module with SANY, check a run with `tlc -config X.cfg M`, check proofs
with `tlapm M.tla`.

## 1. Inventory

### 1.1 The kernel module

| Part | State | Operations | Correct when |
|---|---|---|---|
| **Event queue** `infra/event_queue.c` | list of nodes, counters, drop window, drop window being copied, closed flag, `read_lock` mutex, wait queue | push, drop, read, poll, close, destroy | no event or loss is forgotten, repeated or misreported; order is kept; no wake-up is lost; destroy cannot hang |
| **Allowlist in memory** `policy/allowlist.c` | RCU hash table of reference-counted profiles, `allow_list_count`, bitmap | set, prune, three lookups, put | no use after free, exact references, a lookup answers with a state the uid really had |
| **Allowlist on disk** `policy/allowlist.c` | `/data/adb/ksu/.allowlist`: header with version, records | load with migration, save by task work on pid 1 | no crash or failure revives an old grant; file and memory agree once saves have run; migration is never half done |
| **Boot events** `runtime/boot_event.c`, `core/init.c` | once-flags, `ksu_boot_completed` | post-fs-data, module-mounted, boot-completed, init, exit | the allowlist is loaded before anything can change it |
| **Manager** `manager/pkg_observer.c`, `throne_tracker.c`, `apk_sign.c` | fsnotify mark, app id of the manager, cache of apks | rescan on each `packages.list`, verify, crown, dethrone, prune | only a genuine apk is crowned, it is crowned soon, no grant passes to another app |
| **init.rc injection** `runtime/ksud_integration.c` | hook state, positions in the two scripts, buffer of the modules' script | fstat and read hooks, proxies | pid 1 reads file and scripts exactly once, in order |
| **Process marker** `hook/tp_marker.c`, `hook/setuid_hook.c` | a flag per task, tracepoint count | mark, unmark, rescan | a process allowed su is marked |
| **Root** `policy/app_profile.c`, `feature/sucompat.c`, `infra/su_mount_ns.c`, `infra/seccomp_cache.c` | credentials and flags of tasks, mount namespaces | execve of su, GRANT_ROOT, setresuid | root only by a grant; sealed tasks stay sealed |
| **Kernel umount** `feature/kernel_umount.c` | mount list, switch | add, delete, wipe, umount on setuid | never in the global namespace; no entry freed under a walker |
| **Sulog** `sulog/event.c`, `sulog/fd.c` | the queue instance, the single reader file | capture, emit, take the reader's file | entries under the right uid; at most one reader |
| **Supercalls** `supercall/*.c`, **file wrapper** `infra/file_wrapper.c` | driver, reader and wrapper files | ioctls, each with a permission test; wrap, reopen, release | references exact whatever forks and closes come |
| **Hooks** `hook/*`, `infra/symbol_resolver.c`, `policy/feature.c` | patched slots, list of replaced entries, handlers | hook, unhook, dispatch, set a feature | unload restores every slot; nothing half hooked |
| **SELinux** `selinux/*.c`, `feature/selinux_hide.c` | policy database, its backup | rules, batches, publication, answers to apps | rules mean what they say, none is lost, no reader on a freed policy |

### 1.2 User space and kpm

| Part | State | Hard because |
|---|---|---|
| **ksud modules** `module.rs`, `init_event.rs` | directories and mark files, `modules.rc` | update is a removal and a rename; a crash in between; the kernel injects `modules.rc` before ksud acts |
| **Settings** `feature.rs`, `module_config.rs` | `.feature_config`, configuration of modules | modules and the user compete for a feature; files rewritten in place |
| **Log daemon** `sulog.rs` | reader fd, log files, retention | restarts, duplicated daemons, rotation |
| **sepolicy rules** `sepolicy.rs` | none | two programs must agree on a format |
| **Boot images** `boot_patch.rs`, `utils.rs` | partitions of two slots, backups | kills between steps, patching of patched images |
| **Kernel images** `lkm_image.rs`, `lkm_image_btf.rs`, `lkm_image_bootstrap.S` | none | structure recovered from a binary, calls redirected at boot |
| **ksuinit** `init.rs`, `lib.rs` | none | a retry that depends on the kernel's log |
| **kpm** `kpm/kernel/base`, `kpm/kernel/patch` | heap, hook slots, chains, storage, modules | code moved between addresses; no locks |
| **Tools, manager app, website, kpm tools** | | outside the core logic |

### 1.3 How the parts interact

* pid 1's read of `init.rc` brings ksud into the boot, with the scripts of modules
  that the last command or boot wrote to `modules.rc`; ksud reports the boot
  events by ioctl. post-fs-data loads the allowlist and then starts the observer;
  boot-completed runs the throne tracker.
* The observer runs the throne tracker inside the task that replaced
  `packages.list`. The tracker crowns the manager; only then can profiles be set.
* Each set, prune or migrating load queues a task work on pid 1, which rewrites
  the allowlist file, and rescans the marks of all tasks.
* Marked tasks reach the hooks of execve and setresuid, which look profiles up
  under RCU, give root, unmount, and emit events into the event queue, which
  ksud's log daemon reads.
* ksud turns texts of rules into batches; the kernel applies each to a copy of the
  policy and publishes it. selinux_hide answers apps from the copy of the boot.
* ksud patches boot images so that the kernel, or ksuinit in the ramdisk, loads
  `kernelsu.ko`.

### 1.4 What is hard

Shared state reached from any task, from task works on pid 1 and from fsnotify
callbacks; copies to user space that sleep or fault between two locked sections;
wake-ups after unlock; the only copy of a file being truncated before it is
rewritten; slots patched one by one under running code; partial reads and writes;
crashes at any point; formats that two programs must agree on. `PROJECT.json`
lists each hazard at its line with the properties that would catch it.

## 2. Modules

| Module | Models | Extends / instantiates |
|---|---|---|
| `EventQueue` | the event queue, its writers, readers, pollers and owner | instantiates `EventLog` |
| `EventLog` | what the queue promises: the abstract specification | |
| `AllowlistRcu` | one bucket of the allowlist with its RCU readers | |
| `AllowlistStore` | allowlist file, boot, observer, tracker, manager, pid 1, crashes | |
| `SuSession` | tasks, marks, root, umount, log entries | |
| `Supercalls` | files of the supercalls, wrappers, mount list | |
| `Manager` | signature check, search for the manager, pruning | |
| `RcInject` | the injection into `init.rc` | |
| `Hooks` | slots, dispatcher, features, init and exit | |
| `SePolicy`, `KsudSepolicy` | the policy database and its replacement; rules of ksud | `KsudSepolicy` extends `SePolicy` |
| `KsudModules`, `KsudConfig`, `KsudLog` | ksud's modules, settings, log daemon | |
| `Kallsyms`, `KernelBtf`, `LkmImage` | analysis and patching of a kernel Image, and its boot | `LkmImage` extends `Kallsyms` |
| `BootPatch`, `KsuLoad` | boot partitions and their backups; the load by ksuinit | |
| `Tlsf`, `KpmRelocate`, `KpmHooks`, `KpmStore`, `KpmModules` | kpm | |
| `MCDevice`, `MCBootImage`, `MCKpm` | instances of several modules: a behaviour is one of one part, with the others at rest | the modules named in them |
| other `MC*` | symmetry and inputs for TLC | the module named |
| `EventQueueProofs`, `AllowlistRcuProofs`, `AllowlistStoreProofs`, `HooksProofs` | theorems | the module named |
| `RootProofs` | theorems about `SuSession`, `BootPatch` | these two |
| `DeviceProofs` | theorems about `RcInject`, `Manager`, `Supercalls`, `KsudConfig`, `KsudModules`, `KsudLog` | these six |
| `SePolicyProofs` | theorems | `KsudSepolicy`, and with it `SePolicy` |
| `KpmProofs` | theorems about `KpmRelocate`, `KpmHooks`, `KpmStore`, `KpmModules` | these four |

The parts that `MCDevice`, `MCBootImage` and `MCKpm` put side by side share no
state, so nothing is gained by their product; a variable `part` chooses one in
the initial state.

### 2.1 EventQueue

State variables are the fields of `struct ksu_event_queue`; the three fields of
a drop window form one record. A section under the spinlock is one action. What
lies between two sections is not: `read_drop` is `DropCollect` and then
`DropDone` or `DropRestore`; `read_node` is `NodePeek` and then `NodeDel` or
`NodeFault`; the wake-up after an unlock is `WriterWakes` or `OwnerWakes`.
`wait_event_interruptible` is spelled out (`PrepareToWait`, `WaitClosed`,
`WaitData`, `Wakeup`, `Signal`), because a lost wake-up would hide there. `NodeDel`
unlinks its node wherever it is by then, as `list_del` does, rather than taking
the head: that it is the head is a property. `lost`, `got`, `told` and `purged`
record what the outside has seen, and no action reads them to decide.

Abstractions: sizes count units of 24 bytes (both fixed structures have that
size); payloads carry only their length; event types and flags are left out. A
push without memory and one without room are one action, `drop`, which any event
can meet. Refused calls (zero-sized read, oversized push, push on a closed
queue) change nothing and are left out.

`EventLog` is the same queue without locks, buffers and wake-ups. `ImplementsLog`
maps the window numbers back to the set of losses they cover.

### 2.2 AllowlistRcu

One hash bucket, since buckets share nothing but the count. Each store a lookup
can observe is an action of the writer, each pointer load one of a reader. There
is one writer process because writers hold `allowlist_mutex`. An unlinked node
keeps its next pointer, as `hlist_replace_rcu` and `hlist_del_rcu` leave it.
`kfree_rcu` waits for the readers that were inside a section at that time and
the memory is then reused (`Reclaim`, `Allocate`). `MaxCount` stands for
`U16_MAX`. The bitmap of small uids is left out; the walk is what can go wrong.

### 2.3 AllowlistStore

The processes are the boot thread, the two callers of `track_throne` (boot
thread and observer), the manager's ioctl, pid 1 and the storage. A section
under `allowlist_mutex` is one action, except for the dump, which writes record
by record while it holds the mutex. Profiles are reduced to six kinds, which is
what migration distinguishes. `Writeback` copies the current content of the file
to the disk at any moment, also in the middle of a dump; a crash keeps the disk
and loses everything else. `had` remembers, per uid, the profiles since the last
dump took the mutex.

Failures: a work that cannot be queued, an open or a header write that fails, a
record that is not written, a record that cannot be loaded, a `packages.list`
that cannot be opened or is cut short by a bad line. They are bounded by
`MaxFaults`, and together with package changes by `MaxUpsets`, except the ones
that cost nothing (`TrackAbort`, an observer that could not be set up).

Abstractions: profiles that `profile_valid` refuses change nothing and are left
out. So are the refresh of process marks after each change (it is in
`SuSession`), the end of the module, and the reordering of
blocks by the file system (a write-back takes the file as it is). The walk of
`/data/app` is nondeterministic: it finds the manager's apk or not (`Manager`
has it in detail).

### 2.4 RcInject

pid 1 is a single thread; its reads may have any sizes from `Counts`, and the
file's own read may return less than asked for. Bytes are numbered in the order
they should arrive, so a repeated, skipped or stale byte is visible in `out`.
`iter` chooses between `read_proxy` and `read_iter_proxy`, which differ in what a
fault leaves behind. A fault ends the read; a copy that faults and is followed by
a successful one within the same `read_iter` is not modelled.

### 2.5 SuSession

A task is forked by pid 1 or by another task, execs `app_process`, is
specialised by setresuid and asks for root by execve of su or by ioctl. A
handler is several steps where others can come between: read the profile, set or
clear the mark, unmount; check the grant, look the profile up, commit, emit.
Profiles are four kinds. `overtaken` names the tasks for which the code is known
to leave a window: one whose profile changes between the read and the clearing of
the mark in `ksu_handle_setresuid`, and a child of init that a scan sees before
its exec. The next scan repairs both, and `MarksKept` speaks of the others.
Two more windows are part of the model and of the wording of the properties: a
grant that is revoked between check and lookup is answered with the default
profile, and a user of the tracepoint that was there before the module is not
counted. The switches of su_compat, kernel_umount and the log are on.

### 2.6 Supercalls

Files with reference counts and tables of processes; the last `fput` only queues
the release. `ksu_ioctl_handlers` has each command with its permission test.
`ksu_wrapper_open` keeps a reference too many on the file it opens, as the code
does (`reopened`); `RefsExact` counts it.

### 2.7 Manager

An apk is a sequence of cells and the signature check reads it as the code does.
`packages.list` is rewritten at any time, also between its read and the walk of
`/data/app`; app ids are reused. One handler runs at a time: two at once walk and
clear the cache without a lock, which is undefined and left out. A crown passes
with an app id that goes to another app within one list (`CrownedByTheSecondEvent`
says so).

### 2.8 Hooks

Each function that patches is a queue of steps (`work`), taken by the thread that
initializes and exits or by the ioctl that sets a feature; tasks call through the
slots in between. Symbols and pages may be missing. Two things the code leaves
are part of the properties' wording: the open of the status page stays hooked at
exit unless selinux_hide was running, and the pointers of slots outside the
system call table are set after the patch and cleared before others have left
(`selinux_hide.c` 380-396, `lsm_hook.c`), so that a call in between finds none.

### 2.9 SePolicy and KsudSepolicy

A policy database is a record of sets and functions; every rule of `sepolicy.c`
is an operator on it, with its expansion of missing names, and decisions are
computed from the database (`context_struct_compute_av`), so that the properties
speak of decisions. Publication follows `rules.c` under `policy_mutex` and RCU:
`mem` gives the database of each allocated slot, and a slot that is not in its
domain is free. The history variable `ideal` is the boot's database with the
module's rules and then every batch that the ioctl accepted; `NoLostRule` compares
the policy in use with it.
`KsudSepolicy` parses texts and sends the batches ksud would send. Known limits of
the parser are modelled: a `;` in a comment, lists of more than 100 characters,
characters after the last operand.

### 2.10 KsudModules, KsudConfig, KsudLog

One file operation is one step and the power may fail after each. `KsudModules`
has commands, the boot's pass over the directories and `modules.rc`; the history
variables `clean`, `off` and `cut` say what the user was promised. `KsudConfig`
has several processes, managed features and interrupted saves, which leave
`.feature_config` torn. `KsudLog` has two daemons, kills, failures of the reader
and of writes, midnight and retention. Processes that write the same file at once
are left out: `module_config.rs` and `modules.rc` use one name for the temporary
file, so they lose updates or fail.

### 2.11 Kallsyms, KernelBtf, LkmImage, KsuLoad, BootPatch

An Image is a sequence of cells, with the constants of the format scaled down.
`Kallsyms` finds token tables, names and addresses and chooses among the
candidates as the code does; `KernelBtf` finds the layout of `struct load_info`.
`LkmImage` searches the calls to redirect, links the bootstrap and then runs the
boot instruction by instruction, for several addresses the kernel may run at.
`KsuLoad` is the load from the ramdisk with the retry. `BootPatch` is patch,
backup, flash, restore, update to the other slot, install and uninstall, with a
kill at every step; an image is its kernel and a function from file names.

What the code leaves, and the properties except: a backup that was interrupted is
trusted by a restore (`do_backup` does not sync and the name is not checked);
`flash_partition` is not atomic (a torn image); an image without ramdisk is
rebuilt with ksuinit in it.

### 2.12 Tlsf, KpmRelocate, KpmHooks, KpmStore, KpmModules

`Tlsf` is the allocator bit for bit on a small pool. `KpmRelocate` moves the first
words of a function and runs the original and the moved code in lock-step.
`KpmHooks` has slots, inline and pointer hooks and the chains that the transit
code runs, with one thread changing them. `KpmStore` is a group of the storage
with RCU readers; the elements of the list (`Listed`) are those in every set that
is closed under `next`. `KpmModules` lays out, moves, links and relocates object files.

Left out because the code does not define or handle it: literal loads among the
moved words (`relo_ldr` rewrites them to read their address one word early, from
the padding) and the PAC prologue that needs more room than the buffer has; a free of a hook while a call is in it
("todo: unsafe"); two threads changing hooks, modules or storage at once ("todo:
lock"); `tlsf_realloc` to sizes above the largest class.

## 3. Runs

| Run | Question | Instance |
|---|---|---|
| `eventqueue_safety` | is any event or loss forgotten, repeated or misreported, is a peeked node freed, is end of file premature, does the queue implement the abstract log | 2 writers, 2 readers, capacity 2, 3 events |
| `eventqueue_liveness` | is a wake-up lost, does a read after close return, does destroy finish | 1 writer, 2 readers, 1 poller |
| `allowlist` | does a lookup touch freed memory or answer with a state that never was, do references and counts balance | 1 lookup, 2 uids, 3 nodes; 2 lookups, 1 uid, 2 nodes |
| `store_crash` | what does a crash or a failure leave of the list, does the file follow memory | 1 app, versions 2 to 5, a crash and two of a set, a package change and a fault; 2 apps, 2 sets in one boot |
| `store_liveness` | does the file catch up | 1 app, a crash and a fault or a package change |
| `device` | `RcInject`, `KsudModules`, `Manager`, `Supercalls`, `KsudConfig`, `KsudLog` | 3 + 4 + 3 bytes, 2 modules, 3 apps, 2 processes with 3 files, 2 features, 2 daemons |
| `su_session` | marks, umounts, grants, log | 2 tasks, 1 app beside the manager and an isolated uid, 2 changes |
| `boot_image` | symbols, layout, boot of the patched kernel, load by ksuinit, partitions | the Images, modules and firmwares of `MCBootImage` |
| `hooks` | what init, features and exit leave of every slot | 1 task, 1 missing symbol or page, 2 settings |
| `sepolicy` | publication, meaning of rules, backup, texts | 2 classes, 2 permissions, 2 processes, 1 reader, 2 batches |
| `kpm` | heap, moved code, hooks, storage, modules | pool of 208 bytes, all functions of the listed words, 2 slots, 3 elements, the objects of `MCKpm` |
| `managed_features` | is a feature managed as documented (it is not) | 1 module, 2 features |

The last run is expected to fail: `module-config.md` says the presence of
`manage.<feature>` is enough, the code wants the value to be true.

### 3.1 Why the bounds are enough

* Queue: three events are the fewest with which two are queued in order while a
  loss is being copied or another joins it. Two readers contend for the mutex.
  Buffer sizes cover "too short for anything", "one record" and "a record and the
  start of another".
* Allowlist: two uids give a walk past a foreign node, and three nodes allow a
  replaced node, its replacement and a neighbour, so that memory is reused while a
  stale pointer to it could exist. Two lookups on one uid hold the same node.
* Store: one crash gives two boots, so a file written by the first is read by the
  second, and a migration is interrupted and repeated. Version 5 is one that the
  code refuses. Two apps, because a prune can hit one and keep the other, and two
  sets because one can fall into the dump of the other.
* Injection: the buffer sizes 1, 2, 3, 5, 9 end on and off every boundary of
  3 + 4 + 3 bytes and span both scripts at once. The proofs remove these bounds.
* Modules: three commands are an install, a mark and an undo on one module while
  another is there; one crash and one error meet every step.
* Manager: four lists suffice for install, removal, reuse of the app id and one
  more that settles. The apks differ from a genuine one in the ways the parser
  tells apart.
* Log: four events overflow a queue of two while two sit in a reader's buffer;
  three days let a file expire with a retention of two.
* Sessions: one task can be overtaken while another forks or asks; two changes
  are a grant and its revocation.
* Hooks, policy: each slot and each symbol can be the missing one; two batches can
  be sent at once, one of them malformed.
* kpm: the pool holds three blocks, so that both neighbours of a block can be free.
  Functions take every listed word at each of the first places. Two callbacks
  are the fewest whose order can be wrong.

Deadlock is checked in the queue and allowlist runs; in the others the
environment is bounded and then really stops.

### 3.2 Fairness

* `EventQueue`: a task that is in the kernel and can run is run (weak fairness
  of the wake-ups, of the reader's, poller's and owner's steps). The two
  acquisitions of `read_lock` get strong fairness: kernel mutexes hand over to a
  waiter that keeps losing. Nobody is obliged to start a call, to push, to send a
  signal or to close.
* `AllowlistStore`: the boot goes on, a handler that has started ends, and pid 1
  keeps returning to user mode, where its task works run. Nothing is assumed of
  the manager, of packages, of write-back or of crashes.

The other modules state safety only.

Every property has a mutant in `PROJECT.json`: a plausible slip in the modelled
code (a dropped guard, an off-by-one, a forgotten save) that makes TLC report
that property violated under the same configuration.

## 4. Theorems

Proved by TLAPS for all values of the constants that satisfy the module's
assumption. The assumptions are types, finiteness where the code counts
(`AllowlistAssumption`, `SupercallAssumption`), and that names which the code tells
apart differ (special uids, the global namespace, the changing thread, who set a
feature). Two theorems need more and say so: `OneSigner` and `~LateLoad`, below.
Each inductive invariant was checked by TLC on the run's instance first.

**EventQueueProofs.** `ControlInv` is the conjunction of `TypeOK`; `LockInv`
(`read_lock` is held by exactly the task whose program counter says so); `LocalInv`
on the locals of a call; `ListInv` (`queued` is the length of the list, which is
numbered in order); `InflightInv` (a report is in flight only while a reader copies
it); and `EofInv`. `PeekedNodeIsHead` is not inductive by itself: a second reader's
`NodeDel` would break it, and only mutual exclusion excludes that. `TypeOK` needs it
too: that a reader's `count` stays a natural number depends on the size test made on
the *peeked* node still holding for the node that is unlinked. `AccountInv` adds
where each number is and that the losses not yet reported are the latest
(`OrderInv`): without it `out_restore` could join two windows around an event that
was not lost. From both follow `EventsAccounted` and, step by step, `ImplementsLog`:
every step of the queue is a step of `EventLog` or a stutter.

**AllowlistRcuProofs.** References are not inductive by themselves: a reader may
stand on a node that is out of the list. `RcuInv` therefore says for each reader in
a section that there is a set of nodes, closed under the pointers in memory, stale
ones included, none of which can be freed before it leaves (`Reaches`), and either
that finding nothing is already right or that every way on leads to a node of its
uid (`Leads`). Results: `MemoryExact`, `LookupSeesSomeState`.

**AllowlistStoreProofs.** `QuietInv` is a chain: until the load is over the observer
is not set and the boot is not completed, so no tracker runs, so no manager is
crowned and nothing is pruned, so nothing has queued a work. `StoreInv` adds what is
in the file during a dump, in memory during a load, and who still owes a dump
(`Owed`): memory and file may differ as long as somebody does. Results:
`LoadUndisturbed`, `NoStaleGrant`, `MeaningKept`, `SettledFileMatches`.

**RootProofs.** `SuSession`: `SessionInv` says what a handler carries from one step to the
next: the profile it read, whom the log entry will name, that a process which has
left root has left the global namespace too. `MarksKept` needs who *will* have to be
marked (`Must`), since a zygote is marked before it becomes an app. Results:
`MarksKept`, `GlobalIntact`, `EscapesAccounted`, and the action property
`SealedStaysSealed`.

`BootPatch`: `BootInv` says that each slot has some firmware, and that whatever its
partitions hold, may be restored to, or is about to be written to them, in the
running command or the user's file, is the firmware's image, patched and restored
any number of times (`Sound`): its init in place or behind KernelSU's, a backup that
is named among those that may be restored, and the KMI of that slot in kernel and
module. One case has no such module: an `init_boot` patched by `--ota` while the boot
partition beside it is torn and tells no KMI (`Lost`); that slot does not run, and
before it boots again an update replaces both. `FirmwaresAssumption` says what
vendors ship: a ramdisk with an init, none of KernelSU's names in it, and no
`init_boot` beside a kernel of Android 12. Result: `Restorable`.

**DeviceProofs.** `Manager`: while a list is handled it is the one on disk
(`ListInv`), and what the handling has reached bounds what can be wrong (`CrownInv`).
`CrownCorrect` and the action property of `SignerCorrect` take the signature check
to accept one apk, the author's (`OneSigner`; the run evaluates the real check on
apks that come close, and satisfies the hypothesis); `GrantsCorrect` needs no such
thing. `Supercalls`: an exact count of references over tables and wrappers is
inductive once it is known that what is named exists. `KsudConfig`: what is not
managed was not managed at any time of this boot (`ManagedInv`), and a torn
`.feature_config` has a process that is writing it or held nothing (`SavedInv`).
Results: `CrownedByTheSecondEvent`, `NoInheritedGrant`, `CrownGoesToSigner`,
`SupercallsExact`, `FeatureSettings`.

`RcInject`: `RcInv` is the conjunction of `TypeOK`, `OrderInv` (a later part is
entered only when the earlier ones are exhausted, and what has come out is 1, 2, ...
up to the sum of the positions), `BufferInv` (the buffer exists as long as bytes of
it are missing), `HookInv` (nothing is read before the proxies are installed, and the
scripts are loaded by then) and `EndInv`. Result: `InjectionExact`.

`KsudModules`: what the next boot will make of a module is a function of its two
directories and, while one replaces the other, of the marks that were read of the old
one (`Foreseen`). `modules.rc` holds it whenever no change is underway (`StageInv`),
and the steps of post-fs-data leave it what it was at the injection although they
change both directories (`ForesightInv`). For a module the user disabled, the proof
follows what keeps it off: its mark, the marks read of it while its directory is
being replaced, or a removal this boot has still ahead (`OffInv`). Result: the action
property `BootAsForeseen`.

`KsudLog`: an event is written, in the buffer of the session, in the kernel's queue,
or dropped, and their numbers ascend along that way (`FlowInv`): no event that is
waiting has one missing behind it that was not dropped. The kernel reports what it
dropped before the events that follow, so when an event is at the head of the buffer
no report is left in it. `LogEndInv` joins the way to the log: no event that was written has
a number of one that waits, and while a session writes, none is missing behind the
last event but those that wait or were said to be dropped; after its marker it owes
nothing to what was there before. `WriterInv` keeps the session at the end of the
log. A rotation, an expiry or a lost end leaves a stretch of the log (`Trims`), a
write adds to the end of one (`Extends`), and these two keep `InOrder` and `Gapless`
(`TrimsKeeps`, `ExtendsKeeps`). Result: `LogExplained`.

**HooksProofs.** What has been hooked so far is known only by what is still to be
done. So the proof speaks of the sequence of steps that are left: what precedes what
in it (`Precedes`), what follows what directly (`Follows`, `Leads`), what is in it
once (`Once`) or at its end (`AtEnd`). One lemma each says that `Tail` keeps it and
when a concatenation has it, and from these `InitProgram` and `ExitProgram` show what
`kernelsu_init` and `kernelsu_exit` promise, for any system calls and both ways of
loading. `HooksInv` has `OrderInv` (what is left is a rest of such a program);
`TableInv` (an entry that is about to be patched was recorded in the step before);
`RouteInv` (calls are redirected only after the dispatcher's entry was patched);
`PendingInv` (in the exit, what is hooked has its step ahead); `HideInv` (the k-th
step of `ksu_selinux_hide_enable` is next and exactly the first k - 1 are done, or
what is hooked is to be restored). Results: `HooksUndone`, `HideAllOrNothing`,
`RedirectedIsServed`.

**SePolicyProofs.** `PolicyInv`: the mutex, what is allocated, and that the database
a thread is about to publish is what its rules make of the one in use
(`ContentInv`). Nothing is used there of what a rule does to a database. `~LateLoad`
is the boot case: `apply_kernelsu_rules` reads the policy before it locks, so
`ContentInv` holds only while nobody sends batches before it has published.

For `RulesEffective` it is the rules that matter. `Leaves` says what any command
leaves of a database: it is well formed (`GoodDb`), what no rule takes back is still
there (`Grows`: types, attributes of types, ioctl rules, and what constraints name),
and so are the permissions if the rule is no "deny" (`Allows`). One lemma for each
rule shows it, `BatchLeaves` carries it over the loop of `handle_sepolicy`, for a
payload of any words, well formed or not. `SuReady` is what the module's own nine
rules add: su is exempt from the constraints that let `mlstrusted` sources pass, it has
every permission on every attribute of the boot's policy, and all ioctls. It survives whatever
`Grows` and `Allows` survive (`SuReadyStays`), and it is enough for every decision
(`SuMay`): the access vectors give all permissions, each constraint is a postfix
expression that is true for su, and su is unbounded. `RulesInv` joins this to the
policies: `ideal` has the properties, and a payload on its way is a sequence of words,
which for ksud's payloads is a statement on its parser and on the expansion to atomic
statements (`SentType`). `AllowExact`, `QuietExact` and `DenyExact` show the second
part, that a rule changes the decisions it names and no others; they hold of any well
formed database. `BootAssumption` is what an Android policy has: rules about types and
classes there are, `domain` and `mlstrusted`, none about su, and constraints that
let a source of type `mlstrusted` pass whatever else they compare. `TextsAssumption`
gives the form of the texts. `Boot`, `Classes`, `Perms`, the texts and the payloads are
otherwise arbitrary.

Results: `PolicyHandover`, `HideAnswersOriginal`, `RulesEffective`.

**KpmProofs.** `HooksInv`: a slot in use is its origin's only one and the text leads
to it, except for the slot that the changing thread has yet to install. `StoreInv`:
there is an order of the elements (`key`) along which `next` descends; a replacement
inherits the key of what it replaces and an unlinked element keeps its own, so that
a reader that stands on one still has ahead of it whatever a walk of the list from
there would meet. `ListedIs` shows by a least counterexample that the elements
reached by `next` are the ones of the invariant, and the count theirs. For
`MirrorCalls` the proof needs of a chain only that a ready item has its callback and
is not behind the end of its chain (`ChainInv`); where a call stands bounds the items
it has run, and what is ready from its begin to its end it cannot have passed over.
No callback is `"none"`, the mark of an empty item. `ModulesInv` of the module
loader: executable memory is the areas of the modules in the list and of the one that
is loading, the other allocations are what these hold at the step where the load is,
and no two of them have a name in common or overlap. `FindModule` shows that the
search by name finds the one module of that name; `AppendList`, `RemoveList` and
`ReplaceList` what the changes of the list leave of it. Its assumption is that
executable memory does not begin at address 0, which marks a module without a place.

`ModulesLinked` needs beside it only where the layout and the fields of a module come
from (`LinkInv`: from its file, at the place it has; whatever loads was laid out, and
what starts was linked). The rest is about what the loader computes. `LaidOut` is a
layout in the making: the sections that have a place are in it, aligned and apart.
`OffsetKeeps` shows that `get_offset` places a section behind the others,
`PlacedExtends` by induction over the sections that a pass gives a place to exactly
those it names and moves none, `SectionsLaid` and `TablesLaid` what follows for the four passes
and the two tables. `FieldRefers` goes through the relocations: a field that is stored,
and whose test for an overflow may pass, means its value, split and scaled as the
instruction has it. `WellFormed` is what a linker writes: alignments are powers of two
(a layout by masks needs it), no table of symbols or strings is code, every moved field
names something that is moved. Numbers are unbounded in the model and its shifts by 32
or more are those of values below 2^31, so for larger addresses the theorem speaks of
the model and not of 64-bit arithmetic.

For `RelocatedFaithful` the invariant is `RelocateInv`. `BufferIs`: the buffer is the
blocks of the moved words, one behind the other, and the jump back. `RunsAlike`:
between words of the function the two machines agree (`Agree`: the same registers, and
the one stands where the other's word has its block, or both have left); while the
moved machine is inside a block (`InBlock`) or in the jump back (`InTail`) its place
and registers are those that this word of this block has brought about. A step of the
original machine is then matched by one run through a block, instruction by
instruction. What it needs of the recursions that compute it (`Offset`, `FlattenSeq`)
is had by induction: `UpTo` is induction up to a number, stated of a set of numbers
because the provers cannot instantiate an operator parameter; `RecursionTo` gives
the equation of a function that is defined by recursion up to a number; `OffsetIs` and
`FlattenIs` say with them where a block begins and which word of which block is at a
place of the buffer. The assumption (`RelocateAssumption`): a function is a sequence of
words at least as long as the trampoline, its first words load no literals, and they do
not lead into the buffer.

Results: `HookTextExact`, `MirrorCalls`, `RelocatedFaithful`, `StoreExact`,
`ModulesLinked`.

**Only model-checked.**

* Liveness: `SleeperWoken`, `ShutdownCompletes`, `EventuallySaved`. Fairness and
  `ENABLED` are out of the prover's reach.
* What an algorithm computes from data: `MetadataExact`, `ModuleLoaded`,
  `TextMeansRules`, `HeapAlwaysIntact`. The library's induction
  theorems take an operator as a parameter, which the provers cannot instantiate; the
  induction over sets of numbers that takes their place (`UpTo`) needs recursions that
  are functions of a number, and these modules compute with recursive operators,
  folds over sets, powers of two with unknown exponents, or formats whose scaled-down
  constants are part of the instance.

## 5. Not modelled

* The manager app is a user interface over supercalls and ksud; the website is
  documentation. `kpm/tools` are offline tools, `kpm/kernel/base/start.c` and the
  boot-time page tables straight-line code for one machine; the headers and
  instruction tables of kpm are copied from other projects.
* The x86_64 hooks repeat the arm64 ones with other instructions.
* adb root rewrites the environment of one exec; path rewriting of su
  compatibility for stat and access changes no state.
* Metamodules run scripts from outside the repository. Command lines, property
  tools and thin wrappers of ioctls in ksud keep no state.
* The ELF of `kernelsu.ko`, compressed kernels and the boot image format are
  binary formats of other projects; payload and log formatting is wording.
* A late load of the module beside other loads of the policy: `rules.c` reads the
  policy before it takes the mutex. `SePolicy` has it under `LateLoad`, which the
  run leaves off and the theorems of `SePolicyProofs` exclude.
* Two processes in code that has no lock for them: the apk cache, ksud's commands
  on one file, kpm.
* `packages.list` cut short by a bad line, or read before an app came, prunes
  profiles of apps that exist; `AllowlistStore` and `Manager` contain it and no
  property forbids it, since the code promises nothing else.
* Clock changes in the log daemon.

## 6. Plan

The model covers what the code's protocols and failures ask for, and most of its
safety is proved for all instances. What is left to prove:

1. That the blocks of `Tlsf` stay a partition of the pool, whatever the bitmaps say.
