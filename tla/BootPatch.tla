----------------------------- MODULE BootPatch -----------------------------
(***************************************************************************)
(* ksud's changes to the boot partitions of a device with two slots        *)
(* (boot_patch.rs, install and uninstall of utils.rs), and the init that   *)
(* they put there (ksuinit/src/init.rs).                                   *)
(*                                                                         *)
(* An image is [kernel, cpio]: its kernel, and a function from the         *)
(* names in its ramdisk to their contents. The sha1 of an image stands for *)
(* the image. Torn is an image of which a part is written.                 *)
(*                                                                         *)
(* One command of ksud runs at a time; it may be killed between two of its *)
(* steps. What was written to a file stays written.                        *)
(***************************************************************************)
EXTENDS Integers, FiniteSets, Functions, TLC

CONSTANTS
    Firmwares,      \* versions: [partitions |-> [name -> image]]
    PatchArgs,      \* arguments of boot-patch
    MaxCommands,    \* commands of ksud in a behaviour
    MaxUpdates      \* system updates in a behaviour

VARIABLES
    device,     \* images by slot and partition
    slot,       \* ro.boot.slot_suffix: the slot that runs
    active,     \* the slot of the next boot
    rooted,     \* kernelsu.ko is loaded
    uname,      \* KMI of the running kernel
    backups,    \* KSU_BACKUP_DIR: "whole" or "part", by image
    temporary,  \* boot_backup in the data of the manager, likewise
    output,     \* the image that was written for the user, and its partition
    command,    \* the running command
    pristine,   \* history: what each partition may be restored to
    booted,     \* history: the last boot
    spent       \* commands and updates so far

bootVars == <<device, slot, active, rooted, uname, backups, temporary, output, command, pristine, booted, spent>>

Slots == {"a", "b"}
Other(s) == IF s = "a" THEN "b" ELSE "a"
NoKernel == [kmi |-> "", by |-> "none"]
Torn == [kernel |-> [NoKernel EXCEPT !.by = "torn"], cpio |-> <<>>]
None == [kernel |-> NoKernel, cpio |-> <<>>]
Idle == [op |-> "none"]
Android12 == {"android12-5.10"}

\* The partition with the ramdisk of the boot.
RamdiskName(names) == IF "init_boot" \in names THEN "init_boot" ELSE "boot"

IsImage(image) ==
    /\ image = [kernel |-> image.kernel, cpio |-> image.cpio]
    /\ image.kernel = [kmi |-> image.kernel.kmi, by |-> image.kernel.by]

\* What vendors ship: the ramdisk has an init, nothing in it is named as what
\* KernelSU puts there, and there is no init_boot before Android 13.
ASSUME FirmwaresAssumption ==
    \A f \in Firmwares :
        LET names == DOMAIN f.partitions IN
        /\ f.partitions = [n \in names |-> f.partitions[n]]
        /\ "boot" \in names
        /\ "init_boot" \in names => f.partitions.boot.kernel.kmi \notin Android12
        /\ "init" \in DOMAIN f.partitions[RamdiskName(names)].cpio
        /\ \A n \in names :
              LET cpio == f.partitions[n].cpio IN
              /\ IsImage(f.partitions[n])
              /\ {"kernelsu.ko", "init.real", "stock_image.sha1"} \cap DOMAIN cpio = {}
              /\ "init" \in DOMAIN cpio => cpio["init"] \notin {"", "ksuinit"}

-----------------------------------------------------------------------------
(* The ramdisk. *)

add(cpio, name, data) == [n \in DOMAIN cpio \cup {name} |-> IF n = name THEN data ELSE cpio[n]]
rm(cpio, name) == Restrict(cpio, DOMAIN cpio \ {name})
mv(cpio, from, to) == IF from \in DOMAIN cpio THEN add(rm(cpio, from), to, cpio[from]) ELSE cpio

Patched(image) == "kernelsu.ko" \in DOMAIN image.cpio

\* Mutant: also what KernelSU put there is kept as the real init.
MovesAny(cpio, ko) == add(add(mv(cpio, "init", "init.real"), "init", "ksuinit"), "kernelsu.ko", ko)

\* The module and its init; what was init before is kept.
AddKernelSU(cpio, ko) ==
    LET kept == IF "kernelsu.ko" \in DOMAIN cpio THEN cpio ELSE mv(cpio, "init", "init.real")
    IN  add(add(kept, "init", "ksuinit"), "kernelsu.ko", ko)

ksu_config(cpio, config) ==
    LET old == IF "ksu_config" \in DOMAIN cpio THEN cpio["ksu_config"] ELSE {}
        new == (old \ {"norc=1", "allow_shell=1"}) \cup config
    IN  IF new = {} THEN rm(cpio, "ksu_config") ELSE add(cpio, "ksu_config", new)

adb_debug(cpio, enable) ==
    IF enable THEN add(add(cpio, "force_debuggable", ""), "adb_debug.prop", "ro.debuggable=1")
    ELSE rm(rm(cpio, "force_debuggable"), "adb_debug.prop")

\* What restore makes of an image that has no backup.
rebuild_without_ksu(image) == [image EXCEPT !.cpio = mv(rm(image.cpio, "kernelsu.ko"), "init.real", "init")]

\* The image that restore writes, which may be a part of one.
Stock(image, kept) ==
    IF "stock_image.sha1" \notin DOMAIN image.cpio THEN rebuild_without_ksu(image)
    ELSE LET sha == image.cpio["stock_image.sha1"] IN
         IF sha \notin DOMAIN kept THEN rebuild_without_ksu(image)
         ELSE IF kept[sha] = "whole" THEN sha ELSE Torn

-----------------------------------------------------------------------------
(* Which image. *)

PartitionNames == DOMAIN device[slot]

\* Without --kmi: that of the slot to be patched after an update, and else
\* that of the running kernel.
Kmi(args) == IF args.ota THEN device[Other(slot)].boot.kernel.kmi ELSE uname

choose_boot_partition(kmi, replace, partition) ==
    IF partition \in {"boot", "init_boot", "vendor_boot"} THEN partition
    ELSE IF partition # "" THEN "boot"
    ELSE IF ~replace /\ "init_boot" \in PartitionNames /\ kmi \notin Android12 THEN "init_boot" ELSE "boot"

get_slot_suffix(ota) == IF ota THEN Other(slot) ELSE slot

BootInit ==
    /\ \E f \in Firmwares :
          /\ device = [s \in Slots |-> f.partitions]
          /\ pristine = [s \in Slots |-> [n \in DOMAIN f.partitions |-> {f.partitions[n]}]]
          /\ uname = f.partitions.boot.kernel.kmi
    /\ slot = "a" /\ active = "a" /\ rooted = FALSE
    /\ backups = <<>> /\ temporary = <<>>
    /\ output = [at |-> "a", name |-> "boot", image |-> None]
    /\ command = Idle
    /\ booted = [init |-> "", loads |-> 0, good |-> TRUE]
    /\ spent = [commands |-> 0, updates |-> 0]

System == <<slot, active, rooted, uname, booted>>

-----------------------------------------------------------------------------
(* patch: everything is computed from the image as it was read. *)

\* The new image, but for the name of its backup.
NewImage(args, kmi, source) ==
    LET cpio == IF args.no_install THEN source.cpio ELSE AddKernelSU(source.cpio, kmi)
        kernel == IF args.kpimg THEN [source.kernel EXCEPT !.by = "kptools"]
                  ELSE IF args.kernel THEN [kmi |-> kmi, by |-> "user"] ELSE source.kernel
    IN  [kernel |-> kernel, cpio |-> adb_debug(ksu_config(cpio, args.config), args.adb)]

patch ==
    /\ command = Idle
    /\ spent.commands < MaxCommands
    /\ \E args \in PatchArgs :
          LET kmi == Kmi(args)
              name == choose_boot_partition(kmi, args.kernel, args.partition)
              at == get_slot_suffix(args.ota)
              source == device[at][name]
              backup == ~args.no_install /\ (args.backup \/ (~Patched(source) /\ args.flash))
          IN  /\ rooted = ~args.file
              /\ args.flash => rooted
              /\ name \in PartitionNames
              /\ source # Torn
              /\ ~args.no_install => "overlay.d" \notin DOMAIN source.cpio
              /\ args.kpimg => source.kernel # NoKernel
              /\ command' = [op |-> "patch", args |-> args, at |-> at, name |-> name, source |-> source,
                             new |-> NewImage(args, kmi, source),
                             pc |-> IF backup THEN "backup" ELSE IF args.flash THEN "flash" ELSE "output"]
    /\ spent' = [spent EXCEPT !.commands = @ + 1]
    /\ UNCHANGED <<device, backups, temporary, output, pristine, System>>

\* The step behind the backup.
AfterBackup(c) == [c EXCEPT !.pc = IF c.args.flash THEN "flash" ELSE "output"]

\* The file is opened and truncated. Without access to /data/adb it is one of
\* the manager's directory, which is made anew.
find_backup_location ==
    /\ command.op = "patch" /\ command.pc = "backup"
    /\ IF rooted THEN backups' = (command.source :> "part") @@ backups /\ UNCHANGED temporary
       ELSE temporary' = command.source :> "part" /\ UNCHANGED backups
    /\ command' = [command EXCEPT !.pc = "copy"]
    /\ UNCHANGED <<device, output, pristine, spent, System>>

\* A backup that fails is reported, and the patch goes on.
do_backup ==
    /\ command.op = "patch" /\ command.pc = "copy"
    /\ \/ /\ IF rooted THEN backups' = [backups EXCEPT ![command.source] = "whole"] /\ UNCHANGED temporary
             ELSE temporary' = [temporary EXCEPT ![command.source] = "whole"] /\ UNCHANGED backups
          /\ command' = AfterBackup([command EXCEPT !.new.cpio = add(@, "stock_image.sha1", command.source)])
          /\ pristine' = [pristine EXCEPT ![command.at][command.name] = @ \cup {command.source}]
       \/ command' = AfterBackup(command) /\ UNCHANGED <<backups, temporary, pristine>>
    /\ UNCHANGED <<device, output, spent, System>>

\* The partition is written in place, and then synchronised.
flash_partition ==
    /\ command.op \in {"patch", "restore"}
    /\ \/ /\ command.pc = "flash"
          /\ device' = [device EXCEPT ![command.at][command.name] = Torn]
          /\ command' = [command EXCEPT !.pc = "flashing"]
          /\ UNCHANGED pristine
       \/ /\ command.pc = "flashing"
          /\ device' = [device EXCEPT ![command.at][command.name] = command.new]
          /\ pristine' = IF command.op = "patch" THEN pristine
                         ELSE [pristine EXCEPT ![command.at][command.name] = @ \cup {command.new}]
          /\ command' = IF command.args.ota THEN [command EXCEPT !.pc = "post_ota"]
                        ELSE IF command.args.out THEN [command EXCEPT !.pc = "output"] ELSE Idle
    /\ UNCHANGED <<backups, temporary, output, spent, System>>

\* bootctl may not be able to switch the slot.
post_ota ==
    /\ command.op = "patch" /\ command.pc = "post_ota"
    /\ active' \in {active, Other(slot)}
    /\ command' = IF command.args.out THEN [command EXCEPT !.pc = "output"] ELSE Idle
    /\ UNCHANGED <<device, slot, rooted, uname, backups, temporary, output, pristine, booted, spent>>

WriteOutput ==
    /\ command.op \in {"patch", "restore"} /\ command.pc = "output"
    /\ output' = [at |-> command.at, name |-> command.name, image |-> command.new]
    /\ command' = Idle
    /\ UNCHANGED <<device, backups, temporary, pristine, spent, System>>

Kill ==
    /\ command # Idle
    /\ command' = Idle
    /\ UNCHANGED <<device, backups, temporary, output, pristine, spent, System>>

-----------------------------------------------------------------------------
(* restore, uninstall, install. *)

RestoreArgs == [flash : BOOLEAN, out : BOOLEAN, ota : {FALSE}]

\* Starts with the backups in kept; the ones that the image does not name
\* are removed.
RestoreFrom(args, kept) ==
    LET name == choose_boot_partition(uname, FALSE, "")
        source == device[slot][name]
    IN  /\ source # Torn
        /\ IF ~Patched(source) THEN command' = Idle /\ backups' = kept
           ELSE /\ command' = [op |-> "restore", args |-> args, at |-> slot, name |-> name, source |-> source,
                               new |-> Stock(source, kept), pc |-> IF args.flash THEN "flash" ELSE "output"]
                /\ backups' = IF "stock_image.sha1" \in DOMAIN source.cpio
                              THEN Restrict(kept, DOMAIN kept \cap {source.cpio["stock_image.sha1"]}) ELSE kept
        /\ UNCHANGED <<device, temporary, output, pristine, System>>

restore ==
    /\ command = Idle /\ rooted
    /\ spent.commands < MaxCommands
    /\ spent' = [spent EXCEPT !.commands = @ + 1]
    /\ \E args \in RestoreArgs : (args.flash \/ args.out) /\ RestoreFrom(args, backups)

\* The directories go first, the one with the backups among them.
uninstall ==
    /\ command = Idle /\ rooted
    /\ spent.commands < MaxCommands
    /\ spent' = [spent EXCEPT !.commands = @ + 1]
    /\ RestoreFrom([flash |-> TRUE, out |-> FALSE, ota |-> FALSE], <<>>)

\* The manager has its backups moved, each over one of the same name.
install ==
    /\ command = Idle /\ rooted /\ temporary # <<>>
    /\ backups' = temporary @@ backups
    /\ temporary' = <<>>
    /\ UNCHANGED <<device, output, command, pristine, spent, System>>

-----------------------------------------------------------------------------
(* The user, the system's updates, and the boot. *)

\* Images that were made before an update are not flashed after it.
UserFlash ==
    /\ command = Idle
    /\ output.image \notin {None, Torn} /\ output.at = slot
    /\ device' = [device EXCEPT ![slot][output.name] = output.image]
    /\ output' = [output EXCEPT !.image = None]
    /\ UNCHANGED <<backups, temporary, command, pristine, spent, System>>

SystemUpdate ==
    /\ command = Idle
    /\ spent.updates < MaxUpdates
    /\ \E f \in Firmwares :
          /\ DOMAIN f.partitions = PartitionNames
          /\ device' = [device EXCEPT ![Other(slot)] = f.partitions]
          /\ pristine' = [pristine EXCEPT ![Other(slot)] = [n \in PartitionNames |-> {f.partitions[n]}]]
    /\ active' = Other(slot)
    /\ spent' = [spent EXCEPT !.updates = @ + 1]
    /\ output' = [output EXCEPT !.image = None]
    /\ UNCHANGED <<slot, rooted, uname, backups, temporary, command, booted>>

RamdiskOf(s) == device[s][RamdiskName(PartitionNames)].cpio

\* ksuinit: the module is loaded unless the kernel has it, and then /init is
\* a link to the init that was there, or to that of the system.
init(cpio, kernel) ==
    IF cpio["init"] # "ksuinit" THEN [init |-> cpio["init"], loads |-> 0, good |-> TRUE]
    ELSE [init |-> IF "init.real" \in DOMAIN cpio THEN cpio["init.real"] ELSE "/system/bin/init",
          loads |-> IF "kernelsu.ko" \in DOMAIN cpio THEN 1 ELSE 0,
          good |-> "kernelsu.ko" \in DOMAIN cpio => cpio["kernelsu.ko"] = kernel.kmi]

Boot ==
    LET cpio == RamdiskOf(active)
        kernel == device[active].boot.kernel
    IN  /\ command = Idle
        /\ Torn \notin {device[active][n] : n \in PartitionNames}
        /\ "init" \in DOMAIN cpio
        /\ <<slot, booted>> # <<active, init(cpio, kernel)>>
        /\ slot' = active
        /\ booted' = init(cpio, kernel)
        /\ rooted' = (booted'.loads > 0 /\ booted'.good)
        /\ uname' = kernel.kmi
        /\ UNCHANGED <<device, active, backups, temporary, output, command, pristine, spent>>

BootNext ==
    \/ patch \/ find_backup_location \/ do_backup \/ flash_partition \/ post_ota \/ WriteOutput \/ Kill
    \/ restore \/ uninstall \/ install \/ UserFlash \/ SystemUpdate \/ Boot

BootSpec == BootInit /\ [][BootNext]_bootVars

-----------------------------------------------------------------------------
(* Properties *)

\* Where the system's init is reached from, past KernelSU's.
RealInit(image) ==
    IF "init" \notin DOMAIN image.cpio THEN ""
    ELSE IF image.cpio["init"] # "ksuinit" THEN image.cpio["init"]
    ELSE IF "init.real" \in DOMAIN image.cpio THEN image.cpio["init.real"] ELSE ""

\* Every patched image can be restored, after any commands, kills and
\* updates: to an image that the partition had or that the user declared to
\* be its stock image, unless its backup is one that was interrupted; and
\* without a backup to one that has its init and no module. Every boot runs
\* the init of the system, with the module of the kernel that runs.
Restorable ==
    /\ \A s \in Slots : \A n \in PartitionNames :
          LET image == device[s][n]
              back == Stock(image, backups)
              named == "stock_image.sha1" \in DOMAIN image.cpio /\ image.cpio["stock_image.sha1"] \in DOMAIN backups
          IN  image # Torn /\ Patched(image) =>
              IF named THEN back = Torn \/ back \in pristine[s][n]
              ELSE /\ ~Patched(back)
                   /\ \A p \in pristine[s][n] : RealInit(p) # "" => RealInit(back) = RealInit(p)
    /\ booted.init # "ksuinit" /\ booted.good
=============================================================================
