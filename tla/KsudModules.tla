----------------------------- MODULE KsudModules -----------------------------
(***************************************************************************)
(* Module directories of ksud (module.rs, init_event.rs): commands of the  *)
(* user mark modules or stage an update, post-fs-data of the next boot     *)
(* acts on that, and modules.rc, which the kernel injects into init.rc     *)
(* before any of it, must already say what will be active (RcInject).      *)
(*                                                                         *)
(* Each step is one change of a file or directory; the power may fail      *)
(* between any two. A directory is its marks and the version of the .rc    *)
(* files in it (0: none). One ksud process runs at a time.                 *)
(***************************************************************************)
EXTENDS Naturals, FiniteSets

CONSTANTS
    Ids,                            \* module ids
    MaxCommands, MaxCrashes,        \* bounds: commands of the user, power failures
    MaxErrors                       \* bound: file operations that fail

ASSUME KsudModulesAssumption == MaxCommands \in Nat /\ MaxCrashes \in Nat /\ MaxErrors \in Nat

VARIABLES
    MODULE_DIR, MODULE_UPDATE_DIR,
    modules_rc,     \* what the kernel will inject: module -> version, 0 if none
    stage,          \* off, on, or the step of post-fs-data or of a command
    cur,            \* the module that is worked on, and what was read of it
    todo,           \* the directory entries that are left to visit
    active,         \* what runs since the last post-fs-data: module -> version
    injected,       \* modules.rc as this boot found it
    used,           \* bounds: commands, crashes, errors so far
    torn,           \* history: a change that modules.rc does not know yet
    clean,          \* history: nothing disturbed this boot
    off, cut        \* history: modules the user disabled; modules whose removal
                    \* or replacement was cut short

dirVars == <<MODULE_DIR, MODULE_UPDATE_DIR>>
histVars == <<injected, clean, off, cut>>
moduleVars == <<dirVars, modules_rc, stage, cur, todo, active, used, torn, histVars>>

NoDir == [exists |-> FALSE, rc |-> 0, marks |-> {}]
NewDir == [NoDir EXCEPT !.exists = TRUE]
NoCur == [id |-> "none", marks |-> {}]
Blocking == {"disable", "remove"}

Installed == {m \in Ids : MODULE_DIR[m].exists}
Staged == {m \in Ids : MODULE_UPDATE_DIR[m].exists}

ModulesInit ==
    /\ MODULE_DIR = [m \in Ids |-> NoDir] /\ MODULE_UPDATE_DIR = [m \in Ids |-> NoDir]
    /\ modules_rc = [m \in Ids |-> 0] /\ active = [m \in Ids |-> 0] /\ injected = [m \in Ids |-> 0]
    /\ stage = "on" /\ cur = NoCur /\ todo = {} /\ off = {} /\ cut = {}
    /\ used = [commands |-> 0, crashes |-> 0, errors |-> 0] /\ torn = FALSE /\ clean = FALSE

-----------------------------------------------------------------------------
(* regenerate_preinit_rc(), the end of every command and a part of          *)
(* post-fs-data. modules_update/ is read first, and a mark in either place  *)
(* keeps a module out.                                                      *)

CollectRc ==
    [m \in Ids |->
        LET dirs == {d \in {MODULE_UPDATE_DIR[m], MODULE_DIR[m]} : d.exists}
        IN  IF dirs = {} \/ \E d \in dirs : d.marks \cap Blocking # {} THEN 0
            ELSE IF MODULE_UPDATE_DIR[m].exists THEN MODULE_UPDATE_DIR[m].rc ELSE MODULE_DIR[m].rc]

\* The file is written aside and takes the old one's place by a rename.
regenerate_preinit_rc(next) ==
    /\ modules_rc' = CollectRc /\ torn' = FALSE /\ stage' = next
    /\ UNCHANGED <<dirVars, cur, todo, active, used, histVars>>

RegenerateCommand == stage = "rc" /\ regenerate_preinit_rc("on")
RegenerateBoot == stage = "rcboot" /\ regenerate_preinit_rc("load")

-----------------------------------------------------------------------------
(* Commands *)

Command == stage = "on" /\ used.commands < MaxCommands /\ used' = [used EXCEPT !.commands = @ + 1]

\* install_module_to_system(): a clean directory in modules_update/.
InstallClean(m) ==
    /\ Command /\ stage' = "extract" /\ cur' = [NoCur EXCEPT !.id = m] /\ torn' = TRUE
    /\ MODULE_UPDATE_DIR' = [MODULE_UPDATE_DIR EXCEPT ![m] = NewDir]
    /\ UNCHANGED <<MODULE_DIR, modules_rc, todo, active, histVars>>

\* The zip, and its script, which may leave a disable mark.
InstallExtract ==
    /\ stage = "extract" /\ stage' = "prop"
    /\ \E marks \in {{}, {"disable"}} :
          MODULE_UPDATE_DIR' = [MODULE_UPDATE_DIR EXCEPT ![cur.id].rc = used.commands, ![cur.id].marks = marks]
    /\ UNCHANGED <<MODULE_DIR, modules_rc, cur, todo, active, used, torn, histVars>>

\* A failed script leaves what was extracted, and modules.rc as it is.
InstallFails ==
    /\ stage \in {"extract", "prop"} /\ stage' = "on" /\ cur' = NoCur
    /\ used.errors < MaxErrors /\ used' = [used EXCEPT !.errors = @ + 1]
    /\ UNCHANGED <<dirVars, modules_rc, todo, active, torn, histVars>>

\* The directory with module.prop, and then the update mark.
InstallProp ==
    /\ stage = "prop" /\ stage' = "updatemark"
    /\ MODULE_DIR' = [MODULE_DIR EXCEPT ![cur.id].exists = TRUE]
    /\ UNCHANGED <<MODULE_UPDATE_DIR, modules_rc, cur, todo, active, used, torn, histVars>>

InstallMark ==
    /\ stage = "updatemark" /\ stage' = "rc" /\ cur' = NoCur
    /\ MODULE_DIR' = [MODULE_DIR EXCEPT ![cur.id].marks = @ \cup {"update"}]
    /\ UNCHANGED <<MODULE_UPDATE_DIR, modules_rc, todo, active, used, torn, histVars>>

\* enable_module(), disable_module(), uninstall_module(), undo_uninstall_module()
SetMark(m, mark, set) ==
    /\ Command /\ MODULE_DIR[m].exists /\ stage' = "rc" /\ torn' = TRUE
    /\ MODULE_DIR' = [MODULE_DIR EXCEPT ![m].marks = IF set THEN @ \cup {mark} ELSE @ \ {mark}]
    /\ off' = IF mark # "disable" THEN off ELSE IF set THEN off \cup {m} ELSE off \ {m}
    /\ cut' = IF mark # "disable" THEN cut ELSE cut \ {m}
    /\ UNCHANGED <<MODULE_UPDATE_DIR, modules_rc, cur, todo, active, injected, clean>>

enable_module(m) == SetMark(m, "disable", FALSE)
disable_module(m) == SetMark(m, "disable", TRUE)
uninstall_module(m) == SetMark(m, "remove", TRUE)
undo_uninstall_module(m) == SetMark(m, "remove", FALSE)

\* disable_all_modules(), uninstall_all_modules()
MarkAll(mark) ==
    /\ Command /\ stage' = mark /\ todo' = Installed /\ torn' = TRUE
    /\ UNCHANGED <<dirVars, modules_rc, cur, active, histVars>>

mark_all_modules ==
    /\ stage \in Blocking
    /\ IF todo = {} THEN stage' = "rc" /\ UNCHANGED <<MODULE_DIR, todo, off>>
       ELSE \E m \in todo :
               /\ MODULE_DIR' = [MODULE_DIR EXCEPT ![m].marks = @ \cup {stage}]
               /\ todo' = todo \ {m} /\ off' = IF stage = "disable" THEN off \cup {m} ELSE off
               /\ UNCHANGED stage
    /\ UNCHANGED <<MODULE_UPDATE_DIR, modules_rc, cur, active, used, torn, injected, clean, cut>>

-----------------------------------------------------------------------------
(* Boot: the kernel injects modules.rc, and on_post_data_fs() follows. *)

Reboot ==
    /\ stage = "on" /\ stage' = "off" /\ active' = [m \in Ids |-> 0]
    /\ UNCHANGED <<dirVars, modules_rc, cur, todo, used, torn, histVars>>

\* In safe mode all modules are disabled and nothing else is done.
BootSafe ==
    /\ stage = "off" /\ stage' = "disable" /\ todo' = Installed /\ torn' = TRUE
    /\ injected' = modules_rc /\ clean' = FALSE
    /\ UNCHANGED <<dirVars, modules_rc, cur, active, used, off, cut>>

Boot ==
    /\ stage = "off" /\ stage' = "updates" /\ todo' = Staged
    /\ injected' = modules_rc /\ clean' = ~torn
    /\ UNCHANGED <<dirVars, modules_rc, cur, active, used, torn, off, cut>>

\* remove_dir_all(): entry by entry in any order, then the directory.
RemoveEntry(next) ==
    LET d == MODULE_DIR[cur.id]
    IN  /\ \/ \E k \in d.marks : MODULE_DIR' = [MODULE_DIR EXCEPT ![cur.id].marks = @ \ {k}] /\ UNCHANGED stage
           \/ d.rc # 0 /\ MODULE_DIR' = [MODULE_DIR EXCEPT ![cur.id].rc = 0] /\ UNCHANGED stage
           \/ d = NewDir /\ MODULE_DIR' = [MODULE_DIR EXCEPT ![cur.id] = NoDir] /\ stage' = next
        /\ UNCHANGED <<MODULE_UPDATE_DIR, modules_rc, cur, todo, active, used, torn, injected, clean, cut>>

\* handle_updated_modules(): the marks of the old directory are read first.
UpdateNext ==
    /\ stage = "updates" /\ torn' = TRUE
    /\ \E m \in todo :
          /\ cur' = [id |-> m, marks |-> MODULE_DIR[m].marks] /\ todo' = todo \ {m}
          /\ stage' = IF MODULE_DIR[m].exists THEN "replace" ELSE "rename"
    /\ UNCHANGED <<dirVars, modules_rc, active, used, histVars>>

UpdateRemove == stage = "replace" /\ RemoveEntry("rename") /\ UNCHANGED off

UpdateRename ==
    /\ stage = "rename" /\ stage' = "remark"
    /\ MODULE_DIR' = [MODULE_DIR EXCEPT ![cur.id] = MODULE_UPDATE_DIR[cur.id]]
    /\ MODULE_UPDATE_DIR' = [MODULE_UPDATE_DIR EXCEPT ![cur.id] = NoDir]
    /\ UNCHANGED <<modules_rc, cur, todo, active, used, torn, histVars>>

\* Mutant: the new directory has only its own marks.
MarksForgotten ==
    /\ stage = "remark" /\ stage' = "updates" /\ cur' = NoCur
    /\ UNCHANGED <<dirVars, modules_rc, todo, active, used, torn, histVars>>

UpdateRemark ==
    /\ stage = "remark" /\ stage' = "updates" /\ cur' = NoCur
    /\ MODULE_DIR' = [MODULE_DIR EXCEPT ![cur.id].marks =
                         @ \cup (IF "remove" \in cur.marks THEN {"remove"} ELSE cur.marks \cap {"disable"})]
    /\ UNCHANGED <<MODULE_UPDATE_DIR, modules_rc, todo, active, used, torn, histVars>>

UpdatesDone ==
    /\ stage = "updates" /\ todo = {} /\ stage' = "prune" /\ todo' = Installed
    /\ UNCHANGED <<dirVars, modules_rc, cur, active, used, torn, histVars>>

\* prune_modules(): scripts and configuration, then the directory.
PruneNext ==
    /\ stage = "prune"
    /\ \E m \in todo :
          /\ todo' = todo \ {m}
          /\ IF "remove" \in MODULE_DIR[m].marks
             THEN stage' = "delete" /\ cur' = [NoCur EXCEPT !.id = m] /\ torn' = TRUE
             ELSE UNCHANGED <<stage, cur, torn>>
    /\ UNCHANGED <<dirVars, modules_rc, active, used, histVars>>

PruneRemove ==
    /\ stage = "delete" /\ RemoveEntry("prune")
    /\ off' = IF stage' = "prune" THEN off \ {cur.id} ELSE off

PruneDone ==
    /\ stage = "prune" /\ todo = {} /\ stage' = "rcboot" /\ cur' = NoCur
    /\ UNCHANGED <<dirVars, modules_rc, todo, active, used, torn, histVars>>

\* load_sepolicy_rule(), exec_stage_script(), load_system_prop(): the modules
\* that foreach_active_module() visits.
LoadActive ==
    /\ stage = "load" /\ stage' = "on"
    /\ active' = [m \in Ids |-> IF MODULE_DIR[m].exists /\ MODULE_DIR[m].marks \cap Blocking = {}
                                THEN MODULE_DIR[m].rc ELSE 0]
    /\ UNCHANGED <<dirVars, modules_rc, cur, todo, used, torn, histVars>>

-----------------------------------------------------------------------------
(* Failures *)

\* A file operation fails: of an update, and the loop over updates ends; of a
\* removal, and the next module is looked at; of modules.rc, which stays.
Error ==
    /\ used.errors < MaxErrors /\ used' = [used EXCEPT !.errors = @ + 1]
    /\ \/ stage \in {"replace", "rename"} /\ stage' = "prune" /\ todo' = Installed /\ cut' = cut \cup {cur.id}
       \/ stage = "remark" /\ stage' = "updates" /\ cut' = cut \cup {cur.id} /\ UNCHANGED todo
       \/ stage = "delete" /\ stage' = "prune" /\ cut' = cut \cup {cur.id} /\ UNCHANGED todo
       \/ stage = "rc" /\ stage' = "on" /\ UNCHANGED <<todo, cut>>
       \/ stage = "rcboot" /\ stage' = "load" /\ UNCHANGED <<todo, cut>>
    /\ clean' = FALSE /\ cur' = NoCur
    /\ UNCHANGED <<dirVars, modules_rc, active, torn, injected, off>>

PowerFails ==
    /\ stage # "off" /\ used.crashes < MaxCrashes /\ used' = [used EXCEPT !.crashes = @ + 1]
    /\ stage' = "off" /\ cur' = NoCur /\ todo' = {} /\ active' = [m \in Ids |-> 0]
    /\ cut' = IF stage \in {"replace", "rename", "remark", "delete"} THEN cut \cup {cur.id} ELSE cut
    /\ UNCHANGED <<dirVars, modules_rc, torn, injected, clean, off>>

-----------------------------------------------------------------------------
ModulesNext ==
    \/ \E m \in Ids : \/ InstallClean(m) \/ enable_module(m) \/ disable_module(m)
                      \/ uninstall_module(m) \/ undo_uninstall_module(m)
    \/ InstallExtract \/ InstallFails \/ InstallProp \/ InstallMark
    \/ (\E mark \in Blocking : MarkAll(mark)) \/ mark_all_modules
    \/ RegenerateCommand \/ RegenerateBoot
    \/ Reboot \/ BootSafe \/ Boot
    \/ UpdateNext \/ UpdateRemove \/ UpdateRename \/ UpdateRemark \/ UpdatesDone
    \/ PruneNext \/ PruneRemove \/ PruneDone \/ LoadActive
    \/ Error \/ PowerFails

ModulesSpec == ModulesInit /\ [][ModulesNext]_moduleVars

-----------------------------------------------------------------------------
PostFsDataEnds == stage = "load" /\ stage' = "on"

\* What the kernel injected at the start of a boot is what is active after
\* post-fs-data of the same boot ("their effective module path in the next
\* boot", regenerate_preinit_rc()): the last command, or the last boot, foresaw
\* what updates, marks and removals would come to, unless something failed
\* between its change and modules.rc.
RcMatchesBoot == PostFsDataEnds /\ clean => active' = injected

\* A module the user disabled is not among those a boot activates, over
\* installs, updates, removals and power failures ("if the old module is
\* disabled, we need to also disable the new one", handle_updated_modules()),
\* unless its own removal or replacement was cut short.
DisabledStaysOff == PostFsDataEnds => \A m \in off \ cut : active'[m] = 0

\* A boot activates what was injected for it, and nothing that is disabled.
BootAsForeseen == [][RcMatchesBoot /\ DisabledStaysOff]_moduleVars
=============================================================================
