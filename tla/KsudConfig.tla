----------------------------- MODULE KsudConfig -----------------------------
(***************************************************************************)
(* Settings that ksud keeps over a boot: the features of the kernel in     *)
(* .feature_config (feature.rs), and the configuration of each module      *)
(* (module_config.rs), whose keys "manage.<feature>" take a feature out of *)
(* the user's hands (get_managed_features() of module.rs).                 *)
(*                                                                         *)
(* A file is [whole, map]; a configuration has keys <<"manage", feature>>  *)
(* and others, and values "true" or "false". Several ksud processes run at *)
(* once, but no two that write the same file.                              *)
(***************************************************************************)
EXTENDS Naturals, FiniteSets, Functions, TLC

CONSTANTS
    Mods,           \* ids of modules
    Features,       \* features the kernel supports
    PlainKeys,      \* other keys
    Cmds,           \* ksud processes
    MAX_CONFIG_COUNT,
    MaxOps, MaxBoots    \* bounds: commands, boots after the first

ASSUME KsudConfigAssumption ==
    /\ MAX_CONFIG_COUNT \in Nat /\ MaxOps \in Nat /\ MaxBoots \in Nat
    \* The history of owners tells modules from whoever else sets a feature.
    /\ {"user", "file", "load", "default", "safe mode"} \cap Mods = {}

VARIABLES
    kernel,         \* feature -> value
    feature_config, \* the file of features
    module_config,  \* module -> type -> file
    live,           \* modules that are active
    cmd,            \* what each process does
    bootstage,      \* clear, early (scripts of post-fs-data.d), init and its steps, on
    left,           \* features that init_features() or a load still sets
    limits,         \* bounds: commands and boots so far
    saved,          \* history: what the user saved and no module managed at a boot since
    owner,          \* history: who set a feature in this boot
    unowned         \* history: features that no module managed at some time in this boot

configVars == <<kernel, feature_config, module_config, live, cmd, bootstage, left, limits, saved, owner, unowned>>

Types == {"persist", "temp"}
Keys == {<<"manage", f>> : f \in Features} \cup {<<"plain", k>> : k \in PlainKeys}
Empty == [k \in {} |-> 0]
Whole(map) == [whole |-> TRUE, map |-> map]
TornFile == [whole |-> FALSE, map |-> Empty]
NoCmd == [pc |-> "idle"]
Default(f) == 0

-----------------------------------------------------------------------------
(* Reading *)

\* merge_configs(): a temporary entry goes before a persistent one.
merge_configs(m) == module_config[m].temp.map @@ module_config[m].persist.map

parse_bool_config(value) == value = "true"

\* get_managed_features()
Manages(m, f) ==
    LET config == merge_configs(m)
    IN  m \in live /\ <<"manage", f>> \in DOMAIN config /\ parse_bool_config(config[<<"manage", f>>])

managing_modules(f) == {m \in Mods : Manages(m, f)}
Managed == {f \in Features : managing_modules(f) # {}}

ConfigInit ==
    /\ kernel = [f \in Features |-> Default(f)] /\ owner = [f \in Features |-> "default"]
    /\ feature_config = Whole(Empty) /\ saved = Empty
    /\ module_config = [m \in Mods |-> [t \in Types |-> Whole(Empty)]]
    /\ live = Mods /\ cmd = [p \in Cmds |-> NoCmd] /\ left = Empty
    /\ bootstage = "on" /\ limits = [ops |-> 0, boots |-> 0] /\ unowned = Features

\* After every step: the features that are not managed.
Watch == unowned' = IF bootstage' = "clear" THEN {} ELSE unowned \cup (Features \ Managed')

-----------------------------------------------------------------------------
(* Commands, of scripts of modules and of the user *)

Starts(p) ==
    /\ cmd[p] = NoCmd /\ bootstage \in {"early", "on"}
    /\ limits.ops < MaxOps /\ limits' = [limits EXCEPT !.ops = @ + 1]

FreeFile(m, t) == \A p \in Cmds : cmd[p].pc = "rename" => <<cmd[p].m, cmd[p].t>> # <<m, t>>

\* load_config() and save_config() up to the rename. The file is written aside.
SaveModule(p, m, t, map) ==
    /\ FreeFile(m, t) /\ Cardinality(DOMAIN map) <= MAX_CONFIG_COUNT
    /\ cmd' = [cmd EXCEPT ![p] = [pc |-> "rename", m |-> m, t |-> t, map |-> map]]
    /\ UNCHANGED <<kernel, feature_config, module_config, live, bootstage, left, saved, owner>>

set_config_value(p, m, t, k, v) ==
    Starts(p) /\ SaveModule(p, m, t, [x \in {k} |-> v] @@ module_config[m][t].map)

delete_config_value(p, m, t, k) ==
    /\ Starts(p) /\ k \in DOMAIN module_config[m][t].map
    /\ SaveModule(p, m, t, Restrict(module_config[m][t].map, DOMAIN module_config[m][t].map \ {k}))

\* The rename.
ConfigRenamed(p) ==
    /\ cmd[p].pc = "rename" /\ cmd' = [cmd EXCEPT ![p] = NoCmd]
    /\ module_config' = [module_config EXCEPT ![cmd[p].m][cmd[p].t] = Whole(cmd[p].map)]
    /\ UNCHANGED <<kernel, feature_config, live, bootstage, left, limits, saved, owner>>

clear_config(p, m, t) ==
    /\ Starts(p) /\ FreeFile(m, t) /\ module_config[m][t].map # Empty
    /\ module_config' = [module_config EXCEPT ![m][t] = Whole(Empty)]
    /\ UNCHANGED <<kernel, feature_config, live, cmd, bootstage, left, saved, owner>>

\* set_feature() of feature.rs: the check, and then the call.
set_feature(p, f, v, caller) ==
    /\ Starts(p)
    /\ managing_modules(f) # {} => caller \in managing_modules(f)
    /\ cmd' = [cmd EXCEPT ![p] = [pc |-> "set", f |-> f, v |-> v, caller |-> caller]]
    /\ UNCHANGED <<kernel, feature_config, module_config, live, bootstage, left, saved, owner>>

set_kernel_feature(p) ==
    /\ cmd[p].pc = "set" /\ cmd' = [cmd EXCEPT ![p] = NoCmd]
    /\ kernel' = [kernel EXCEPT ![cmd[p].f] = cmd[p].v] /\ owner' = [owner EXCEPT ![cmd[p].f] = cmd[p].caller]
    /\ UNCHANGED <<feature_config, module_config, live, bootstage, left, limits, saved>>

FeatureFileFree == \A p \in Cmds : cmd[p].pc # "write"

\* save_config() of feature.rs: all features are read, and the file is cut to
\* nothing before it is written.
save_config(p) ==
    /\ Starts(p) /\ FeatureFileFree
    /\ feature_config' = TornFile
    /\ cmd' = [cmd EXCEPT ![p] = [pc |-> "write", map |-> kernel]]
    /\ UNCHANGED <<kernel, module_config, live, bootstage, left, saved, owner>>

FeaturesWritten(p) ==
    /\ cmd[p].pc = "write" /\ cmd' = [cmd EXCEPT ![p] = NoCmd]
    /\ feature_config' = Whole(cmd[p].map) /\ saved' = cmd[p].map
    /\ UNCHANGED <<kernel, module_config, live, bootstage, left, limits, owner>>

\* load_config_and_apply(): feature by feature, managed or not.
load_config_and_apply(p) ==
    /\ Starts(p) /\ feature_config.whole /\ feature_config.map # Empty
    /\ cmd' = [cmd EXCEPT ![p] = [pc |-> "apply", map |-> feature_config.map]]
    /\ UNCHANGED <<kernel, feature_config, module_config, live, bootstage, left, saved, owner>>

ApplyLoaded(p) ==
    /\ cmd[p].pc = "apply"
    /\ \E f \in DOMAIN cmd[p].map :
          LET rest == Restrict(cmd[p].map, DOMAIN cmd[p].map \ {f})
          IN  /\ kernel' = [kernel EXCEPT ![f] = cmd[p].map[f]] /\ owner' = [owner EXCEPT ![f] = "load"]
              /\ cmd' = [cmd EXCEPT ![p] = IF rest = Empty THEN NoCmd ELSE [pc |-> "apply", map |-> rest]]
    /\ UNCHANGED <<feature_config, module_config, live, bootstage, left, limits, saved>>

\* A module is enabled or disabled; or removed, with its configuration, when
\* the next boot prunes it.
ModuleMarked(m) ==
    /\ bootstage = "on" /\ limits.ops < MaxOps /\ limits' = [limits EXCEPT !.ops = @ + 1]
    /\ live' = IF m \in live THEN live \ {m} ELSE live \cup {m}
    /\ UNCHANGED <<kernel, feature_config, module_config, cmd, bootstage, left, saved, owner>>

clear_module_configs(m) ==
    /\ bootstage = "early" /\ m \notin live /\ \A t \in Types : FreeFile(m, t)
    /\ \E t \in Types : module_config[m][t].map # Empty
    /\ module_config' = [module_config EXCEPT ![m] = [t \in Types |-> Whole(Empty)]]
    /\ UNCHANGED <<kernel, feature_config, live, cmd, bootstage, left, limits, saved, owner>>

-----------------------------------------------------------------------------
(* Boot: on_post_data_fs() *)

\* The power may go at any time; nothing is left of what runs.
PowerCycle ==
    /\ limits.boots < MaxBoots /\ limits' = [limits EXCEPT !.boots = @ + 1]
    /\ kernel' = [f \in Features |-> Default(f)] /\ owner' = [f \in Features |-> "default"]
    /\ cmd' = [p \in Cmds |-> NoCmd] /\ left' = Empty /\ bootstage' = "clear"
    /\ saved' = IF feature_config.whole THEN saved ELSE Empty
    /\ UNCHANGED <<feature_config, module_config, live>>

clear_all_temp_configs ==
    /\ bootstage = "clear" /\ bootstage' = "early"
    /\ module_config' = [m \in Mods |-> [module_config[m] EXCEPT !.temp = Whole(Empty)]]
    /\ UNCHANGED <<kernel, feature_config, live, cmd, left, limits, saved, owner>>

\* In safe mode all modules are disabled, and features are left alone.
SafeMode ==
    /\ bootstage = "early" /\ \A p \in Cmds : cmd[p] = NoCmd
    /\ bootstage' = "on" /\ live' = {} /\ owner' = [f \in Features |-> "safe mode"]
    /\ UNCHANGED <<kernel, feature_config, module_config, cmd, left, limits, saved>>

\* Mutant: what a module manages is applied too.
AppliesAll ==
    /\ bootstage = "early" /\ \A p \in Cmds : cmd[p] = NoCmd
    /\ IF feature_config.whole /\ feature_config.map # Empty
       THEN bootstage' = "init" /\ left' = feature_config.map
       ELSE bootstage' = "on" /\ UNCHANGED left
    /\ saved' = Restrict(saved, DOMAIN saved \ Managed)
    /\ UNCHANGED <<kernel, feature_config, module_config, live, cmd, limits, owner>>

\* init_features(): the file is read, and what modules manage taken out. A
\* file that cannot be read, or with nothing left, ends it.
init_features ==
    LET features == Restrict(feature_config.map, DOMAIN feature_config.map \ Managed)
    IN  /\ bootstage = "early" /\ \A p \in Cmds : cmd[p] = NoCmd
        /\ IF feature_config.whole /\ features # Empty
           THEN bootstage' = "init" /\ left' = features
           ELSE bootstage' = "on" /\ UNCHANGED left
        /\ saved' = Restrict(saved, DOMAIN saved \ Managed)
        /\ UNCHANGED <<kernel, feature_config, module_config, live, cmd, limits, owner>>

\* apply_config(), and then the file is cut to nothing.
apply_config ==
    /\ bootstage = "init" /\ bootstage' = "write"
    /\ kernel' = [f \in Features |-> IF f \in DOMAIN left THEN left[f] ELSE kernel[f]]
    /\ owner' = [f \in Features |-> IF f \in DOMAIN left THEN "file" ELSE owner[f]]
    /\ feature_config' = TornFile
    /\ UNCHANGED <<module_config, live, cmd, left, limits, saved>>

InitWritten ==
    /\ bootstage = "write" /\ bootstage' = "on" /\ left' = Empty
    /\ feature_config' = Whole(left)
    /\ UNCHANGED <<kernel, module_config, live, cmd, limits, saved, owner>>

ConfigStep ==
    \/ \E p \in Cmds :
          \/ ConfigRenamed(p) \/ set_kernel_feature(p) \/ save_config(p) \/ FeaturesWritten(p)
          \/ load_config_and_apply(p) \/ ApplyLoaded(p)
          \/ \E m \in Mods, t \in Types :
                \/ clear_config(p, m, t)
                \/ \E k \in Keys : \/ delete_config_value(p, m, t, k)
                                   \/ \E v \in {"true", "false"} : set_config_value(p, m, t, k, v)
          \/ \E f \in Features, v \in {0, 1}, caller \in Mods \cup {"user"} : set_feature(p, f, v, caller)
    \/ \E m \in Mods : ModuleMarked(m) \/ clear_module_configs(m)
    \/ PowerCycle \/ clear_all_temp_configs \/ SafeMode \/ init_features \/ apply_config \/ InitWritten

ConfigNext == ConfigStep /\ Watch

ConfigSpec == ConfigInit /\ [][ConfigNext]_configVars

-----------------------------------------------------------------------------
\* A feature that modules manage without a break since the boot is changed by
\* nothing but them and "feature load": not by the file, whatever it was saved
\* with, and not by the user, whatever commands run at the same time.
ManagedKept == \A f \in Features : owner[f] \in {"user", "file"} => f \in unowned

\* A value the user saved is there after every later boot, over changes of
\* modules and their configurations and power failures, until it is saved anew
\* or set, a module manages the feature at a boot, or a save is cut short.
SavedReturns ==
    bootstage = "on" => \A f \in DOMAIN saved : owner[f] \in {"default", "file"} => kernel[f] = saved[f]

\* A feature is as its managing modules or, without one, as the user's last
\* save wants it.
FeatureSettings == ManagedKept /\ SavedReturns

\* The documented meaning of a key: "The presence of a `manage.<feature>` key
\* indicates the module is managing that feature", whatever its value
\* (module-config.md). So while it is there the user cannot set the feature.
PresenceManages ==
    [][\A f \in Features, p \in Cmds :
          (\E m \in live : <<"manage", f>> \in DOMAIN merge_configs(m))
             => ~(cmd[p] = NoCmd /\ cmd'[p].pc = "set" /\ cmd'[p].f = f /\ cmd'[p].caller = "user")]_configVars
=============================================================================
