----------------------------- MODULE RootProofs -----------------------------
(***************************************************************************)
(* Proofs about the two ends of root. SuSession, for every set of tasks,   *)
(* apps and namespaces and every bound on the environment: marks are kept, *)
(* nothing is unmounted in the global namespace, every escape can be       *)
(* accounted for, and a task that was sealed gains root no more.           *)
(*                                                                         *)
(* BootPatch, for every set of firmwares, of arguments and every number of *)
(* commands and updates: the boot partitions that ksud patches can be      *)
(* restored, and boot.                                                     *)
(***************************************************************************)
EXTENDS SuSession, BootPatch, TLAPS


(* Which steps a task's handler can be at, and who it is then.             *)
StepInv ==
    /\ rescans <= ops /\ tracepoint_reg_count <= 1 + ops
    /\ \A t \in Tasks :
          /\ pc[t] # "idle" => t \in alive
          /\ dom[t] = "init" => uid[t] = Root /\ pc[t] = "idle"
          /\ pc[t] \in {"decide", "mark", "umount"} =>
                uid[t] # Root /\ dom[t] \in {"ksu", "zygote"}
          /\ pc[t] = "mark" => arg[t] \in {"allowed", "denied"}
          /\ pc[t] = "commit" => arg[t] \in Granting

(* What a call for root carries from its check to its log entry.           *)
CallInv ==
    \A t \in Tasks :
        /\ pc[t] = "escape" =>
              /\ audit_uid[t] = uid[t] /\ arg[t] = Nil
              /\ KindOf(uid[t]) \in seen[t]
              /\ uid[t] \in {Root, Mgr} \/ seen[t] \cap Granting # {}
        /\ pc[t] \in {"commit", "emit"} /\ arg[t] = "full" =>
              \/ audit_uid[t] = Mgr
              \/ seen[t] \cap Granting # {} /\ seen[t] # {"limited"}
        /\ pc[t] \in {"escape", "commit", "emit"} =>
              /\ caller[t] \in Uids => caller[t] = audit_uid[t]
              /\ caller[t] \notin Uids \cup {"later"} => log[t] = "dropped"
        /\ pc[t] = "done" => log[t] \in {audit_uid[t], "dropped"}

(* The history "sealed" is the thread flag, and no call of a sealed task   *)
(* comes past the test of it.                                              *)
SealInv ==
    /\ sealed = nnp /\ sealed \subseteq alive
    /\ \A t \in sealed : dom[t] # "init" /\ pc[t] # "commit"

(* A zygote's child that dropped its uid had left the global namespace.    *)
NamespaceInv ==
    /\ Global \notin umounted
    /\ \A t \in Tasks : dom[t] = "zygote" /\ uid[t] # Root => ns[t] # Global

(* Who must be marked: a task that drops its uid only if it is seen, or    *)
(* one that may use su already.                                            *)
Must(t) == (uid[t] = Root /\ dom[t] \in {"ksu", "zygote"}) \/ ksu_is_allow_uid(uid[t])

MarkInv ==
    /\ rescans = 0 => \A t \in alive \ overtaken : Must(t) => t \in marked
    /\ TracedAllMarked
    /\ \A t \in alive \ overtaken : dom[t] = "init" => t \in marked
    /\ \A t \in alive \ overtaken :
          pc[t] = "mark" /\ arg[t] = "denied" => ~ksu_is_allow_uid(uid[t])

-----------------------------------------------------------------------------
(* Each part of the invariant is kept by every action. *)

\* Every variable keeps its type: a handler carries a profile when it commits.
LEMMA TypeKeeps == TypeOK /\ StepInv /\ [Next]_vars => TypeOK'
<1> SUFFICES ASSUME TypeOK, StepInv, [Next]_vars PROVE TypeOK'
    OBVIOUS
<1> USE SuAssumption DEF TypeOK, StepInv, Steps, Uids, Kinds, Granting, histVars, taskVars, vars
<1>1. ASSUME ksu_mark_running_process PROVE TypeOK'
    BY <1>1 DEF ksu_mark_running_process, ksu_mark_running_process_locked, Wanted
<1>2. ASSUME do_manage_mark PROVE TypeOK'
    BY <1>2 DEF do_manage_mark, ksu_set_task_mark, ksu_mark_running_process_locked, Wanted
<1>3. ASSUME syscall_regfunc_handler PROVE TypeOK'
    BY <1>3 DEF syscall_regfunc_handler
<1>4. ASSUME syscall_unregfunc_handler PROVE TypeOK'
    BY <1>4 DEF syscall_unregfunc_handler, ksu_mark_running_process_locked, Wanted
<1>5. ASSUME NEW u \in Apps, NEW k \in Kinds, SetProfile(u, k, TRUE) PROVE TypeOK'
    BY <1>5 DEF SetProfile
<1>6. ASSUME NEW u \in Apps, SetProfile(u, "none", FALSE) PROVE TypeOK'
    BY <1>6 DEF SetProfile
<1>7. ASSUME NEW t \in Tasks, InitForks(t) PROVE TypeOK'
    BY <1>7 DEF InitForks
<1>8. ASSUME NEW t \in Tasks, SetContext(t) PROVE TypeOK'
    BY <1>8 DEF SetContext
<1>9. ASSUME NEW t \in Tasks, NEW c \in Tasks, Forks(t, c) PROVE TypeOK'
    BY <1>9 DEF Forks, IsZygote
<1>10. ASSUME NEW t \in Tasks, NEW u \in Uids, ksu_hook_setresuid(t, u) PROVE TypeOK'
    BY <1>10 DEF ksu_hook_setresuid, IsZygote
<1>11. ASSUME NEW t \in Tasks, ksu_handle_setresuid(t) PROVE TypeOK'
    BY <1>11 DEF ksu_handle_setresuid, ksu_seccomp_allow_cache
<1>12. ASSUME NEW t \in Tasks, SetOrClear(t) PROVE TypeOK'
    BY <1>12 DEF SetOrClear, ksu_seccomp_allow_cache, ksu_clear_task_tracepoint_flag_if_needed
<1>13. ASSUME NEW t \in Tasks, ksu_handle_umount(t) PROVE TypeOK'
    BY <1>13 DEF ksu_handle_umount
<1>14. ASSUME NEW t \in Tasks, ksu_handle_init_mark_tracker(t) PROVE TypeOK'
    BY <1>14 DEF ksu_handle_init_mark_tracker, ksu_clear_task_tracepoint_flag_if_needed
<1>15. ASSUME NEW t \in Tasks, dom[t] # "init", ksu_handle_execve_sucompat(t) PROVE TypeOK'
    BY <1>15 DEF ksu_handle_execve_sucompat, Asks, KindOf
<1>16. ASSUME NEW t \in Tasks, do_grant_root(t) PROVE TypeOK'
    BY <1>16 DEF do_grant_root, Asks, KindOf
<1>17. ASSUME NEW t \in Tasks, escape_with_root_profile(t) PROVE TypeOK'
    BY <1>17 DEF escape_with_root_profile, ksu_get_root_profile
<1>18. ASSUME NEW t \in Tasks, CommitCreds(t) PROVE TypeOK'
    BY <1>18 DEF CommitCreds, disable_seccomp, setup_mount_ns
<1>19. ASSUME NEW t \in Tasks, AbortCreds(t) PROVE TypeOK'
    BY <1>19 DEF AbortCreds
<1>20. ASSUME NEW t \in Tasks, Emit(t) PROVE TypeOK'
    BY <1>20 DEF Emit
<1>21. ASSUME NEW t \in Tasks, Return(t) PROVE TypeOK'
    BY <1>21 DEF Return
<1>22. ASSUME NEW t \in Tasks, do_disable_escape_to_root(t) PROVE TypeOK'
    BY <1>22 DEF do_disable_escape_to_root
<1>23. CASE UNCHANGED vars
    BY <1>23
<1> HIDE DEF TypeOK, StepInv, Steps, Uids, Kinds, Granting, histVars, taskVars, vars
<1> QED
    BY <1>1, <1>2, <1>3, <1>4, <1>5, <1>6, <1>7, <1>8, <1>9, <1>10, <1>11, <1>12, <1>13, <1>14, <1>15, <1>16, <1>17, <1>18, <1>19, <1>20, <1>21, <1>22, <1>23 DEF Next, do_set_app_profile,
          ksu_prune_allowlist, ksu_hook_execve

\* A handler moves through its steps in order.
LEMMA StepKeeps == TypeOK /\ StepInv /\ [Next]_vars => StepInv'
<1> SUFFICES ASSUME TypeOK, StepInv, [Next]_vars PROVE StepInv'
    OBVIOUS
<1> USE SuAssumption DEF TypeOK, StepInv, Granting, histVars, taskVars, vars
<1>1. ASSUME ksu_mark_running_process PROVE StepInv'
    BY <1>1 DEF ksu_mark_running_process, ksu_mark_running_process_locked
<1>2. ASSUME do_manage_mark PROVE StepInv'
    BY <1>2 DEF do_manage_mark, ksu_set_task_mark, ksu_mark_running_process_locked
<1>3. ASSUME syscall_regfunc_handler PROVE StepInv'
    BY <1>3 DEF syscall_regfunc_handler
<1>4. ASSUME syscall_unregfunc_handler PROVE StepInv'
    BY <1>4 DEF syscall_unregfunc_handler, ksu_mark_running_process_locked
<1>5. ASSUME NEW u \in Apps, NEW k \in Kinds, SetProfile(u, k, TRUE) PROVE StepInv'
    BY <1>5 DEF SetProfile
<1>6. ASSUME NEW u \in Apps, SetProfile(u, "none", FALSE) PROVE StepInv'
    BY <1>6 DEF SetProfile
<1>7. ASSUME NEW t \in Tasks, InitForks(t) PROVE StepInv'
    BY <1>7 DEF InitForks
<1>8. ASSUME NEW t \in Tasks, SetContext(t) PROVE StepInv'
    BY <1>8 DEF SetContext
<1>9. ASSUME NEW t \in Tasks, NEW c \in Tasks, Forks(t, c) PROVE StepInv'
    BY <1>9 DEF Forks, IsZygote
<1>10. ASSUME NEW t \in Tasks, NEW u \in Uids, ksu_hook_setresuid(t, u) PROVE StepInv'
    BY <1>10 DEF ksu_hook_setresuid, IsZygote
<1>11. ASSUME NEW t \in Tasks, ksu_handle_setresuid(t) PROVE StepInv'
    BY <1>11 DEF ksu_handle_setresuid, ksu_seccomp_allow_cache
<1>12. ASSUME NEW t \in Tasks, SetOrClear(t) PROVE StepInv'
    BY <1>12 DEF SetOrClear, ksu_seccomp_allow_cache, ksu_clear_task_tracepoint_flag_if_needed
<1>13. ASSUME NEW t \in Tasks, ksu_handle_umount(t) PROVE StepInv'
    BY <1>13 DEF ksu_handle_umount
<1>14. ASSUME NEW t \in Tasks, ksu_handle_init_mark_tracker(t) PROVE StepInv'
    BY <1>14 DEF ksu_handle_init_mark_tracker, ksu_clear_task_tracepoint_flag_if_needed
<1>15. ASSUME NEW t \in Tasks, dom[t] # "init", ksu_handle_execve_sucompat(t) PROVE StepInv'
    BY <1>15 DEF ksu_handle_execve_sucompat, Asks
<1>16. ASSUME NEW t \in Tasks, do_grant_root(t) PROVE StepInv'
    BY <1>16 DEF do_grant_root, Asks
<1>17. ASSUME NEW t \in Tasks, escape_with_root_profile(t) PROVE StepInv'
    BY <1>17 DEF escape_with_root_profile, ksu_get_root_profile
<1>18. ASSUME NEW t \in Tasks, CommitCreds(t) PROVE StepInv'
    BY <1>18 DEF CommitCreds, disable_seccomp, setup_mount_ns
<1>19. ASSUME NEW t \in Tasks, AbortCreds(t) PROVE StepInv'
    BY <1>19 DEF AbortCreds
<1>20. ASSUME NEW t \in Tasks, Emit(t) PROVE StepInv'
    BY <1>20 DEF Emit
<1>21. ASSUME NEW t \in Tasks, Return(t) PROVE StepInv'
    BY <1>21 DEF Return
<1>22. ASSUME NEW t \in Tasks, do_disable_escape_to_root(t) PROVE StepInv'
    BY <1>22 DEF do_disable_escape_to_root
<1>23. CASE UNCHANGED vars
    BY <1>23
<1> HIDE DEF TypeOK, StepInv, Granting, histVars, taskVars, vars
<1> QED
    BY <1>1, <1>2, <1>3, <1>4, <1>5, <1>6, <1>7, <1>8, <1>9, <1>10, <1>11, <1>12, <1>13, <1>14, <1>15, <1>16, <1>17, <1>18, <1>19, <1>20, <1>21, <1>22, <1>23 DEF Next, do_set_app_profile,
          ksu_prune_allowlist, ksu_hook_execve

\* A call for root carries the identity and the grants of its caller.
LEMMA CallKeeps == TypeOK /\ StepInv /\ CallInv /\ [Next]_vars => CallInv'
<1> SUFFICES ASSUME TypeOK, StepInv, CallInv, [Next]_vars PROVE CallInv'
    OBVIOUS
<1> USE SuAssumption DEF TypeOK, StepInv, CallInv, KindOf, Uids, Kinds, Granting, histVars, taskVars, vars
<1>1. ASSUME ksu_mark_running_process PROVE CallInv'
    BY <1>1 DEF ksu_mark_running_process, ksu_mark_running_process_locked
<1>2. ASSUME do_manage_mark PROVE CallInv'
    BY <1>2 DEF do_manage_mark, ksu_set_task_mark, ksu_mark_running_process_locked
<1>3. ASSUME syscall_regfunc_handler PROVE CallInv'
    BY <1>3 DEF syscall_regfunc_handler
<1>4. ASSUME syscall_unregfunc_handler PROVE CallInv'
    BY <1>4 DEF syscall_unregfunc_handler, ksu_mark_running_process_locked
<1>5. ASSUME NEW u \in Apps, NEW k \in Kinds, SetProfile(u, k, TRUE) PROVE CallInv'
    BY <1>5 DEF SetProfile, Asking
<1>6. ASSUME NEW u \in Apps, SetProfile(u, "none", FALSE) PROVE CallInv'
    BY <1>6 DEF SetProfile, Asking
<1>7. ASSUME NEW t \in Tasks, InitForks(t) PROVE CallInv'
    BY <1>7 DEF InitForks
<1>8. ASSUME NEW t \in Tasks, SetContext(t) PROVE CallInv'
    BY <1>8 DEF SetContext
<1>9. ASSUME NEW t \in Tasks, NEW c \in Tasks, Forks(t, c) PROVE CallInv'
    BY <1>9 DEF Forks, IsZygote
<1>10. ASSUME NEW t \in Tasks, NEW u \in Uids, ksu_hook_setresuid(t, u) PROVE CallInv'
    BY <1>10 DEF ksu_hook_setresuid, IsZygote
<1>11. ASSUME NEW t \in Tasks, ksu_handle_setresuid(t) PROVE CallInv'
    BY <1>11 DEF ksu_handle_setresuid, ksu_seccomp_allow_cache
<1>12. ASSUME NEW t \in Tasks, SetOrClear(t) PROVE CallInv'
    BY <1>12 DEF SetOrClear, ksu_seccomp_allow_cache, ksu_clear_task_tracepoint_flag_if_needed
<1>13. ASSUME NEW t \in Tasks, ksu_handle_umount(t) PROVE CallInv'
    BY <1>13 DEF ksu_handle_umount
<1>14. ASSUME NEW t \in Tasks, ksu_handle_init_mark_tracker(t) PROVE CallInv'
    BY <1>14 DEF ksu_handle_init_mark_tracker, ksu_clear_task_tracepoint_flag_if_needed
<1>15. ASSUME NEW t \in Tasks, dom[t] # "init", ksu_handle_execve_sucompat(t) PROVE CallInv'
    BY <1>15 DEF ksu_handle_execve_sucompat, Asks, ksu_is_allow_uid,
         ksu_is_allow_uid_for_current
<1>16. ASSUME NEW t \in Tasks, do_grant_root(t) PROVE CallInv'
    BY <1>16 DEF do_grant_root, Asks, ksu_is_allow_uid, ksu_is_allow_uid_for_current
<1>17. ASSUME NEW t \in Tasks, escape_with_root_profile(t) PROVE CallInv'
    BY <1>17 DEF escape_with_root_profile, ksu_get_root_profile
<1>18. ASSUME NEW t \in Tasks, CommitCreds(t) PROVE CallInv'
    BY <1>18 DEF CommitCreds, disable_seccomp, setup_mount_ns
<1>19. ASSUME NEW t \in Tasks, AbortCreds(t) PROVE CallInv'
    BY <1>19 DEF AbortCreds
<1>20. ASSUME NEW t \in Tasks, Emit(t) PROVE CallInv'
    BY <1>20 DEF Emit
<1>21. ASSUME NEW t \in Tasks, Return(t) PROVE CallInv'
    BY <1>21 DEF Return
<1>22. ASSUME NEW t \in Tasks, do_disable_escape_to_root(t) PROVE CallInv'
    BY <1>22 DEF do_disable_escape_to_root
<1>23. CASE UNCHANGED vars
    BY <1>23
<1> HIDE DEF TypeOK, StepInv, CallInv, KindOf, Uids, Kinds, Granting, histVars, taskVars, vars
<1> QED
    BY <1>1, <1>2, <1>3, <1>4, <1>5, <1>6, <1>7, <1>8, <1>9, <1>10, <1>11, <1>12, <1>13, <1>14, <1>15, <1>16, <1>17, <1>18, <1>19, <1>20, <1>21, <1>22, <1>23 DEF Next, do_set_app_profile,
          ksu_prune_allowlist, ksu_hook_execve

\* The flag of a sealed task stays and stops its calls.
LEMMA SealKeeps == TypeOK /\ StepInv /\ SealInv /\ [Next]_vars => SealInv'
<1> SUFFICES ASSUME TypeOK, StepInv, SealInv, [Next]_vars PROVE SealInv'
    OBVIOUS
<1> USE DEF TypeOK, StepInv, SealInv, histVars, taskVars, vars
<1>1. ASSUME ksu_mark_running_process PROVE SealInv'
    BY <1>1 DEF ksu_mark_running_process, ksu_mark_running_process_locked
<1>2. ASSUME do_manage_mark PROVE SealInv'
    BY <1>2 DEF do_manage_mark, ksu_set_task_mark, ksu_mark_running_process_locked
<1>3. ASSUME syscall_regfunc_handler PROVE SealInv'
    BY <1>3 DEF syscall_regfunc_handler
<1>4. ASSUME syscall_unregfunc_handler PROVE SealInv'
    BY <1>4 DEF syscall_unregfunc_handler, ksu_mark_running_process_locked
<1>5. ASSUME NEW u \in Apps, NEW k \in Kinds, SetProfile(u, k, TRUE) PROVE SealInv'
    BY <1>5 DEF SetProfile
<1>6. ASSUME NEW u \in Apps, SetProfile(u, "none", FALSE) PROVE SealInv'
    BY <1>6 DEF SetProfile
<1>7. ASSUME NEW t \in Tasks, InitForks(t) PROVE SealInv'
    BY <1>7 DEF InitForks
<1>8. ASSUME NEW t \in Tasks, SetContext(t) PROVE SealInv'
    BY <1>8 DEF SetContext
<1>9. ASSUME NEW t \in Tasks, NEW c \in Tasks, Forks(t, c) PROVE SealInv'
    BY <1>9 DEF Forks, IsZygote
<1>10. ASSUME NEW t \in Tasks, NEW u \in Uids, ksu_hook_setresuid(t, u) PROVE SealInv'
    BY <1>10 DEF ksu_hook_setresuid, IsZygote
<1>11. ASSUME NEW t \in Tasks, ksu_handle_setresuid(t) PROVE SealInv'
    BY <1>11 DEF ksu_handle_setresuid, ksu_seccomp_allow_cache
<1>12. ASSUME NEW t \in Tasks, SetOrClear(t) PROVE SealInv'
    BY <1>12 DEF SetOrClear, ksu_seccomp_allow_cache, ksu_clear_task_tracepoint_flag_if_needed
<1>13. ASSUME NEW t \in Tasks, ksu_handle_umount(t) PROVE SealInv'
    BY <1>13 DEF ksu_handle_umount
<1>14. ASSUME NEW t \in Tasks, ksu_handle_init_mark_tracker(t) PROVE SealInv'
    BY <1>14 DEF ksu_handle_init_mark_tracker, ksu_clear_task_tracepoint_flag_if_needed
<1>15. ASSUME NEW t \in Tasks, dom[t] # "init", ksu_handle_execve_sucompat(t) PROVE SealInv'
    BY <1>15 DEF ksu_handle_execve_sucompat, Asks
<1>16. ASSUME NEW t \in Tasks, do_grant_root(t) PROVE SealInv'
    BY <1>16 DEF do_grant_root, Asks
<1>17. ASSUME NEW t \in Tasks, escape_with_root_profile(t) PROVE SealInv'
    BY <1>17 DEF escape_with_root_profile, ksu_get_root_profile
<1>18. ASSUME NEW t \in Tasks, CommitCreds(t) PROVE SealInv'
    BY <1>18 DEF CommitCreds, disable_seccomp, setup_mount_ns
<1>19. ASSUME NEW t \in Tasks, AbortCreds(t) PROVE SealInv'
    BY <1>19 DEF AbortCreds
<1>20. ASSUME NEW t \in Tasks, Emit(t) PROVE SealInv'
    BY <1>20 DEF Emit
<1>21. ASSUME NEW t \in Tasks, Return(t) PROVE SealInv'
    BY <1>21 DEF Return
<1>22. ASSUME NEW t \in Tasks, do_disable_escape_to_root(t) PROVE SealInv'
    BY <1>22 DEF do_disable_escape_to_root
<1>23. CASE UNCHANGED vars
    BY <1>23
<1> HIDE DEF TypeOK, StepInv, SealInv, histVars, taskVars, vars
<1> QED
    BY <1>1, <1>2, <1>3, <1>4, <1>5, <1>6, <1>7, <1>8, <1>9, <1>10, <1>11, <1>12, <1>13, <1>14, <1>15, <1>16, <1>17, <1>18, <1>19, <1>20, <1>21, <1>22, <1>23 DEF Next, do_set_app_profile,
          ksu_prune_allowlist, ksu_hook_execve

\* A task that can be unmounted for is in a namespace of its own.
LEMMA NamespaceKeeps == TypeOK /\ StepInv /\ NamespaceInv /\ [Next]_vars => NamespaceInv'
<1> SUFFICES ASSUME TypeOK, StepInv, NamespaceInv, [Next]_vars PROVE NamespaceInv'
    OBVIOUS
<1> USE SuAssumption DEF TypeOK, StepInv, NamespaceInv, histVars, taskVars, vars
<1>1. ASSUME ksu_mark_running_process PROVE NamespaceInv'
    BY <1>1 DEF ksu_mark_running_process, ksu_mark_running_process_locked
<1>2. ASSUME do_manage_mark PROVE NamespaceInv'
    BY <1>2 DEF do_manage_mark, ksu_set_task_mark, ksu_mark_running_process_locked
<1>3. ASSUME syscall_regfunc_handler PROVE NamespaceInv'
    BY <1>3 DEF syscall_regfunc_handler
<1>4. ASSUME syscall_unregfunc_handler PROVE NamespaceInv'
    BY <1>4 DEF syscall_unregfunc_handler, ksu_mark_running_process_locked
<1>5. ASSUME NEW u \in Apps, NEW k \in Kinds, SetProfile(u, k, TRUE) PROVE NamespaceInv'
    BY <1>5 DEF SetProfile
<1>6. ASSUME NEW u \in Apps, SetProfile(u, "none", FALSE) PROVE NamespaceInv'
    BY <1>6 DEF SetProfile
<1>7. ASSUME NEW t \in Tasks, InitForks(t) PROVE NamespaceInv'
    BY <1>7 DEF InitForks
<1>8. ASSUME NEW t \in Tasks, SetContext(t) PROVE NamespaceInv'
    BY <1>8 DEF SetContext
<1>9. ASSUME NEW t \in Tasks, NEW c \in Tasks, Forks(t, c) PROVE NamespaceInv'
    BY <1>9 DEF Forks, IsZygote
<1>10. ASSUME NEW t \in Tasks, NEW u \in Uids, ksu_hook_setresuid(t, u) PROVE NamespaceInv'
    BY <1>10 DEF ksu_hook_setresuid, IsZygote
<1>11. ASSUME NEW t \in Tasks, ksu_handle_setresuid(t) PROVE NamespaceInv'
    BY <1>11 DEF ksu_handle_setresuid, ksu_seccomp_allow_cache
<1>12. ASSUME NEW t \in Tasks, SetOrClear(t) PROVE NamespaceInv'
    BY <1>12 DEF SetOrClear, ksu_seccomp_allow_cache, ksu_clear_task_tracepoint_flag_if_needed
<1>13. ASSUME NEW t \in Tasks, ksu_handle_umount(t) PROVE NamespaceInv'
    BY <1>13 DEF ksu_handle_umount
<1>14. ASSUME NEW t \in Tasks, ksu_handle_init_mark_tracker(t) PROVE NamespaceInv'
    BY <1>14 DEF ksu_handle_init_mark_tracker, ksu_clear_task_tracepoint_flag_if_needed
<1>15. ASSUME NEW t \in Tasks, dom[t] # "init", ksu_handle_execve_sucompat(t) PROVE NamespaceInv'
    BY <1>15 DEF ksu_handle_execve_sucompat, Asks
<1>16. ASSUME NEW t \in Tasks, do_grant_root(t) PROVE NamespaceInv'
    BY <1>16 DEF do_grant_root, Asks
<1>17. ASSUME NEW t \in Tasks, escape_with_root_profile(t) PROVE NamespaceInv'
    BY <1>17 DEF escape_with_root_profile, ksu_get_root_profile
<1>18. ASSUME NEW t \in Tasks, CommitCreds(t) PROVE NamespaceInv'
    BY <1>18 DEF CommitCreds, disable_seccomp, setup_mount_ns
<1>19. ASSUME NEW t \in Tasks, AbortCreds(t) PROVE NamespaceInv'
    BY <1>19 DEF AbortCreds
<1>20. ASSUME NEW t \in Tasks, Emit(t) PROVE NamespaceInv'
    BY <1>20 DEF Emit
<1>21. ASSUME NEW t \in Tasks, Return(t) PROVE NamespaceInv'
    BY <1>21 DEF Return
<1>22. ASSUME NEW t \in Tasks, do_disable_escape_to_root(t) PROVE NamespaceInv'
    BY <1>22 DEF do_disable_escape_to_root
<1>23. CASE UNCHANGED vars
    BY <1>23
<1> HIDE DEF TypeOK, StepInv, NamespaceInv, histVars, taskVars, vars
<1> QED
    BY <1>1, <1>2, <1>3, <1>4, <1>5, <1>6, <1>7, <1>8, <1>9, <1>10, <1>11, <1>12, <1>13, <1>14, <1>15, <1>16, <1>17, <1>18, <1>19, <1>20, <1>21, <1>22, <1>23 DEF Next, do_set_app_profile,
          ksu_prune_allowlist, ksu_hook_execve

\* No task that must be marked loses its mark.
LEMMA MarkKeeps == TypeOK /\ StepInv /\ MarkInv /\ [Next]_vars => MarkInv'
<1> SUFFICES ASSUME TypeOK, StepInv, MarkInv, [Next]_vars PROVE MarkInv'
    OBVIOUS
<1> USE SuAssumption DEF TypeOK, StepInv, MarkInv, Must, TracedAllMarked, Wanted, KindOf, ksu_is_allow_uid,
         ksu_is_allow_uid_for_current, Uids, Kinds, Granting, histVars, taskVars, vars
<1>1. ASSUME ksu_mark_running_process PROVE MarkInv'
    BY <1>1 DEF ksu_mark_running_process, ksu_mark_running_process_locked
<1>2. ASSUME do_manage_mark PROVE MarkInv'
    BY <1>2 DEF do_manage_mark, ksu_set_task_mark, ksu_mark_running_process_locked
<1>3. ASSUME syscall_regfunc_handler PROVE MarkInv'
    BY <1>3 DEF syscall_regfunc_handler
<1>4. ASSUME syscall_unregfunc_handler PROVE MarkInv'
    BY <1>4 DEF syscall_unregfunc_handler, ksu_mark_running_process_locked
<1>5. ASSUME NEW u \in Apps, NEW k \in Kinds, SetProfile(u, k, TRUE) PROVE MarkInv'
    BY <1>5 DEF SetProfile
<1>6. ASSUME NEW u \in Apps, SetProfile(u, "none", FALSE) PROVE MarkInv'
    BY <1>6 DEF SetProfile
<1>7. ASSUME NEW t \in Tasks, InitForks(t) PROVE MarkInv'
    BY <1>7 DEF InitForks
<1>8. ASSUME NEW t \in Tasks, SetContext(t) PROVE MarkInv'
    BY <1>8 DEF SetContext
<1>9. ASSUME NEW t \in Tasks, NEW c \in Tasks, Forks(t, c) PROVE MarkInv'
    BY <1>9 DEF Forks, IsZygote
<1>10. ASSUME NEW t \in Tasks, NEW u \in Uids, ksu_hook_setresuid(t, u) PROVE MarkInv'
    BY <1>10 DEF ksu_hook_setresuid, IsZygote
<1>11. ASSUME NEW t \in Tasks, ksu_handle_setresuid(t) PROVE MarkInv'
    BY <1>11 DEF ksu_handle_setresuid, ksu_seccomp_allow_cache
<1>12. ASSUME NEW t \in Tasks, SetOrClear(t) PROVE MarkInv'
    BY <1>12 DEF SetOrClear, ksu_seccomp_allow_cache, ksu_clear_task_tracepoint_flag_if_needed
<1>13. ASSUME NEW t \in Tasks, ksu_handle_umount(t) PROVE MarkInv'
    BY <1>13 DEF ksu_handle_umount
<1>14. ASSUME NEW t \in Tasks, ksu_handle_init_mark_tracker(t) PROVE MarkInv'
    <2> USE DEF ksu_handle_init_mark_tracker
    <2>1. uid[t] = Root /\ pc[t] = "idle" /\ (t \in overtaken \/ t \in marked)
        BY <1>14
    <2>2. ~ksu_is_allow_uid(Root)
        OBVIOUS
    <2>3. \/ marked' = marked
          \/ marked' = marked \ {t} /\ dom'[t] = "app" /\ tracepoint_reg_count <= 1
        BY <1>14 DEF ksu_clear_task_tracepoint_flag_if_needed
    <2>4. \A s \in alive : s # t => dom'[s] = dom[s]
        BY <1>14
    <2>5. dom'[t] # "init" /\ UNCHANGED <<alive, uid, pc, arg, profile, rescans,
                                         tracepoint_reg_count, overtaken>>
        BY <1>14
    <2> QED
        BY <2>1, <2>2, <2>3, <2>4, <2>5
<1>15. ASSUME NEW t \in Tasks, dom[t] # "init", ksu_handle_execve_sucompat(t) PROVE MarkInv'
    BY <1>15 DEF ksu_handle_execve_sucompat, Asks
<1>16. ASSUME NEW t \in Tasks, do_grant_root(t) PROVE MarkInv'
    BY <1>16 DEF do_grant_root, Asks
<1>17. ASSUME NEW t \in Tasks, escape_with_root_profile(t) PROVE MarkInv'
    BY <1>17 DEF escape_with_root_profile, ksu_get_root_profile
<1>18. ASSUME NEW t \in Tasks, CommitCreds(t) PROVE MarkInv'
    BY <1>18 DEF CommitCreds, disable_seccomp, setup_mount_ns
<1>19. ASSUME NEW t \in Tasks, AbortCreds(t) PROVE MarkInv'
    BY <1>19 DEF AbortCreds
<1>20. ASSUME NEW t \in Tasks, Emit(t) PROVE MarkInv'
    BY <1>20 DEF Emit
<1>21. ASSUME NEW t \in Tasks, Return(t) PROVE MarkInv'
    BY <1>21 DEF Return
<1>22. ASSUME NEW t \in Tasks, do_disable_escape_to_root(t) PROVE MarkInv'
    BY <1>22 DEF do_disable_escape_to_root
<1>23. CASE UNCHANGED vars
    BY <1>23
<1> HIDE DEF TypeOK, StepInv, MarkInv, Must, TracedAllMarked, Wanted, KindOf, ksu_is_allow_uid,
        ksu_is_allow_uid_for_current, Uids, Kinds, Granting, histVars, taskVars, vars
<1> QED
    BY <1>1, <1>2, <1>3, <1>4, <1>5, <1>6, <1>7, <1>8, <1>9, <1>10, <1>11, <1>12, <1>13, <1>14, <1>15, <1>16, <1>17, <1>18, <1>19, <1>20, <1>21, <1>22, <1>23 DEF Next, do_set_app_profile,
          ksu_prune_allowlist, ksu_hook_execve

-----------------------------------------------------------------------------
(* The invariant of the specification, and what follows from it. *)

SessionInv == TypeOK /\ StepInv /\ CallInv /\ SealInv /\ NamespaceInv /\ MarkInv

\* At boot no task is alive and nothing is asked.
LEMMA SessionInit == Init => SessionInv
<1> SUFFICES ASSUME Init PROVE SessionInv
    OBVIOUS
<1> USE SuAssumption DEF Init
<1>1. TypeOK
    BY DEF TypeOK, Uids, Steps, Kinds
<1>2. StepInv /\ CallInv /\ SealInv /\ NamespaceInv
    BY DEF StepInv, CallInv, SealInv, NamespaceInv
<1>3. MarkInv
    BY DEF MarkInv, TracedAllMarked
<1> QED
    BY <1>1, <1>2, <1>3 DEF SessionInv

\* No step of any task or of the manager disturbs any part of it.
LEMMA SessionKeeps == SessionInv /\ [Next]_vars => SessionInv'
BY TypeKeeps, StepKeeps, CallKeeps, SealKeeps, NamespaceKeeps, MarkKeeps DEF SessionInv

LEMMA SessionAlways == Spec => []SessionInv
BY SessionInit, SessionKeeps, PTL DEF Spec

\* ksu_handle_init_mark_tracker(), ksu_handle_setresuid() and the scans: no
\* zygote and no task that may use su loses the mark through which its
\* system calls reach the hooks, but for those that a scan will repair.
THEOREM MarksCorrect == Spec => []MarksKept
<1>1. SessionInv => MarksKept
    BY DEF SessionInv, MarkInv, MarksKept, MarkedIfAllowed, Must, IsZygote
<1> QED
    BY <1>1, SessionAlways, PTL

\* ksu_handle_umount(): nothing is ever unmounted in the global namespace.
THEOREM GlobalCorrect == Spec => []GlobalIntact
<1>1. SessionInv => GlobalIntact
    BY DEF SessionInv, NamespaceInv, GlobalIntact
<1> QED
    BY <1>1, SessionAlways, PTL

\* escape_with_root_profile() and do_grant_root(): whoever became root had a
\* grant while it asked, and is in the log by the uid that asked.
THEOREM EscapesCorrect == Spec => []EscapesAccounted
<1>1. SessionInv => EscapesAccounted
    <2> SUFFICES ASSUME SessionInv PROVE EscapesAccounted
        OBVIOUS
    <2>1. alive \subseteq Tasks
        BY DEF SessionInv, TypeOK
    <2> QED
        BY <2>1 DEF SessionInv, CallInv, EscapesAccounted, EscapeAccountable, EscapesLogged
<1> QED
    BY <1>1, SessionAlways, PTL

\* escape_with_root_profile() tests the thread flag that a limited profile or
\* do_disable_escape_to_root() has set: a sealed task gains root no more.
THEOREM SealCorrect == Spec => SealedStaysSealed
<1> DEFINE Kept == \A t \in sealed : priv'[t] = "full" => priv[t] = "full"
<1>1. SessionInv /\ [Next]_vars => Kept
    <2> SUFFICES ASSUME SessionInv, [Next]_vars PROVE Kept
        OBVIOUS
    <2> USE DEF SessionInv, TypeOK, SealInv, histVars, taskVars, vars
    <2>1. ASSUME ksu_mark_running_process PROVE Kept
        BY <2>1 DEF ksu_mark_running_process, ksu_mark_running_process_locked
    <2>2. ASSUME do_manage_mark PROVE Kept
        BY <2>2 DEF do_manage_mark, ksu_set_task_mark, ksu_mark_running_process_locked
    <2>3. ASSUME syscall_regfunc_handler PROVE Kept
        BY <2>3 DEF syscall_regfunc_handler
    <2>4. ASSUME syscall_unregfunc_handler PROVE Kept
        BY <2>4 DEF syscall_unregfunc_handler, ksu_mark_running_process_locked
    <2>5. ASSUME NEW u \in Apps, NEW k \in Kinds, SetProfile(u, k, TRUE) PROVE Kept
        BY <2>5 DEF SetProfile
    <2>6. ASSUME NEW u \in Apps, SetProfile(u, "none", FALSE) PROVE Kept
        BY <2>6 DEF SetProfile
    <2>7. ASSUME NEW t \in Tasks, InitForks(t) PROVE Kept
        BY <2>7 DEF InitForks
    <2>8. ASSUME NEW t \in Tasks, SetContext(t) PROVE Kept
        BY <2>8 DEF SetContext
    <2>9. ASSUME NEW t \in Tasks, NEW c \in Tasks, Forks(t, c) PROVE Kept
        BY <2>9 DEF Forks, IsZygote
    <2>10. ASSUME NEW t \in Tasks, NEW u \in Uids, ksu_hook_setresuid(t, u) PROVE Kept
        BY <2>10 DEF ksu_hook_setresuid, IsZygote
    <2>11. ASSUME NEW t \in Tasks, ksu_handle_setresuid(t) PROVE Kept
        BY <2>11 DEF ksu_handle_setresuid, ksu_seccomp_allow_cache
    <2>12. ASSUME NEW t \in Tasks, SetOrClear(t) PROVE Kept
        BY <2>12 DEF SetOrClear, ksu_seccomp_allow_cache, ksu_clear_task_tracepoint_flag_if_needed
    <2>13. ASSUME NEW t \in Tasks, ksu_handle_umount(t) PROVE Kept
        BY <2>13 DEF ksu_handle_umount
    <2>14. ASSUME NEW t \in Tasks, ksu_handle_init_mark_tracker(t) PROVE Kept
        BY <2>14 DEF ksu_handle_init_mark_tracker, ksu_clear_task_tracepoint_flag_if_needed
    <2>15. ASSUME NEW t \in Tasks, dom[t] # "init", ksu_handle_execve_sucompat(t) PROVE Kept
        BY <2>15 DEF ksu_handle_execve_sucompat, Asks
    <2>16. ASSUME NEW t \in Tasks, do_grant_root(t) PROVE Kept
        BY <2>16 DEF do_grant_root, Asks
    <2>17. ASSUME NEW t \in Tasks, escape_with_root_profile(t) PROVE Kept
        BY <2>17 DEF escape_with_root_profile, ksu_get_root_profile
    <2>18. ASSUME NEW t \in Tasks, CommitCreds(t) PROVE Kept
        BY <2>18 DEF CommitCreds, disable_seccomp, setup_mount_ns
    <2>19. ASSUME NEW t \in Tasks, AbortCreds(t) PROVE Kept
        BY <2>19 DEF AbortCreds
    <2>20. ASSUME NEW t \in Tasks, Emit(t) PROVE Kept
        BY <2>20 DEF Emit
    <2>21. ASSUME NEW t \in Tasks, Return(t) PROVE Kept
        BY <2>21 DEF Return
    <2>22. ASSUME NEW t \in Tasks, do_disable_escape_to_root(t) PROVE Kept
        BY <2>22 DEF do_disable_escape_to_root
    <2>23. CASE UNCHANGED vars
        BY <2>23
    <2> HIDE DEF Kept, SessionInv, TypeOK, SealInv, histVars, taskVars, vars
    <2> QED
        BY <2>1, <2>2, <2>3, <2>4, <2>5, <2>6, <2>7, <2>8, <2>9, <2>10, <2>11, <2>12, <2>13, <2>14, <2>15, <2>16, <2>17, <2>18, <2>19, <2>20, <2>21, <2>22, <2>23 DEF Next, do_set_app_profile,
              ksu_prune_allowlist, ksu_hook_execve
<1>2. SessionInv /\ [Next]_vars => [Kept]_vars
    BY <1>1
<1> QED
    BY <1>2, SessionAlways, PTL DEF Spec, SealedStaysSealed

-----------------------------------------------------------------------------
(* The boot partitions. Each slot has some firmware; what its partitions    *)
(* hold, and whatever may come to be flashed to them, is that firmware's    *)
(* image, patched or restored any number of times.                          *)

(* The init of the firmware is in place, or kept behind KernelSU's.         *)
InitKept(cpio, real) ==
    IF "kernelsu.ko" \in DOMAIN cpio
    THEN /\ "init" \in DOMAIN cpio /\ cpio["init"] = "ksuinit"
         /\ "init.real" \in DOMAIN cpio <=> real # ""
         /\ real # "" => cpio["init.real"] = real
    ELSE /\ "init.real" \notin DOMAIN cpio
         /\ "init" \in DOMAIN cpio <=> real # ""
         /\ real # "" => cpio["init"] = real

(* An image for a partition called name: its backup is one of known, its    *)
(* kernel and its module are for kmi.                                       *)
Sound(image, name, real, kmi, known, lost) ==
    /\ IsImage(image)
    /\ InitKept(image.cpio, real)
    /\ "stock_image.sha1" \in DOMAIN image.cpio => image.cpio["stock_image.sha1"] \in known
    /\ name = "boot" => image.kernel.kmi = kmi
    /\ Patched(image) /\ ~lost => image.cpio["kernelsu.ko"] = kmi

(* The slot that does not run has a boot partition that was interrupted: it *)
(* tells no KMI, and nothing but an update makes the slot bootable again.   *)
Lost(s) ==
    /\ s # slot /\ device[s]["boot"] = Torn
    /\ command = Idle \/ command.at # s \/ command.name # "boot"

Shipped(fw, s, n) == RealInit(fw[s].partitions[n])
KmiOf(fw, s) == fw[s].partitions["boot"].kernel.kmi
SoundAt(fw, image, s, n) == Sound(image, n, Shipped(fw, s, n), KmiOf(fw, s), pristine[s][n], Lost(s))

CommandFields == {"op", "args", "at", "name", "source", "new", "pc"}

IsTable(names, t) == t = [s \in Slots |-> [n \in names |-> t[s][n]]]

BootTypes(fw, names) ==
    /\ \A s \in Slots : DOMAIN fw[s].partitions = names
    /\ slot \in Slots /\ active \in Slots
    /\ uname = KmiOf(fw, slot)
    /\ IsTable(names, device) /\ IsTable(names, pristine)

PartitionsInv(fw, names) ==
    \A s \in Slots, n \in names :
        /\ device[s][n] # Torn => SoundAt(fw, device[s][n], s, n)
        /\ \A p \in pristine[s][n] : p # Torn => SoundAt(fw, p, s, n)

(* What is written for the user is flashed later.                           *)
OutputInv(fw, names) ==
    /\ output = [at |-> output.at, name |-> output.name, image |-> output.image]
    /\ output.image \notin {None, Torn} =>
        /\ output.at \in Slots /\ output.name \in names
        /\ SoundAt(fw, output.image, output.at, output.name)

(* A command carries what it read, and what it will write.                  *)
CommandInv(fw, names) ==
    command # Idle =>
        /\ command = [f \in CommandFields |-> command[f]]
        /\ command.op \in {"patch", "restore"}
        /\ command.at \in Slots /\ command.name \in names
        /\ command.op = "patch" => command.source # Torn /\ SoundAt(fw, command.source, command.at, command.name)
        /\ command.op = "patch" \/ command.new # Torn => SoundAt(fw, command.new, command.at, command.name)

BootedInv == booted.init # "ksuinit" /\ booted.good

BootStep(fw, names) ==
    /\ BootTypes(fw, names) /\ PartitionsInv(fw, names) /\ OutputInv(fw, names)
    /\ CommandInv(fw, names) /\ BootedInv

BootInv == \E fw \in [Slots -> Firmwares] : BootStep(fw, DOMAIN fw["a"].partitions)

-----------------------------------------------------------------------------
(* The ramdisk.                                                             *)

KeptNames == {"init", "init.real", "kernelsu.ko", "stock_image.sha1"}
SameNames(c, d, names) ==
    \A x \in names : (x \in DOMAIN d <=> x \in DOMAIN c) /\ (x \in DOMAIN c => d[x] = c[x])

Added(c, name, data, d) ==
    /\ DOMAIN d = DOMAIN c \cup {name} /\ d[name] = data
    /\ \A x \in DOMAIN c : x # name => d[x] = c[x]

LEMMA AddFacts ==
    ASSUME NEW cpio, NEW name, NEW data
    PROVE  Added(cpio, name, data, add(cpio, name, data))
  BY DEF add, Added

LEMMA RmFacts ==
    ASSUME NEW cpio, NEW name
    PROVE  /\ DOMAIN rm(cpio, name) = DOMAIN cpio \ {name}
           /\ \A x \in DOMAIN cpio : x # name => rm(cpio, name)[x] = cpio[x]
  BY DEF rm, Restrict

LEMMA AddOther ==
    ASSUME NEW cpio, NEW name, NEW data, name \notin KeptNames
    PROVE  SameNames(cpio, add(cpio, name, data), KeptNames)
<1> DEFINE d == add(cpio, name, data)
<1>1. Added(cpio, name, data, d)  BY AddFacts
<1> HIDE DEF d
<1>2. SameNames(cpio, d, KeptNames)  BY <1>1 DEF Added, SameNames
<1> QED  BY <1>2 DEF d

(* The configuration and the debugging of adb leave alone what restores.    *)
LEMMA ConfigFacts ==
    ASSUME NEW cpio, NEW config, NEW enable
    PROVE  SameNames(cpio, adb_debug(ksu_config(cpio, config), enable), KeptNames)
<1> DEFINE d == ksu_config(cpio, config)
           e == add(d, "force_debuggable", "")
           g == rm(d, "force_debuggable")
<1>1. SameNames(cpio, d, KeptNames)
  <2> DEFINE old == IF "ksu_config" \in DOMAIN cpio THEN cpio["ksu_config"] ELSE {}
             new == (old \ {"norc=1", "allow_shell=1"}) \cup config
  <2>1. d = IF new = {} THEN rm(cpio, "ksu_config") ELSE add(cpio, "ksu_config", new)  BY DEF ksu_config
  <2>2. SameNames(cpio, rm(cpio, "ksu_config"), KeptNames)  BY RmFacts DEF SameNames, KeptNames
  <2>3. ASSUME NEW data PROVE SameNames(cpio, add(cpio, "ksu_config", data), KeptNames)
    BY AddOther DEF KeptNames
  <2> QED  BY <2>1, <2>2, <2>3
<1> HIDE DEF d
<1>2. SameNames(d, e, KeptNames)  BY AddOther DEF KeptNames
<1>3. SameNames(d, g, KeptNames)  BY RmFacts DEF SameNames, KeptNames
<1> HIDE DEF e, g
<1>4. SameNames(e, add(e, "adb_debug.prop", "ro.debuggable=1"), KeptNames)
  BY AddOther DEF KeptNames
<1>5. SameNames(g, rm(g, "adb_debug.prop"), KeptNames)  BY RmFacts DEF SameNames, KeptNames
<1>6. adb_debug(d, enable) = IF enable THEN add(e, "adb_debug.prop", "ro.debuggable=1") ELSE rm(g, "adb_debug.prop")
  BY DEF adb_debug, e, g
<1>7. CASE enable
  <2>1. SameNames(d, adb_debug(d, enable), KeptNames)  BY <1>2, <1>4, <1>6, <1>7 DEF SameNames
  <2> QED  BY <1>1, <2>1 DEF SameNames, d
<1>8. CASE ~enable
  <2>1. SameNames(d, adb_debug(d, enable), KeptNames)  BY <1>3, <1>5, <1>6, <1>8 DEF SameNames
  <2> QED  BY <1>1, <2>1 DEF SameNames, d
<1> QED  BY <1>7, <1>8

LEMMA SameInit ==
    ASSUME NEW c, NEW d, NEW real, SameNames(c, d, KeptNames), InitKept(c, real)
    PROVE  InitKept(d, real)
  BY DEF SameNames, KeptNames, InitKept

(* What moves, when KernelSU is added, and when it is taken away.           *)
LEMMA MoveFacts ==
    ASSUME NEW cpio, NEW from, NEW to, from # to
    PROVE  LET d == mv(cpio, from, to) IN
           IF from \in DOMAIN cpio
           THEN /\ DOMAIN d = (DOMAIN cpio \ {from}) \cup {to}
                /\ d[to] = cpio[from]
                /\ \A x \in DOMAIN cpio \ {from, to} : d[x] = cpio[x]
           ELSE d = cpio
<1> DEFINE r == rm(cpio, from)
<1>1. DOMAIN r = DOMAIN cpio \ {from} /\ \A x \in DOMAIN cpio : x # from => r[x] = cpio[x]  BY RmFacts
<1>2. mv(cpio, from, to) = IF from \in DOMAIN cpio THEN add(r, to, cpio[from]) ELSE cpio  BY DEF mv
<1> HIDE DEF r
<1> DEFINE a == add(r, to, cpio[from])
<1>3. Added(r, to, cpio[from], a)  BY AddFacts
<1> HIDE DEF a
<1>4. mv(cpio, from, to) = IF from \in DOMAIN cpio THEN a ELSE cpio  BY <1>2 DEF a
<1> QED  BY <1>1, <1>3, <1>4 DEF Added

LEMMA InstallFacts ==
    ASSUME NEW cpio, NEW real, NEW ko, InitKept(cpio, real), real # "ksuinit"
    PROVE  LET d == AddKernelSU(cpio, ko) IN
           /\ InitKept(d, real)
           /\ "kernelsu.ko" \in DOMAIN d /\ d["kernelsu.ko"] = ko
           /\ SameNames(cpio, d, {"stock_image.sha1"})
<1> DEFINE kept == IF "kernelsu.ko" \in DOMAIN cpio THEN cpio ELSE mv(cpio, "init", "init.real")
           e == add(kept, "init", "ksuinit")
           d == add(e, "kernelsu.ko", ko)
<1>1. AddKernelSU(cpio, ko) = d  BY DEF AddKernelSU
<1>2. /\ "init.real" \in DOMAIN kept <=> real # ""
      /\ real # "" => kept["init.real"] = real
      /\ SameNames(cpio, kept, {"stock_image.sha1"})
  <2>1. CASE "kernelsu.ko" \in DOMAIN cpio  BY <2>1 DEF InitKept, SameNames
  <2>2. CASE "kernelsu.ko" \notin DOMAIN cpio
    <3> DEFINE m == mv(cpio, "init", "init.real")
    <3>1. IF "init" \in DOMAIN cpio
          THEN /\ DOMAIN m = (DOMAIN cpio \ {"init"}) \cup {"init.real"}
               /\ m["init.real"] = cpio["init"]
               /\ \A x \in DOMAIN cpio \ {"init", "init.real"} : m[x] = cpio[x]
          ELSE m = cpio
      BY MoveFacts
    <3>2. kept = m  BY <2>2
    <3> HIDE DEF m, kept
    <3> QED  BY <2>2, <3>1, <3>2 DEF InitKept, SameNames
  <2> QED  BY <2>1, <2>2
<1> HIDE DEF kept
<1>3. Added(kept, "init", "ksuinit", e)  BY AddFacts
<1> HIDE DEF e
<1>4. Added(e, "kernelsu.ko", ko, d)  BY AddFacts
<1> HIDE DEF d
<1>5. InitKept(d, real)  BY <1>2, <1>3, <1>4 DEF Added, InitKept
<1>6. SameNames(cpio, d, {"stock_image.sha1"})  BY <1>2, <1>3, <1>4 DEF Added, SameNames
<1> QED  BY <1>1, <1>4, <1>5, <1>6 DEF Added

Rebuilt(c, real, d) ==
    /\ "kernelsu.ko" \notin DOMAIN d
    /\ SameNames(c, d, {"stock_image.sha1"})
    /\ real # "" => InitKept(d, real)

LEMMA RebuildFacts ==
    ASSUME NEW cpio, NEW real, InitKept(cpio, real), "kernelsu.ko" \in DOMAIN cpio
    PROVE  Rebuilt(cpio, real, mv(rm(cpio, "kernelsu.ko"), "init.real", "init"))
<1> DEFINE r == rm(cpio, "kernelsu.ko")
<1>1. /\ DOMAIN r = DOMAIN cpio \ {"kernelsu.ko"}
      /\ \A x \in DOMAIN cpio : x # "kernelsu.ko" => r[x] = cpio[x]
  BY RmFacts
<1> HIDE DEF r
<1> DEFINE d == mv(r, "init.real", "init")
<1>2. IF "init.real" \in DOMAIN r
      THEN /\ DOMAIN d = (DOMAIN r \ {"init.real"}) \cup {"init"}
           /\ d["init"] = r["init.real"]
           /\ \A x \in DOMAIN r \ {"init.real", "init"} : d[x] = r[x]
      ELSE d = r
  BY MoveFacts
<1> HIDE DEF d
<1>3. "kernelsu.ko" \notin DOMAIN d /\ SameNames(cpio, d, {"stock_image.sha1"})
  BY <1>1, <1>2 DEF SameNames
<1>4. real # "" => InitKept(d, real)  BY <1>1, <1>2 DEF InitKept
<1> QED  BY <1>3, <1>4 DEF d, r, Rebuilt

-----------------------------------------------------------------------------
(* Images: what patch and restore make of a sound one is sound.             *)

LEMMA NewImageSound ==
    ASSUME NEW args, NEW k, NEW source, NEW name, NEW real, NEW kmi, NEW known, NEW lost \in BOOLEAN,
           Sound(source, name, real, kmi, known, lost), real # "ksuinit",
           ~lost \/ name = "boot" => k = kmi
    PROVE  Sound(NewImage(args, k, source), name, real, kmi, known, lost)
<1> DEFINE c == IF args.no_install THEN source.cpio ELSE AddKernelSU(source.cpio, k)
           d == adb_debug(ksu_config(c, args.config), args.adb)
           core == IF args.kpimg THEN [source.kernel EXCEPT !.by = "kptools"]
                   ELSE IF args.kernel THEN [kmi |-> k, by |-> "user"] ELSE source.kernel
           image == NewImage(args, k, source)
<1>1. image = [kernel |-> core, cpio |-> d]  BY DEF NewImage
<1>2. /\ InitKept(c, real) /\ SameNames(source.cpio, c, {"stock_image.sha1"})
      /\ "kernelsu.ko" \in DOMAIN c /\ ~lost => c["kernelsu.ko"] = kmi
  <2>1. CASE args.no_install  BY <2>1 DEF Sound, Patched, SameNames
  <2>2. CASE ~args.no_install
    <3>1. InitKept(source.cpio, real)  BY DEF Sound
    <3>2. LET a == AddKernelSU(source.cpio, k) IN
          /\ InitKept(a, real)
          /\ "kernelsu.ko" \in DOMAIN a /\ a["kernelsu.ko"] = k
          /\ SameNames(source.cpio, a, {"stock_image.sha1"})
      BY <3>1, InstallFacts
    <3> QED  BY <2>2, <3>2
  <2> QED  BY <2>1, <2>2
<1> HIDE DEF c
<1>3. SameNames(c, d, KeptNames)  BY ConfigFacts
<1> HIDE DEF d
<1>4. InitKept(d, real)  BY <1>2, <1>3, SameInit
<1>5. core = [kmi |-> core.kmi, by |-> core.by] /\ (name = "boot" => core.kmi = kmi)
  <2>1. source.kernel = [kmi |-> source.kernel.kmi, by |-> source.kernel.by]  BY DEF Sound, IsImage
  <2>2. (name = "boot" => source.kernel.kmi = kmi) /\ (name = "boot" => k = kmi)  BY DEF Sound
  <2> DEFINE old == source.kernel
             by == [old EXCEPT !.by = "kptools"]
  <2> HIDE DEF old
  <2>3. by = [kmi |-> old.kmi, by |-> "kptools"]  BY <2>1 DEF old
  <2>4. CASE args.kpimg
    <3>1. core = by  BY <2>4 DEF old
    <3> HIDE DEF core, by
    <3>2. core = [kmi |-> old.kmi, by |-> "kptools"]  BY <2>3, <3>1
    <3> QED  BY <2>2, <3>2 DEF old
  <2>5. CASE ~args.kpimg /\ args.kernel
    <3>1. core = [kmi |-> k, by |-> "user"]  BY <2>5
    <3> QED  BY <2>2, <3>1
  <2>6. CASE ~args.kpimg /\ ~args.kernel
    <3>1. core = old  BY <2>6 DEF old
    <3> QED  BY <2>1, <2>2, <3>1 DEF old
  <2> QED  BY <2>4, <2>5, <2>6
<1> HIDE DEF core
<1>6. image.kernel = core /\ image.cpio = d  BY <1>1
<1>7. IsImage(image)  BY <1>1, <1>5, <1>6 DEF IsImage
<1>8. "stock_image.sha1" \in DOMAIN d => d["stock_image.sha1"] \in known
  BY <1>2, <1>3 DEF SameNames, KeptNames, Sound
<1>9. "kernelsu.ko" \in DOMAIN d /\ ~lost => d["kernelsu.ko"] = kmi
  BY <1>2, <1>3 DEF SameNames, KeptNames
<1> HIDE DEF image
<1> QED  BY <1>4, <1>5, <1>6, <1>7, <1>8, <1>9 DEF Sound, Patched, image

LEMMA RebuildShape ==
    ASSUME NEW image, IsImage(image)
    PROVE  rebuild_without_ksu(image) =
           [kernel |-> image.kernel, cpio |-> mv(rm(image.cpio, "kernelsu.ko"), "init.real", "init")]
<1> DEFINE back == rebuild_without_ksu(image)
           d == mv(rm(image.cpio, "kernelsu.ko"), "init.real", "init")
<1>1. image = [kernel |-> image.kernel, cpio |-> image.cpio]  BY DEF IsImage
<1>2. back = [image EXCEPT !.cpio = d]  BY DEF rebuild_without_ksu
<1> HIDE DEF d
<1>3. [image EXCEPT !.cpio = d] = [kernel |-> image.kernel, cpio |-> d]  BY <1>1
<1> QED  BY <1>2, <1>3 DEF d

LEMMA RebuildSound ==
    ASSUME NEW source, NEW name, NEW real, NEW kmi, NEW known, NEW lost \in BOOLEAN,
           Sound(source, name, real, kmi, known, lost), Patched(source), real # ""
    PROVE  Sound(rebuild_without_ksu(source), name, real, kmi, known, lost)
<1> DEFINE back == rebuild_without_ksu(source)
           d == mv(rm(source.cpio, "kernelsu.ko"), "init.real", "init")
<1>1. IsImage(source) /\ InitKept(source.cpio, real) /\ "kernelsu.ko" \in DOMAIN source.cpio
  BY DEF Sound, Patched
<1>2. back = [kernel |-> source.kernel, cpio |-> d]  BY <1>1, RebuildShape
<1>3. Rebuilt(source.cpio, real, d)
  BY <1>1, RebuildFacts
<1> HIDE DEF d, back
<1>4. back.kernel = source.kernel /\ back.cpio = d  BY <1>2
<1>5. IsImage(back)  BY <1>2, <1>4 DEF Sound, IsImage
<1>6. "stock_image.sha1" \in DOMAIN d => d["stock_image.sha1"] \in known  BY <1>3 DEF Rebuilt, SameNames, Sound
<1>7. Sound(back, name, real, kmi, known, lost)
  BY <1>3, <1>4, <1>5, <1>6 DEF Rebuilt, Sound, Patched
<1> QED  BY <1>7 DEF back

LEMMA StockSound ==
    ASSUME NEW source, NEW kept, NEW name, NEW real, NEW kmi, NEW known, NEW lost \in BOOLEAN,
           Sound(source, name, real, kmi, known, lost), Patched(source), real # "",
           \A p \in known : p # Torn => Sound(p, name, real, kmi, known, lost),
           Stock(source, kept) # Torn
    PROVE  Sound(Stock(source, kept), name, real, kmi, known, lost)
<1> DEFINE back == rebuild_without_ksu(source)
<1>1. Sound(back, name, real, kmi, known, lost)  BY RebuildSound
<1>2. \/ Stock(source, kept) = back
      \/ /\ "stock_image.sha1" \in DOMAIN source.cpio
         /\ Stock(source, kept) = source.cpio["stock_image.sha1"]
  BY DEF Stock
<1> QED  BY <1>1, <1>2 DEF Sound

(* A rebuilt image has no module; its init is there, if there was one.      *)
LEMMA RebuildRestores ==
    ASSUME NEW source, NEW name, NEW real, NEW kmi, NEW known, NEW lost \in BOOLEAN,
           Sound(source, name, real, kmi, known, lost), Patched(source), real # "ksuinit"
    PROVE  /\ ~Patched(rebuild_without_ksu(source))
           /\ real # "" => RealInit(rebuild_without_ksu(source)) = real
<1> DEFINE back == rebuild_without_ksu(source)
           d == mv(rm(source.cpio, "kernelsu.ko"), "init.real", "init")
<1>1. IsImage(source) /\ InitKept(source.cpio, real) /\ "kernelsu.ko" \in DOMAIN source.cpio
  BY DEF Sound, Patched
<1>2. back = [kernel |-> source.kernel, cpio |-> d]  BY <1>1, RebuildShape
<1>3. Rebuilt(source.cpio, real, d)
  BY <1>1, RebuildFacts
<1> HIDE DEF d, back
<1>4. back.cpio = d  BY <1>2
<1>5. ~Patched(back) /\ (real # "" => RealInit(back) = real)  BY <1>3, <1>4 DEF Rebuilt, Patched, RealInit, InitKept
<1> QED  BY <1>5 DEF back

LEMMA SoundInit ==
    ASSUME NEW image, NEW name, NEW real, NEW kmi, NEW known, NEW lost \in BOOLEAN,
           Sound(image, name, real, kmi, known, lost), real # "ksuinit"
    PROVE  RealInit(image) = real
  BY DEF Sound, InitKept, RealInit

LEMMA SoundWeaker ==
    ASSUME NEW image, NEW name, NEW real, NEW kmi, NEW known, NEW lost, NEW more, NEW later,
           Sound(image, name, real, kmi, known, lost), known \subseteq more, lost => later
    PROVE  Sound(image, name, real, kmi, more, later)
  BY DEF Sound

(* The name of the backup is added to what was computed before.             *)
LEMMA NamedSound ==
    ASSUME NEW image, NEW sha, NEW name, NEW real, NEW kmi, NEW known, NEW lost \in BOOLEAN,
           Sound(image, name, real, kmi, known, lost), sha \in known
    PROVE  Sound([image EXCEPT !.cpio = add(@, "stock_image.sha1", sha)], name, real, kmi, known, lost)
<1> DEFINE d == add(image.cpio, "stock_image.sha1", sha)
           named == [image EXCEPT !.cpio = add(@, "stock_image.sha1", sha)]
<1>1. image = [kernel |-> image.kernel, cpio |-> image.cpio]  BY DEF Sound, IsImage
<1>2. named = [kernel |-> image.kernel, cpio |-> d]  BY <1>1
<1>3. Added(image.cpio, "stock_image.sha1", sha, d)  BY AddFacts
<1> HIDE DEF d, named
<1>4. named.kernel = image.kernel /\ named.cpio = d  BY <1>2
<1>5. IsImage(named)  BY <1>2, <1>4 DEF Sound, IsImage
<1>6. InitKept(d, real)  BY <1>3 DEF Added, InitKept, Sound
<1>7. Sound(named, name, real, kmi, known, lost)
  BY <1>3, <1>4, <1>5, <1>6 DEF Added, Sound, Patched
<1> QED  BY <1>7 DEF named

-----------------------------------------------------------------------------
(* What the firmware gives, and what stays.                                 *)

LEMMA FirmwareFacts ==
    ASSUME NEW fw \in [Slots -> Firmwares], NEW names, \A s \in Slots : DOMAIN fw[s].partitions = names,
           NEW s \in Slots
    PROVE  /\ "boot" \in names /\ RamdiskName(names) \in names
           /\ "init_boot" \in names => KmiOf(fw, s) \notin Android12
           /\ Shipped(fw, s, RamdiskName(names)) # ""
           /\ \A n \in names : Shipped(fw, s, n) # "ksuinit"
<1>1. fw[s] \in Firmwares /\ DOMAIN fw[s].partitions = names  OBVIOUS
<1> DEFINE f == fw[s]
<1>2. /\ "boot" \in names
      /\ "init_boot" \in names => f.partitions["boot"].kernel.kmi \notin Android12
      /\ "init" \in DOMAIN f.partitions[RamdiskName(names)].cpio
      /\ \A n \in names : "init" \in DOMAIN f.partitions[n].cpio => f.partitions[n].cpio["init"] \notin {"", "ksuinit"}
  BY <1>1, FirmwaresAssumption
<1>3. RamdiskName(names) \in names  BY <1>2 DEF RamdiskName
<1>4. \A n \in names : RealInit(f.partitions[n]) =
          IF "init" \in DOMAIN f.partitions[n].cpio THEN f.partitions[n].cpio["init"] ELSE ""
  BY <1>2 DEF RealInit
<1> QED  BY <1>2, <1>3, <1>4 DEF KmiOf, Shipped

LEMMA FirmwareSound ==
    ASSUME NEW f \in Firmwares, NEW n \in DOMAIN f.partitions, NEW known, NEW lost \in BOOLEAN
    PROVE  Sound(f.partitions[n], n, RealInit(f.partitions[n]), f.partitions["boot"].kernel.kmi, known, lost)
<1> DEFINE i == f.partitions[n]
<1>1. /\ IsImage(i)
      /\ {"kernelsu.ko", "init.real", "stock_image.sha1"} \cap DOMAIN i.cpio = {}
      /\ "init" \in DOMAIN i.cpio => i.cpio["init"] \notin {"", "ksuinit"}
  BY FirmwaresAssumption
<1>2. n = "boot" => i.kernel.kmi = f.partitions["boot"].kernel.kmi  OBVIOUS
<1> HIDE DEF i
<1>3. "kernelsu.ko" \notin DOMAIN i.cpio /\ "init.real" \notin DOMAIN i.cpio /\ "stock_image.sha1" \notin DOMAIN i.cpio
  BY <1>1
<1>4. InitKept(i.cpio, RealInit(i))  BY <1>1, <1>3 DEF InitKept, RealInit
<1>5. Sound(i, n, RealInit(i), f.partitions["boot"].kernel.kmi, known, lost)
  BY <1>1, <1>2, <1>3, <1>4 DEF Sound, Patched
<1> QED  BY <1>5 DEF i

LEMMA NamesFacts ==
    ASSUME NEW fw, NEW names, BootTypes(fw, names)
    PROVE  PartitionNames = names
  BY DEF BootTypes, IsTable, PartitionNames

LEMMA Carried ==
    ASSUME NEW fw, NEW i, NEW s, NEW n, SoundAt(fw, i, s, n),
           pristine[s][n] \subseteq pristine'[s][n], Lost(s) => Lost(s)'
    PROVE  SoundAt(fw, i, s, n)'
  BY DEF SoundAt, Sound

LEMMA PartitionsKept ==
    ASSUME NEW fw, NEW names, PartitionsInv(fw, names), UNCHANGED <<device, pristine>>,
           \A s \in Slots : Lost(s) => Lost(s)'
    PROVE  PartitionsInv(fw, names)'
  BY DEF PartitionsInv, SoundAt, Sound

LEMMA OutputKept ==
    ASSUME NEW fw, NEW names, OutputInv(fw, names), UNCHANGED output,
           \A s \in Slots : Lost(s) => Lost(s)',
           \A s \in Slots, n \in names : pristine[s][n] \subseteq pristine'[s][n]
    PROVE  OutputInv(fw, names)'
  BY DEF OutputInv, SoundAt, Sound

LEMMA CommandKept ==
    ASSUME NEW fw, NEW names, CommandInv(fw, names), command # Idle,
           command' = [f \in CommandFields |-> command'[f]],
           \A f \in CommandFields \ {"pc"} : command'[f] = command[f],
           \A s \in Slots : Lost(s) => Lost(s)',
           \A s \in Slots, n \in names : pristine[s][n] \subseteq pristine'[s][n]
    PROVE  CommandInv(fw, names)'
<1>1. /\ command'.op = command.op /\ command'.at = command.at /\ command'.name = command.name
      /\ command'.source = command.source /\ command'.new = command.new
  BY DEF CommandFields
<1> QED  BY <1>1 DEF CommandInv, SoundAt, Sound

(* A command that has started, or goes on, with one more fact about new.    *)
LEMMA CommandMade ==
    ASSUME NEW fw, NEW names, NEW at \in Slots, NEW name \in names, NEW source, NEW new,
           command' = [f \in CommandFields |-> command'[f]], command'.op \in {"patch", "restore"},
           command'.at = at, command'.name = name, command'.source = source, command'.new = new,
           command'.op = "patch" => source # Torn /\ SoundAt(fw, source, at, name),
           command'.op = "patch" \/ new # Torn => SoundAt(fw, new, at, name),
           \A s \in Slots : Lost(s) => Lost(s)',
           \A s \in Slots, n \in names : pristine[s][n] \subseteq pristine'[s][n]
    PROVE  CommandInv(fw, names)'
<1>1. \A i : SoundAt(fw, i, at, name) => SoundAt(fw, i, at, name)'  BY DEF SoundAt, Sound
<1> QED  BY <1>1 DEF CommandInv, SoundAt

-----------------------------------------------------------------------------
(* Each step.                                                               *)

LEMMA PcSet ==
    ASSUME NEW c, c = [f \in CommandFields |-> c[f]], NEW stage
    PROVE  LET d == [c EXCEPT !.pc = stage] IN
           d = [f \in CommandFields |-> d[f]] /\ \A f \in CommandFields \ {"pc"} : d[f] = c[f]
  BY DEF CommandFields

(* patch: the KMI is that of the slot, unless the slot is lost.             *)
LEMMA PatchStep ==
    ASSUME NEW fw \in [Slots -> Firmwares], NEW names, BootStep(fw, names), patch
    PROVE  BootStep(fw, names)'
<1> USE DEF BootStep
<1>1. /\ UNCHANGED <<device, pristine, output, slot, active, uname, booted>> /\ command = Idle
  BY DEF patch, System
<1>2. PICK args \in PatchArgs :
        LET kmi == Kmi(args)
            name == choose_boot_partition(kmi, args.kernel, args.partition)
            at == get_slot_suffix(args.ota)
            source == device[at][name]
            backup == ~args.no_install /\ (args.backup \/ (~Patched(source) /\ args.flash))
        IN  /\ name \in PartitionNames
            /\ source # Torn
            /\ command' = [op |-> "patch", args |-> args, at |-> at, name |-> name, source |-> source,
                           new |-> NewImage(args, kmi, source),
                           pc |-> IF backup THEN "backup" ELSE IF args.flash THEN "flash" ELSE "output"]
  BY DEF patch
<1> DEFINE kmi == Kmi(args)
           name == choose_boot_partition(kmi, args.kernel, args.partition)
           at == get_slot_suffix(args.ota)
           source == device[at][name]
           backup == ~args.no_install /\ (args.backup \/ (~Patched(source) /\ args.flash))
           next == IF backup THEN "backup" ELSE IF args.flash THEN "flash" ELSE "output"
           new == NewImage(args, kmi, source)
<1>3. /\ name \in PartitionNames /\ source # Torn
      /\ command' = [op |-> "patch", args |-> args, at |-> at, name |-> name, source |-> source, new |-> new, pc |-> next]
  BY <1>2
<1>4. at \in Slots /\ (at = slot <=> ~args.ota)
  BY DEF get_slot_suffix, Slots, Other, BootTypes
<1>5. kmi = IF args.ota THEN device[at]["boot"].kernel.kmi ELSE uname  BY DEF Kmi, get_slot_suffix
<1>6. name \in names  BY <1>3, NamesFacts
<1> HIDE DEF kmi, name, at, next
<1>7. /\ command'.op = "patch" /\ command'.at = at /\ command'.name = name /\ command'.source = source
      /\ command'.new = new /\ command' = [f \in CommandFields |-> command'[f]] /\ command' # Idle
  BY <1>3 DEF CommandFields, Idle
<1>8. \A s \in Slots : Lost(s) <=> Lost(s)'
  BY <1>1, <1>3, <1>7 DEF Lost
<1>9. ~Lost(at) \/ name = "boot" => kmi = KmiOf(fw, at)
  <2>1. CASE ~args.ota  BY <1>4, <1>5, <2>1 DEF BootTypes
  <2>2. CASE args.ota
    <3>1. device[at]["boot"] # Torn => kmi = KmiOf(fw, at)
      <4>1. "boot" \in names  BY <1>4, FirmwareFacts DEF BootTypes
      <4> QED  BY <1>4, <1>5, <2>2, <4>1 DEF PartitionsInv, SoundAt, Sound
    <3>2. ~Lost(at) \/ name = "boot" => device[at]["boot"] # Torn
      BY <1>1, <1>3, <1>4, <2>2 DEF Lost
    <3> QED  BY <3>1, <3>2
  <2> QED  BY <2>1, <2>2
<1>10. SoundAt(fw, source, at, name)  BY <1>3, <1>4, <1>6 DEF PartitionsInv
<1>11. SoundAt(fw, new, at, name)
  <2>1. Shipped(fw, at, name) # "ksuinit"  BY <1>4, <1>6, FirmwareFacts DEF BootTypes
  <2>2. Lost(at) \in BOOLEAN  BY DEF Lost
  <2> HIDE DEF source
  <2> QED  BY <1>9, <1>10, <2>1, <2>2, NewImageSound DEF SoundAt
<1> HIDE DEF source, new
<1> QED
  <2>1. PartitionsInv(fw, names)'  BY <1>1, <1>8, PartitionsKept
  <2>2. OutputInv(fw, names)'  BY <1>1, <1>8, OutputKept
  <2>3. CommandInv(fw, names)'
    <3>1. \A s \in Slots, n \in names : pristine[s][n] \subseteq pristine'[s][n]  BY <1>1
    <3> QED  BY <1>3, <1>4, <1>6, <1>7, <1>8, <1>10, <1>11, <3>1, CommandMade
  <2> QED  BY <1>1, <2>1, <2>2, <2>3 DEF BootTypes, BootedInv

LEMMA BackupStep ==
    ASSUME NEW fw \in [Slots -> Firmwares], NEW names, BootStep(fw, names), find_backup_location
    PROVE  BootStep(fw, names)'
<1> USE DEF BootStep
<1>1. /\ UNCHANGED <<device, pristine, output, slot, active, uname, booted>> /\ command.op = "patch"
      /\ command' = [command EXCEPT !.pc = "copy"]
  BY DEF find_backup_location, System
<1>2. command # Idle  BY <1>1 DEF Idle
<1>3. command = [f \in CommandFields |-> command[f]]  BY <1>2 DEF CommandInv
<1>4. command' = [f \in CommandFields |-> command'[f]] /\ \A f \in CommandFields \ {"pc"} : command'[f] = command[f]
  BY <1>1, <1>3, PcSet
<1>5. \A s \in Slots : Lost(s) => Lost(s)'  BY <1>1, <1>2, <1>4 DEF Lost, CommandFields
<1>6. \A s \in Slots, n \in names : pristine[s][n] \subseteq pristine'[s][n]  BY <1>1
<1> QED
  <2>1. PartitionsInv(fw, names)'  BY <1>1, <1>5, PartitionsKept
  <2>2. OutputInv(fw, names)'  BY <1>1, <1>5, <1>6, OutputKept
  <2>3. CommandInv(fw, names)'  BY <1>2, <1>4, <1>5, <1>6, CommandKept
  <2> QED  BY <1>1, <2>1, <2>2, <2>3 DEF BootTypes, BootedInv

Written(names, t, at, name, v, u) ==
    /\ IsTable(names, u)
    /\ \A s \in Slots, n \in names : u[s][n] = IF s = at /\ n = name THEN v ELSE t[s][n]

LEMMA TableSet ==
    ASSUME NEW names, NEW t, IsTable(names, t), NEW at \in Slots, NEW name \in names, NEW v
    PROVE  Written(names, t, at, name, v, [t EXCEPT ![at][name] = v])
<1> DEFINE u == [t EXCEPT ![at][name] = v]
<1>1. DOMAIN t = Slots /\ \A s \in Slots : t[s] = [n \in names |-> t[s][n]]  BY DEF IsTable
<1>2. DOMAIN u = Slots /\ \A s \in Slots : u[s] = IF s = at THEN [t[at] EXCEPT ![name] = v] ELSE t[s]
  BY <1>1
<1> HIDE DEF u
<1>3. \A s \in Slots, n \in names : u[s][n] = IF s = at /\ n = name THEN v ELSE t[s][n]
  BY <1>1, <1>2
<1>4. \A s \in Slots : u[s] = [n \in names |-> u[s][n]]  BY <1>1, <1>2
<1>5. u = [s \in Slots |-> u[s]]  BY <1>2 DEF u, IsTable
<1> QED  BY <1>3, <1>4, <1>5 DEF Written, IsTable, u

(* Only pristine, and not even that, of what the other parts speak of.      *)
LEMMA PristineGrows ==
    ASSUME NEW fw, NEW names, PartitionsInv(fw, names), BootTypes(fw, names),
           UNCHANGED <<device, slot, active, uname>>, NEW at \in Slots, NEW name \in names, NEW i,
           i # Torn => SoundAt(fw, i, at, name),
           pristine' = [pristine EXCEPT ![at][name] = @ \cup {i}],
           \A s \in Slots : Lost(s) => Lost(s)'
    PROVE  /\ BootTypes(fw, names)' /\ PartitionsInv(fw, names)'
           /\ \A s \in Slots, n \in names : pristine[s][n] \subseteq pristine'[s][n]
           /\ i \in pristine'[at][name]
<1>1. Written(names, pristine, at, name, pristine[at][name] \cup {i}, pristine')  BY TableSet DEF BootTypes
<1>2. \A s \in Slots, n \in names :
        pristine'[s][n] = IF s = at /\ n = name THEN pristine[s][n] \cup {i} ELSE pristine[s][n]
  BY <1>1 DEF Written
<1>3. \A s \in Slots, n \in names : pristine[s][n] \subseteq pristine'[s][n]  BY <1>2
<1>4. \A s \in Slots, n \in names : \A j : SoundAt(fw, j, s, n) => SoundAt(fw, j, s, n)'
  BY <1>3 DEF SoundAt, Sound
<1>5. BootTypes(fw, names)'  BY <1>1 DEF BootTypes, IsTable, Written
<1>6. PartitionsInv(fw, names)'
  <2> SUFFICES ASSUME NEW s \in Slots, NEW n \in names
               PROVE  /\ (device[s][n] # Torn => SoundAt(fw, device[s][n], s, n))'
                      /\ \A p \in pristine'[s][n] : p # Torn => SoundAt(fw, p, s, n)'
    BY DEF PartitionsInv, Torn, NoKernel
  <2>1. (device[s][n] # Torn => SoundAt(fw, device[s][n], s, n))'
    <3>1. \A j : SoundAt(fw, j, s, n) => Sound(j, n, Shipped(fw, s, n), KmiOf(fw, s), pristine'[s][n], Lost(s)')
      BY <1>4 DEF SoundAt
    <3> QED  BY <3>1 DEF PartitionsInv, SoundAt, Torn, NoKernel
  <2>2. \A p \in pristine'[s][n] : p # Torn => SoundAt(fw, p, s, n)'  BY <1>2, <1>4 DEF PartitionsInv
  <2> QED  BY <2>1, <2>2
<1> QED  BY <1>2, <1>3, <1>5, <1>6

LEMMA CommandNamed ==
    ASSUME NEW fw, NEW names, NEW at \in Slots, NEW name \in names, NEW source, NEW new,
           command' = [f \in CommandFields |-> command'[f]], command'.op = "patch",
           command'.at = at, command'.name = name, command'.source = source, command'.new = new,
           source # Torn, SoundAt(fw, source, at, name)', SoundAt(fw, new, at, name)'
    PROVE  CommandInv(fw, names)'
  BY DEF CommandInv, SoundAt, Torn, NoKernel

(* do_backup: what is named from now on may be restored.                    *)
LEMMA CopyStep ==
    ASSUME NEW fw \in [Slots -> Firmwares], NEW names, BootStep(fw, names), do_backup
    PROVE  BootStep(fw, names)'
<1> USE DEF BootStep
<1>1. UNCHANGED <<device, output, slot, active, uname, booted>> /\ command.op = "patch"
  BY DEF do_backup, System
<1>2. command # Idle  BY <1>1 DEF Idle
<1>3. /\ command = [f \in CommandFields |-> command[f]] /\ command.at \in Slots /\ command.name \in names
      /\ command.source # Torn /\ SoundAt(fw, command.source, command.at, command.name)
      /\ SoundAt(fw, command.new, command.at, command.name)
  BY <1>1, <1>2 DEF CommandInv
<1>4a. PICK at \in Slots : command.at = at  BY <1>3
<1>4b. PICK name \in names : command.name = name  BY <1>3
<1>4c. PICK source : command.source = source  OBVIOUS
<1>4d. PICK new : command.new = new  OBVIOUS
<1>4. command.at = at /\ command.name = name /\ command.source = source /\ command.new = new
  BY <1>4a, <1>4b, <1>4c, <1>4d
<1>5. CASE /\ command' = AfterBackup([command EXCEPT !.new.cpio = add(@, "stock_image.sha1", command.source)])
           /\ pristine' = [pristine EXCEPT ![command.at][command.name] = @ \cup {command.source}]
  <2> DEFINE named == [new EXCEPT !.cpio = add(@, "stock_image.sha1", source)]
             c == [command EXCEPT !.new = named]
             stage == IF c.args.flash THEN "flash" ELSE "output"
  <2>1. command' = [c EXCEPT !.pc = stage]  BY <1>4, <1>5 DEF AfterBackup
  <2> HIDE DEF stage, named
  <2>2. /\ command' = [f \in CommandFields |-> command'[f]]
        /\ command'.op = "patch" /\ command'.at = at /\ command'.name = name /\ command'.source = source
        /\ command'.new = named /\ command' # Idle
    BY <1>1, <1>3, <1>4, <2>1 DEF CommandFields, Idle
  <2>3. \A s \in Slots : Lost(s) => Lost(s)'  BY <1>1, <1>2, <1>4, <2>2 DEF Lost
  <2>4. /\ BootTypes(fw, names)' /\ PartitionsInv(fw, names)'
        /\ \A s \in Slots, n \in names : pristine[s][n] \subseteq pristine'[s][n]
        /\ source \in pristine'[at][name]
    BY <1>1, <1>3, <1>4, <1>5, <2>3, PristineGrows
  <2>5. SoundAt(fw, source, at, name)' /\ SoundAt(fw, new, at, name)'
    BY <1>3, <1>4, <2>3, <2>4, Carried
  <2>6. SoundAt(fw, named, at, name)'
    <3>1. Lost(at)' \in BOOLEAN  BY DEF Lost
    <3> QED  BY <2>4, <2>5, <3>1, NamedSound DEF named, SoundAt
  <2>7. CommandInv(fw, names)'
    BY <1>3, <1>4, <2>2, <2>5, <2>6, CommandNamed
  <2>8. OutputInv(fw, names)'  BY <1>1, <2>3, <2>4, OutputKept
  <2> QED  BY <1>1, <2>4, <2>7, <2>8 DEF BootTypes, BootedInv
<1>6. CASE command' = AfterBackup(command) /\ pristine' = pristine
  <2>1. /\ command' = [f \in CommandFields |-> command'[f]]
        /\ \A f \in CommandFields \ {"pc"} : command'[f] = command[f]
    BY <1>3, <1>6, PcSet DEF AfterBackup
  <2>2. \A s \in Slots : Lost(s) => Lost(s)'  BY <1>1, <1>2, <2>1 DEF Lost, CommandFields
  <2>3. \A s \in Slots, n \in names : pristine[s][n] \subseteq pristine'[s][n]  BY <1>6
  <2>4. PartitionsInv(fw, names)'  BY <1>1, <1>6, <2>2, PartitionsKept
  <2>5. OutputInv(fw, names)'  BY <1>1, <2>2, <2>3, OutputKept
  <2>6. CommandInv(fw, names)'  BY <1>2, <2>1, <2>2, <2>3, CommandKept
  <2> QED  BY <1>1, <1>6, <2>4, <2>5, <2>6 DEF BootTypes, BootedInv
<1> QED  BY <1>5, <1>6 DEF do_backup

LEMMA DeviceWritten ==
    ASSUME NEW fw, NEW names, PartitionsInv(fw, names), BootTypes(fw, names),
           UNCHANGED <<slot, active, uname>>, NEW at \in Slots, NEW name \in names, NEW i,
           device' = [device EXCEPT ![at][name] = i],
           pristine' = pristine \/ pristine' = [pristine EXCEPT ![at][name] = @ \cup {i}],
           i # Torn => SoundAt(fw, i, at, name),
           \A s \in Slots : Lost(s) => Lost(s)'
    PROVE  /\ BootTypes(fw, names)' /\ PartitionsInv(fw, names)'
           /\ \A s \in Slots, n \in names : pristine[s][n] \subseteq pristine'[s][n]
<1>a. IsTable(names, device) /\ IsTable(names, pristine)  BY DEF BootTypes
<1>b. Written(names, device, at, name, i, device')  BY <1>a, TableSet
<1>c. /\ IsTable(names, pristine')
      /\ \A s \in Slots, n \in names :
            \/ pristine'[s][n] = pristine[s][n]
            \/ s = at /\ n = name /\ pristine'[s][n] = pristine[s][n] \cup {i}
  <2>1. CASE pristine' = pristine  BY <1>a, <2>1
  <2>2. CASE pristine' = [pristine EXCEPT ![at][name] = @ \cup {i}]
    <3>1. Written(names, pristine, at, name, pristine[at][name] \cup {i}, pristine')  BY <1>a, <2>2, TableSet
    <3> QED  BY <3>1 DEF Written
  <2> QED  BY <2>1, <2>2
<1>1. \A s \in Slots, n \in names :
        /\ pristine'[s][n] \subseteq IF s = at /\ n = name THEN pristine[s][n] \cup {i} ELSE pristine[s][n]
        /\ pristine[s][n] \subseteq pristine'[s][n]
        /\ device'[s][n] = IF s = at /\ n = name THEN i ELSE device[s][n]
  BY <1>b, <1>c DEF Written
<1>2. IsTable(names, pristine') /\ IsTable(names, device')  BY <1>b, <1>c DEF Written
<1>3. \A s \in Slots, n \in names : \A j : SoundAt(fw, j, s, n) => SoundAt(fw, j, s, n)'
  BY <1>1 DEF SoundAt, Sound
<1>4. BootTypes(fw, names)'  BY <1>2 DEF BootTypes, IsTable
<1>5. PartitionsInv(fw, names)'
  <2> SUFFICES ASSUME NEW s \in Slots, NEW n \in names
               PROVE  /\ (device[s][n] # Torn => SoundAt(fw, device[s][n], s, n))'
                      /\ \A p \in pristine'[s][n] : p # Torn => SoundAt(fw, p, s, n)'
    BY DEF PartitionsInv, Torn, NoKernel
  <2>1. PICK j : device'[s][n] = j  OBVIOUS
  <2>2. j # Torn => SoundAt(fw, j, s, n)'  BY <1>1, <1>3, <2>1 DEF PartitionsInv
  <2>3. (device[s][n] # Torn => SoundAt(fw, device[s][n], s, n))'
    BY <2>1, <2>2 DEF SoundAt, Torn, NoKernel
  <2>4. \A p \in pristine'[s][n] : p # Torn => SoundAt(fw, p, s, n)'  BY <1>1, <1>3 DEF PartitionsInv
  <2> QED  BY <2>3, <2>4
<1> QED  BY <1>1, <1>4, <1>5

(* flash_partition: torn, and then new.                                     *)
LEMMA FlashStep ==
    ASSUME NEW fw \in [Slots -> Firmwares], NEW names, BootStep(fw, names), flash_partition
    PROVE  BootStep(fw, names)'
<1> USE DEF BootStep
<1>1. UNCHANGED <<output, slot, active, uname, booted>> /\ command.op \in {"patch", "restore"}
  BY DEF flash_partition, System
<1>2. command # Idle  BY <1>1 DEF Idle
<1>3. /\ command = [f \in CommandFields |-> command[f]] /\ command.at \in Slots /\ command.name \in names
      /\ command.new # Torn => SoundAt(fw, command.new, command.at, command.name)
  BY <1>1, <1>2 DEF CommandInv
<1>4a. PICK at \in Slots : command.at = at  BY <1>3
<1>4b. PICK name \in names : command.name = name  BY <1>3
<1>4c. PICK new : command.new = new  OBVIOUS
<1>4. command.at = at /\ command.name = name /\ command.new = new
  BY <1>4a, <1>4b, <1>4c
<1>5. PICK i : /\ device' = [device EXCEPT ![at][name] = i]
               /\ i = Torn \/ i = new
               /\ pristine' = pristine \/ pristine' = [pristine EXCEPT ![at][name] = @ \cup {i}]
  BY <1>4 DEF flash_partition
<1>6. command' = Idle \/ \E stage : command' = [command EXCEPT !.pc = stage]
  BY DEF flash_partition
<1>7. \/ command' = Idle
      \/ /\ command' = [f \in CommandFields |-> command'[f]]
         /\ \A f \in CommandFields \ {"pc"} : command'[f] = command[f]
  BY <1>3, <1>6, PcSet
<1>8. command' = Idle \/ (command'.at = at /\ command'.name = name)
  BY <1>4, <1>7 DEF CommandFields
<1>9. \A s \in Slots : Lost(s) => Lost(s)'
  <2> SUFFICES ASSUME NEW s \in Slots, Lost(s) PROVE Lost(s)'  OBVIOUS
  <2>1. s # at \/ name # "boot"  BY <1>2, <1>4 DEF Lost
  <2>2. "boot" \in names  BY FirmwareFacts DEF BootTypes
  <2>3. Written(names, device, at, name, i, device')  BY <1>5, TableSet DEF BootTypes
  <2>4. device'[s]["boot"] = device[s]["boot"]  BY <2>1, <2>2, <2>3 DEF Written
  <2> QED  BY <1>1, <1>8, <2>1, <2>4 DEF Lost, Torn, NoKernel, Idle
<1>10. i # Torn => SoundAt(fw, i, at, name)  BY <1>3, <1>4, <1>5
<1>11. /\ BootTypes(fw, names)' /\ PartitionsInv(fw, names)'
       /\ \A s \in Slots, n \in names : pristine[s][n] \subseteq pristine'[s][n]
  BY <1>1, <1>5, <1>9, <1>10, DeviceWritten
<1>12. OutputInv(fw, names)'  BY <1>1, <1>9, <1>11, OutputKept
<1>13. CommandInv(fw, names)'
  <2>1. CASE command' = Idle  BY <2>1 DEF CommandInv, Idle
  <2>2. CASE /\ command' = [f \in CommandFields |-> command'[f]]
             /\ \A f \in CommandFields \ {"pc"} : command'[f] = command[f]
    BY <1>2, <1>9, <1>11, <2>2, CommandKept
  <2> QED  BY <1>7, <2>1, <2>2
<1> QED  BY <1>1, <1>11, <1>12, <1>13 DEF BootedInv

(* Steps that write no partition: the command goes on, ends, or is killed.  *)
LEMMA QuietStep ==
    ASSUME NEW fw, NEW names, BootStep(fw, names),
           UNCHANGED <<device, pristine, output, slot, uname, booted>>, active' \in Slots,
           \/ command' \in {Idle, command}
           \/ command # Idle /\ \E stage : command' = [command EXCEPT !.pc = stage]
    PROVE  BootStep(fw, names)'
<1> USE DEF BootStep
<1>1. command' # Idle =>
        /\ command # Idle
        /\ command' = [f \in CommandFields |-> command'[f]]
        /\ \A f \in CommandFields \ {"pc"} : command'[f] = command[f]
  BY PcSet DEF CommandInv
<1>2. \A s \in Slots : Lost(s) => Lost(s)'  BY <1>1 DEF Lost, CommandFields, Torn, NoKernel, Idle
<1>3. \A s \in Slots, n \in names : pristine[s][n] \subseteq pristine'[s][n]  OBVIOUS
<1>4. PartitionsInv(fw, names)'  BY <1>2, PartitionsKept
<1>5. OutputInv(fw, names)'  BY <1>2, <1>3, OutputKept
<1>6. CommandInv(fw, names)'
  <2>1. CASE command' = Idle  BY <2>1 DEF CommandInv, Idle
  <2>2. CASE command' # Idle  BY <1>1, <1>2, <1>3, <2>2, CommandKept DEF CommandInv
  <2> QED  BY <2>1, <2>2
<1> QED  BY <1>4, <1>5, <1>6 DEF BootTypes, IsTable, BootedInv

LEMMA PostOtaStep ==
    ASSUME NEW fw, NEW names, BootStep(fw, names), post_ota
    PROVE  BootStep(fw, names)'
<1>1. UNCHANGED <<device, pristine, output, slot, uname, booted>> /\ command.op = "patch"  BY DEF post_ota
<1>2. active' \in Slots  BY DEF post_ota, Other, Slots, BootStep, BootTypes
<1>3. command' = Idle \/ \E stage : command' = [command EXCEPT !.pc = stage]  BY DEF post_ota
<1>4. command # Idle  BY <1>1 DEF Idle
<1> QED  BY <1>1, <1>2, <1>3, <1>4, QuietStep

LEMMA KillStep ==
    ASSUME NEW fw, NEW names, BootStep(fw, names), Kill
    PROVE  BootStep(fw, names)'
  BY QuietStep DEF Kill, System, BootStep, BootTypes

LEMMA InstallStep ==
    ASSUME NEW fw, NEW names, BootStep(fw, names), install
    PROVE  BootStep(fw, names)'
  BY QuietStep DEF install, System, BootStep, BootTypes

LEMMA WriteOutputStep ==
    ASSUME NEW fw, NEW names, BootStep(fw, names), WriteOutput
    PROVE  BootStep(fw, names)'
<1> USE DEF BootStep
<1>1. /\ UNCHANGED <<device, pristine, slot, active, uname, booted>> /\ command.op \in {"patch", "restore"}
      /\ output' = [at |-> command.at, name |-> command.name, image |-> command.new] /\ command' = Idle
  BY DEF WriteOutput, System
<1>2. command # Idle  BY <1>1 DEF Idle
<1>3. /\ command.at \in Slots /\ command.name \in names
      /\ command.new # Torn => SoundAt(fw, command.new, command.at, command.name)
  BY <1>1, <1>2 DEF CommandInv
<1>4a. PICK at \in Slots : command.at = at  BY <1>3
<1>4b. PICK name \in names : command.name = name  BY <1>3
<1>4c. PICK new : command.new = new  OBVIOUS
<1>5. \A s \in Slots : Lost(s) => Lost(s)'  BY <1>1 DEF Lost, Torn, NoKernel, Idle
<1>6. PartitionsInv(fw, names)'  BY <1>1, <1>5, PartitionsKept
<1>7. CommandInv(fw, names)'  BY <1>1 DEF CommandInv, Idle
<1>8. output' = [at |-> at, name |-> name, image |-> new]  BY <1>1, <1>4a, <1>4b, <1>4c
<1>9. new # Torn => SoundAt(fw, new, at, name)'  BY <1>1, <1>3, <1>4a, <1>4b, <1>4c, <1>5, Carried
<1>10. OutputInv(fw, names)'  BY <1>8, <1>9 DEF OutputInv, SoundAt, None, Torn, NoKernel
<1> QED  BY <1>1, <1>6, <1>7, <1>10 DEF BootTypes, IsTable, BootedInv

(* restore: always of the partition with the ramdisk, which has an init.    *)
LEMMA RestoreStep ==
    ASSUME NEW fw \in [Slots -> Firmwares], NEW names, BootStep(fw, names), command = Idle,
           NEW args, NEW kept, RestoreFrom(args, kept)
    PROVE  BootStep(fw, names)'
<1> USE DEF BootStep
<1> DEFINE name == choose_boot_partition(uname, FALSE, "")
           source == device[slot][name]
           new == Stock(source, kept)
           stage == IF args.flash THEN "flash" ELSE "output"
<1>1. /\ UNCHANGED <<device, pristine, output, slot, active, uname, booted>> /\ source # Torn
      /\ \/ command' = Idle
         \/ /\ Patched(source)
            /\ command' = [op |-> "restore", args |-> args, at |-> slot, name |-> name, source |-> source,
                           new |-> new, pc |-> stage]
  BY DEF RestoreFrom, System
<1>2. CASE command' = Idle  BY <1>1, <1>2, QuietStep DEF BootTypes
<1>3. CASE /\ Patched(source)
           /\ command' = [op |-> "restore", args |-> args, at |-> slot, name |-> name, source |-> source,
                          new |-> new, pc |-> stage]
  <2>1. PICK at \in Slots : slot = at  BY DEF BootTypes
  <2>2. \A s \in Slots : DOMAIN fw[s].partitions = names  BY DEF BootTypes
  <2>3. name = RamdiskName(names)
    <3>1. uname = KmiOf(fw, slot) /\ slot \in Slots  BY DEF BootTypes
    <3>2. "init_boot" \in names => uname \notin Android12  BY <2>2, <3>1, FirmwareFacts
    <3>3. PartitionNames = names  BY NamesFacts
    <3> QED  BY <3>2, <3>3 DEF choose_boot_partition, RamdiskName
  <2>4. RamdiskName(names) \in names /\ Shipped(fw, at, RamdiskName(names)) # ""  BY <2>2, FirmwareFacts
  <2>5. PICK n \in names : name = n /\ Shipped(fw, at, n) # ""  BY <2>3, <2>4
  <2>6. SoundAt(fw, source, at, n)  BY <1>1, <2>1, <2>5 DEF PartitionsInv
  <2>7. new # Torn => SoundAt(fw, new, at, n)
    <3> DEFINE real == Shipped(fw, at, n)
               known == pristine[at][n]
               lost == Lost(at)
    <3>1. Sound(source, n, real, KmiOf(fw, at), known, lost) /\ real # "" /\ lost \in BOOLEAN
      BY <2>5, <2>6 DEF SoundAt, Lost
    <3>2. \A p \in known : p # Torn => Sound(p, n, real, KmiOf(fw, at), known, lost)
      BY DEF PartitionsInv, SoundAt
    <3>3. new # Torn => Sound(new, n, real, KmiOf(fw, at), known, lost)
      <4> HIDE DEF source, real, known, lost
      <4> QED  BY <1>3, <3>1, <3>2, StockSound
    <3> QED  BY <3>3 DEF SoundAt
  <2> HIDE DEF name, source, new, stage
  <2>8. /\ command' = [f \in CommandFields |-> command'[f]] /\ command'.op = "restore"
        /\ command'.at = at /\ command'.name = n /\ command'.source = source /\ command'.new = new
    BY <1>3, <2>1, <2>5 DEF CommandFields
  <2>9. \A s \in Slots : Lost(s) => Lost(s)'
    BY <1>1, <2>1, <2>8 DEF Lost, Torn, NoKernel, Idle
  <2>10. \A s \in Slots, m \in names : pristine[s][m] \subseteq pristine'[s][m]  BY <1>1
  <2>11. CommandInv(fw, names)'  BY <2>7, <2>8, <2>9, <2>10, CommandMade
  <2>12. PartitionsInv(fw, names)'  BY <1>1, <2>9, PartitionsKept
  <2>13. OutputInv(fw, names)'  BY <1>1, <2>9, <2>10, OutputKept
  <2> QED  BY <1>1, <2>11, <2>12, <2>13 DEF BootTypes, IsTable, BootedInv
<1> QED  BY <1>1, <1>2, <1>3

(* An image that was made before is flashed by the user.                    *)
LEMMA UserFlashStep ==
    ASSUME NEW fw \in [Slots -> Firmwares], NEW names, BootStep(fw, names), UserFlash
    PROVE  BootStep(fw, names)'
<1> USE DEF BootStep
<1>1. /\ UNCHANGED <<pristine, command, slot, active, uname, booted>> /\ command = Idle
      /\ output.image \notin {None, Torn} /\ output.at = slot
      /\ device' = [device EXCEPT ![slot][output.name] = output.image]
      /\ output' = [output EXCEPT !.image = None]
  BY DEF UserFlash, System
<1>2. /\ slot \in Slots /\ output.name \in names /\ SoundAt(fw, output.image, slot, output.name)
      /\ output = [at |-> output.at, name |-> output.name, image |-> output.image]
  BY <1>1 DEF OutputInv
<1>3a. PICK at \in Slots : slot = at  BY <1>2
<1>3b. PICK name \in names : output.name = name  BY <1>2
<1>3c. PICK i : output.image = i  OBVIOUS
<1>4. device' = [device EXCEPT ![at][name] = i]  BY <1>1, <1>3a, <1>3b, <1>3c
<1>5. Written(names, device, at, name, i, device')  BY <1>4, TableSet DEF BootTypes
<1>6. "boot" \in names  BY <1>2, FirmwareFacts DEF BootTypes
<1>7. \A s \in Slots : Lost(s) => Lost(s)'
  BY <1>1, <1>3a, <1>5, <1>6 DEF Lost, Written, Torn, NoKernel, Idle
<1>8. /\ BootTypes(fw, names)' /\ PartitionsInv(fw, names)'
  BY <1>1, <1>2, <1>3a, <1>3b, <1>3c, <1>4, <1>7, DeviceWritten
<1>9. output' = [at |-> output.at, name |-> output.name, image |-> None]  BY <1>1, <1>2
<1>10. OutputInv(fw, names)'  BY <1>9 DEF OutputInv, None, Torn, NoKernel
<1>11. CommandInv(fw, names)'  BY <1>1 DEF CommandInv, Idle
<1> QED  BY <1>1, <1>8, <1>10, <1>11 DEF BootedInv

(* An update: the other slot has another firmware, and nothing of the old.  *)
LEMMA UpdateStep ==
    ASSUME NEW fw \in [Slots -> Firmwares], NEW names, BootStep(fw, names), SystemUpdate
    PROVE  \E next \in [Slots -> Firmwares] : BootStep(next, names)'
<1> USE DEF BootStep
<1>1. /\ UNCHANGED <<slot, command, uname, booted>> /\ command = Idle
      /\ active' = Other(slot) /\ output' = [output EXCEPT !.image = None]
  BY DEF SystemUpdate
<1>2. PICK o \in Slots : o = Other(slot)  BY DEF Other, Slots
<1>3. slot # o /\ slot \in Slots  BY <1>2 DEF Other, Slots, BootTypes
<1>4. PICK f \in Firmwares :
        /\ DOMAIN f.partitions = names
        /\ device' = [device EXCEPT ![o] = f.partitions]
        /\ pristine' = [pristine EXCEPT ![o] = [n \in names |-> {f.partitions[n]}]]
  BY <1>2, NamesFacts DEF SystemUpdate
<1>5. PICK next : next = [fw EXCEPT ![o] = f]  OBVIOUS
<1>6. next \in [Slots -> Firmwares] /\ next[o] = f /\ \A s \in Slots \ {o} : next[s] = fw[s]  BY <1>5
<1>7. f.partitions = [n \in names |-> f.partitions[n]] /\ "boot" \in names
  BY <1>4, FirmwaresAssumption
<1>8. \A s \in Slots, n \in names :
        /\ device'[s][n] = IF s = o THEN f.partitions[n] ELSE device[s][n]
        /\ pristine'[s][n] = IF s = o THEN {f.partitions[n]} ELSE pristine[s][n]
  BY <1>4, <1>7 DEF BootTypes, IsTable
<1>9. IsTable(names, device') /\ IsTable(names, pristine')
  <2> DEFINE first == [n \in names |-> {f.partitions[n]}]
  <2>1. /\ DOMAIN device = Slots /\ \A s \in Slots : device[s] = [n \in names |-> device[s][n]]
        /\ DOMAIN pristine = Slots /\ \A s \in Slots : pristine[s] = [n \in names |-> pristine[s][n]]
    BY DEF BootTypes, IsTable
  <2>2. device' = [s \in Slots |-> IF s = o THEN f.partitions ELSE device[s]]  BY <1>4, <2>1
  <2>3. pristine' = [s \in Slots |-> IF s = o THEN first ELSE pristine[s]]  BY <1>4, <2>1
  <2>4. first = [n \in names |-> first[n]]  OBVIOUS
  <2> HIDE DEF first
  <2> QED  BY <1>7, <2>1, <2>2, <2>3, <2>4 DEF IsTable
<1>10. \A s \in Slots \ {o} : Lost(s) => Lost(s)'  BY <1>1, <1>7, <1>8 DEF Lost
<1>11. \A s \in Slots \ {o}, n \in names : \A j : SoundAt(fw, j, s, n) => SoundAt(next, j, s, n)'
  BY <1>6, <1>8, <1>10 DEF SoundAt, Sound, Shipped, KmiOf
<1>12. BootTypes(next, names)'
  <2>1. active' \in Slots  BY <1>1, <1>2
  <2>2. \A s \in Slots : DOMAIN next[s].partitions = names  BY <1>4, <1>6 DEF BootTypes
  <2>3. uname = KmiOf(next, slot)  BY <1>3, <1>6 DEF BootTypes, KmiOf
  <2> QED  BY <1>1, <1>3, <1>9, <2>1, <2>2, <2>3 DEF BootTypes, KmiOf
<1>13. PartitionsInv(next, names)'
  <2> SUFFICES ASSUME NEW s \in Slots, NEW n \in names
               PROVE  /\ (device[s][n] # Torn => SoundAt(next, device[s][n], s, n))'
                      /\ \A p \in pristine'[s][n] : p # Torn => SoundAt(next, p, s, n)'
    BY DEF PartitionsInv, Torn, NoKernel
  <2>1. PICK j : device'[s][n] = j  OBVIOUS
  <2>2. CASE s = o
    <3>1. \A lost \in BOOLEAN :
            Sound(f.partitions[n], n, RealInit(f.partitions[n]), f.partitions["boot"].kernel.kmi, pristine'[s][n], lost)
      BY <1>4, FirmwareSound
    <3>2. Lost(s)' \in BOOLEAN  BY DEF Lost
    <3>3. PICK i : i = f.partitions[n]  OBVIOUS
    <3>4. SoundAt(next, i, s, n)'  BY <1>6, <2>2, <3>1, <3>2, <3>3 DEF SoundAt, Shipped, KmiOf
    <3>5. j = i /\ pristine'[s][n] = {i}  BY <1>8, <2>1, <2>2, <3>3
    <3> QED  BY <2>1, <3>4, <3>5 DEF SoundAt, Torn, NoKernel
  <2>3. CASE s # o
    <3>1. j = device[s][n] /\ pristine'[s][n] = pristine[s][n]  BY <1>8, <2>1, <2>3
    <3>2. j # Torn => SoundAt(next, j, s, n)'  BY <1>11, <2>3, <3>1 DEF PartitionsInv
    <3>3. \A p \in pristine'[s][n] : p # Torn => SoundAt(next, p, s, n)'
      BY <1>11, <2>3, <3>1 DEF PartitionsInv
    <3> QED  BY <2>1, <3>2, <3>3 DEF SoundAt, Torn, NoKernel
  <2> QED  BY <2>2, <2>3
<1>14. OutputInv(next, names)'
  <2>1. output' = [at |-> output.at, name |-> output.name, image |-> None]  BY <1>1 DEF OutputInv
  <2> QED  BY <2>1 DEF OutputInv, None, Torn, NoKernel
<1>15. CommandInv(next, names)'  BY <1>1 DEF CommandInv, Idle
<1>16. BootedInv'  BY <1>1 DEF BootedInv
<1> QED  BY <1>6, <1>12, <1>13, <1>14, <1>15, <1>16

(* A boot: what was lost stays so, and what boots is sound.                 *)
LEMMA BootBoots ==
    ASSUME NEW fw \in [Slots -> Firmwares], NEW names, BootStep(fw, names), Boot
    PROVE  BootStep(fw, names)'
<1> USE DEF BootStep
<1>1. /\ UNCHANGED <<device, pristine, command, output, active>> /\ command = Idle
      /\ Torn \notin {device[active][n] : n \in names}
      /\ slot' = active /\ uname' = device[active]["boot"].kernel.kmi
      /\ booted' = init(device[active][RamdiskName(names)].cpio, device[active]["boot"].kernel)
      /\ "init" \in DOMAIN device[active][RamdiskName(names)].cpio
  BY NamesFacts DEF Boot, RamdiskOf
<1>2. PICK at \in Slots : active = at  BY DEF BootTypes
<1>3. \A s \in Slots : DOMAIN fw[s].partitions = names  BY DEF BootTypes
<1>4. PICK n \in names : RamdiskName(names) = n /\ Shipped(fw, at, n) # "ksuinit"  BY <1>3, FirmwareFacts
<1>5. "boot" \in names  BY <1>3, <1>2, FirmwareFacts
<1>6. device[at][n] # Torn /\ device[at]["boot"] # Torn  BY <1>1, <1>2, <1>5
<1>7. SoundAt(fw, device[at][n], at, n) /\ SoundAt(fw, device[at]["boot"], at, "boot") /\ ~Lost(at)
  BY <1>5, <1>6 DEF PartitionsInv, Lost
<1>8. \A s \in Slots : Lost(s) => Lost(s)'  BY <1>1, <1>2, <1>6 DEF Lost, Torn, NoKernel, Idle
<1>9. BootTypes(fw, names)'
  <2>1. device[at]["boot"].kernel.kmi = KmiOf(fw, at)  BY <1>7 DEF SoundAt, Sound
  <2> QED  BY <1>1, <1>2, <2>1 DEF BootTypes, IsTable, KmiOf
<1>10. BootedInv'
  <2> DEFINE cpio == device[at][n].cpio
             kernel == device[at]["boot"].kernel
             real == Shipped(fw, at, n)
  <2>1. /\ InitKept(cpio, real) /\ "init" \in DOMAIN cpio /\ real # "ksuinit"
        /\ "kernelsu.ko" \in DOMAIN cpio => cpio["kernelsu.ko"] = kernel.kmi
    BY <1>1, <1>2, <1>4, <1>7 DEF SoundAt, Sound, Patched
  <2>2. booted' = init(cpio, kernel)  BY <1>1, <1>2, <1>4
  <2> HIDE DEF cpio, kernel, real
  <2>3. CASE cpio["init"] # "ksuinit"
    <3>1. booted' = [init |-> cpio["init"], loads |-> 0, good |-> TRUE]  BY <2>2, <2>3 DEF init
    <3> QED  BY <2>3, <3>1 DEF BootedInv
  <2>4. CASE cpio["init"] = "ksuinit"
    <3>1. booted'.init = (IF "init.real" \in DOMAIN cpio THEN cpio["init.real"] ELSE "/system/bin/init")
          /\ booted'.good = ("kernelsu.ko" \in DOMAIN cpio => cpio["kernelsu.ko"] = kernel.kmi)
      BY <2>2, <2>4 DEF init
    <3>2. booted'.init # "ksuinit"  BY <2>1, <2>4, <3>1 DEF InitKept
    <3> QED  BY <2>1, <3>1, <3>2 DEF BootedInv
  <2> QED  BY <2>3, <2>4
<1>11. PartitionsInv(fw, names)'  BY <1>1, <1>8, PartitionsKept
<1>12. \A s \in Slots, m \in names : pristine[s][m] \subseteq pristine'[s][m]  BY <1>1
<1>13. OutputInv(fw, names)'  BY <1>1, <1>8, <1>12, OutputKept
<1>14. CommandInv(fw, names)'  BY <1>1 DEF CommandInv, Idle
<1> QED  BY <1>9, <1>10, <1>11, <1>13, <1>14

LEMMA BootInitInv == BootInit => BootInv
<1> SUFFICES ASSUME BootInit PROVE BootInv  OBVIOUS
<1>1. PICK f \in Firmwares :
        /\ device = [s \in Slots |-> f.partitions]
        /\ pristine = [s \in Slots |-> [n \in DOMAIN f.partitions |-> {f.partitions[n]}]]
        /\ uname = f.partitions["boot"].kernel.kmi
  BY DEF BootInit
<1> DEFINE fw == [s \in Slots |-> f]
           names == DOMAIN f.partitions
<1>2. /\ slot = "a" /\ active = "a" /\ command = Idle
      /\ output = [at |-> "a", name |-> "boot", image |-> None]
      /\ booted = [init |-> "", loads |-> 0, good |-> TRUE]
  BY DEF BootInit
<1>3. f.partitions = [n \in names |-> f.partitions[n]]  BY FirmwaresAssumption
<1>4. fw \in [Slots -> Firmwares] /\ \A s \in Slots : fw[s] = f  OBVIOUS
<1> HIDE DEF fw
<1>5. BootTypes(fw, names)
  <2>1. IsTable(names, device) /\ IsTable(names, pristine)  BY <1>1, <1>3 DEF IsTable
  <2> QED  BY <1>1, <1>2, <1>4, <2>1 DEF BootTypes, Slots, KmiOf
<1>6. PartitionsInv(fw, names)
  <2> SUFFICES ASSUME NEW s \in Slots, NEW n \in names
               PROVE  SoundAt(fw, f.partitions[n], s, n)
    BY <1>1 DEF PartitionsInv
  <2>1. Lost(s) \in BOOLEAN  BY DEF Lost
  <2> QED  BY <1>4, <2>1, FirmwareSound DEF SoundAt, Shipped, KmiOf
<1>7. OutputInv(fw, names)  BY <1>2 DEF OutputInv
<1>8. CommandInv(fw, names) /\ BootedInv  BY <1>2 DEF CommandInv, BootedInv
<1>9. "a" \in Slots  BY DEF Slots
<1> QED  BY <1>4, <1>5, <1>6, <1>7, <1>8, <1>9 DEF BootInv, BootStep

LEMMA BootStepInv == BootInv /\ [BootNext]_bootVars => BootInv'
<1> SUFFICES ASSUME BootInv, [BootNext]_bootVars PROVE BootInv'  OBVIOUS
<1>1. PICK fw \in [Slots -> Firmwares] : BootStep(fw, DOMAIN fw["a"].partitions)  BY DEF BootInv
<1>2. PICK names : names = DOMAIN fw["a"].partitions  OBVIOUS
<1>3. BootStep(fw, names)  BY <1>1, <1>2
<1>4. ASSUME BootStep(fw, names)' PROVE BootInv'  BY <1>2, <1>4 DEF BootInv
<1>5. CASE patch  BY <1>3, <1>4, <1>5, PatchStep
<1>6. CASE find_backup_location  BY <1>3, <1>4, <1>6, BackupStep
<1>7. CASE do_backup  BY <1>3, <1>4, <1>7, CopyStep
<1>8. CASE flash_partition  BY <1>3, <1>4, <1>8, FlashStep
<1>9. CASE post_ota  BY <1>3, <1>4, <1>9, PostOtaStep
<1>10. CASE WriteOutput  BY <1>3, <1>4, <1>10, WriteOutputStep
<1>11. CASE Kill  BY <1>3, <1>4, <1>11, KillStep
<1>12. CASE restore
  <2>1. PICK args \in RestoreArgs : RestoreFrom(args, backups)  BY <1>12 DEF restore
  <2> QED  BY <1>3, <1>4, <1>12, <2>1, RestoreStep DEF restore
<1>13. CASE uninstall
  <2>1. RestoreFrom([flash |-> TRUE, out |-> FALSE, ota |-> FALSE], <<>>) /\ command = Idle  BY <1>13 DEF uninstall
  <2> QED  BY <1>3, <1>4, <2>1, RestoreStep
<1>14. CASE install  BY <1>3, <1>4, <1>14, InstallStep
<1>15. CASE UserFlash  BY <1>3, <1>4, <1>15, UserFlashStep
<1>16. CASE SystemUpdate
  <2>1. PICK next \in [Slots -> Firmwares] : BootStep(next, names)'  BY <1>3, <1>16, UpdateStep
  <2>2. names = DOMAIN next["a"].partitions  BY <2>1 DEF BootStep, BootTypes, Slots
  <2> QED  BY <2>1, <2>2 DEF BootInv
<1>17. CASE Boot  BY <1>3, <1>4, <1>17, BootBoots
<1>18. CASE UNCHANGED bootVars
  <2>1. BootStep(fw, names)'
    BY <1>3, <1>18, QuietStep DEF bootVars, BootStep, BootTypes
  <2> QED  BY <1>4, <2>1
<1> QED
  BY <1>5, <1>6, <1>7, <1>8, <1>9, <1>10, <1>11, <1>12, <1>13, <1>14, <1>15, <1>16, <1>17, <1>18 DEF BootNext

LEMMA InvRestorable == BootInv => Restorable
<1> SUFFICES ASSUME BootInv PROVE Restorable  OBVIOUS
<1>1. PICK fw \in [Slots -> Firmwares] : BootStep(fw, DOMAIN fw["a"].partitions)  BY DEF BootInv
<1>2. PICK names : names = DOMAIN fw["a"].partitions  OBVIOUS
<1>3. BootTypes(fw, names) /\ PartitionsInv(fw, names) /\ BootedInv  BY <1>1, <1>2 DEF BootStep
<1>4. PartitionNames = names  BY <1>3, NamesFacts
<1>5. ASSUME NEW s \in Slots, NEW n \in names, device[s][n] # Torn, Patched(device[s][n])
      PROVE  LET image == device[s][n]
                 back == Stock(image, backups)
                 named == "stock_image.sha1" \in DOMAIN image.cpio /\ image.cpio["stock_image.sha1"] \in DOMAIN backups
             IN  IF named THEN back = Torn \/ back \in pristine[s][n]
                 ELSE /\ ~Patched(back)
                      /\ \A p \in pristine[s][n] : RealInit(p) # "" => RealInit(back) = RealInit(p)
  <2> DEFINE image == device[s][n]
             back == Stock(image, backups)
             named == "stock_image.sha1" \in DOMAIN image.cpio /\ image.cpio["stock_image.sha1"] \in DOMAIN backups
             real == Shipped(fw, s, n)
  <2>1. Sound(image, n, real, KmiOf(fw, s), pristine[s][n], Lost(s)) /\ Lost(s) \in BOOLEAN
    BY <1>3, <1>5 DEF PartitionsInv, SoundAt, Lost
  <2>2. real # "ksuinit"  BY <1>3, FirmwareFacts DEF BootTypes
  <2>3. CASE named
    <3>1. back = Torn \/ back = image.cpio["stock_image.sha1"]  BY <2>3 DEF Stock
    <3>2. image.cpio["stock_image.sha1"] \in pristine[s][n]  BY <2>1, <2>3 DEF Sound
    <3> QED  BY <2>3, <3>1, <3>2
  <2>4. CASE ~named
    <3>1. back = rebuild_without_ksu(image)  BY <2>4 DEF Stock
    <3>2. ~Patched(back) /\ (real # "" => RealInit(back) = real)
      <4> HIDE DEF image, back, real
      <4> QED  BY <1>5, <2>1, <2>2, <3>1, RebuildRestores DEF image
    <3>3. ASSUME NEW p \in pristine[s][n], RealInit(p) # "" PROVE RealInit(p) = real
      <4>1. p # Torn
        <5>1. DOMAIN Torn.cpio = 1..0  BY DEF Torn
        <5>2. 1..0 = {}  OBVIOUS
        <5>3. RealInit(Torn) = ""  BY <5>1, <5>2 DEF RealInit
        <5> QED  BY <3>3, <5>3
      <4>2. Sound(p, n, real, KmiOf(fw, s), pristine[s][n], Lost(s))
        BY <1>3, <4>1 DEF PartitionsInv, SoundAt
      <4> QED  BY <2>1, <2>2, <4>2, SoundInit
    <3> QED  BY <2>4, <3>2, <3>3
  <2> QED  BY <2>3, <2>4
<1>6. \A s \in Slots : DOMAIN device[s] = names  BY <1>3 DEF BootTypes, IsTable
<1> QED  BY <1>3, <1>4, <1>5, <1>6 DEF Restorable, BootedInv

(* Every patched image can be restored, to the image of the firmware, to    *)
(* one that was declared stock, or without its backup to one that boots as  *)
(* the firmware did; every boot ends in the system's init with the module   *)
(* of the kernel that runs (boot_patch.rs, ksuinit/src/init.rs).            *)
THEOREM RestorableAlways == BootSpec => []Restorable
<1>1. BootSpec => []BootInv  BY BootInitInv, BootStepInv, PTL DEF BootSpec
<1> QED  BY <1>1, InvRestorable, PTL

=============================================================================
