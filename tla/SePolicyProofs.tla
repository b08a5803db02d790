--------------------------- MODULE SePolicyProofs ---------------------------
(***************************************************************************)
(* Proofs about the SELinux policy in memory: that one policy takes the    *)
(* place of another without a reader or a rule lost, that the backup that  *)
(* apps are answered from is the policy of the boot, and that the rules in *)
(* use decide what they say; for any number of processes, readers and      *)
(* batches, any policy of the boot as BootAssumption has it, any batch of  *)
(* words and any text that ksud parses.                                    *)
(*                                                                         *)
(* The module is taken to be loaded at boot (~LateLoad): its rules are in  *)
(* before a process that could send a batch runs.  apply_kernelsu_rules()  *)
(* reads the policy before it takes policy_mutex, so that with batches at  *)
(* the same time none of this holds.                                       *)
(*                                                                         *)
(* First come the policies and who holds them, then what a rule leaves of  *)
(* a database, what the module's rules give su, what a rule changes, that  *)
(* ksud sends sequences of words, and the invariant that joins them.       *)
(***************************************************************************)
EXTENDS KsudSepolicy, FiniteSetTheorems, SequenceTheorems, WellFoundedInduction, TLAPS

Fields == {"pc", "old", "new", "pay"}
Holding == {"dup", "publish", "destroy", "unlock"}

PolicyTypes ==
    /\ DOMAIN th = Threads /\ \A t \in Threads : DOMAIN th[t] = Fields
    /\ DOMAIN reading = Readers /\ DOMAIN mem \subseteq Slots
    /\ \E S : published \in Seq(S)
    /\ \A p \in Procs : th[p].pc \in {"idle", "batch", "publish", "destroy", "unlock"}
    /\ th[Rules].pc \in {"idle", "lock", "dup", "publish", "destroy", "unlock", "failed"}

(* Who edits or replaces a policy holds the mutex.                         *)
MutexInv == \A t \in Threads : th[t].pc \in Holding <=> mutex = t

(* What is in use, read or edited is allocated.                            *)
AllocatedInv ==
    /\ policy \in DOMAIN mem
    /\ \A r \in Readers : reading[r] # None => reading[r] \in DOMAIN mem
    /\ \A t \in Threads :
          /\ th[t].pc \in {"lock", "dup", "publish"} => th[t].old = policy
          /\ th[t].pc = "destroy" => th[t].old \in DOMAIN mem \ {policy}
          /\ th[t].pc = "publish" => th[t].new \in DOMAIN mem \ {policy}

(* What a thread will publish is what its rules make of the policy in use. *)
Makes(t, pay, db) == IF t = Rules THEN WithKernelsuRules(db) ELSE Accept(pay, db)

ContentInv ==
    /\ mem[policy] = ideal
    /\ \A t \in Threads : th[t].pc = "publish" => mem[th[t].new] = Makes(t, th[t].pay, ideal)

(* Until the module's rules are in, nobody else is there.                  *)
BootInv ==
    /\ backup \in {Free, Boot}
    /\ published = <<>> => ideal = Boot /\ \A p \in Procs : th[p].pc = "idle"
    /\ th[Rules].pc \in {"lock", "dup", "publish"} => published = <<>>

PolicyInv == PolicyTypes /\ MutexInv /\ AllocatedInv /\ ContentInv /\ BootInv

LEMMA Names == /\ None \notin Slots /\ None \notin Threads /\ Rules \notin Procs
               /\ Threads = Procs \cup {Rules}
BY SePolicyAssumption DEF None, Rules, Threads

LEMMA PolicyStarts == Init => PolicyInv
<1> SUFFICES ASSUME Init
             PROVE  PolicyInv
    OBVIOUS
<1>1. PICK s \in Slots : policy = s /\ mem = [x \in {s} |-> Boot]
    BY DEF Init
<1>2. /\ DOMAIN th = Threads /\ \A t \in Threads : th[t] = Idle
      /\ DOMAIN Idle = Fields /\ Idle.pc = "idle"
    BY DEF Init, Idle, Fields
<1>3. PolicyTypes
    <2>1. published \in Seq({})
        BY DEF Init
    <2> QED
        BY <1>1, <1>2, <2>1, Names DEF Init, PolicyTypes
<1>4. MutexInv
    BY <1>2, Names DEF Init, MutexInv, Holding
<1>5. AllocatedInv /\ ContentInv
    BY <1>1, <1>2 DEF Init, AllocatedInv, ContentInv
<1>6. BootInv
    BY <1>2, Names DEF Init, BootInv
<1> QED
    BY <1>3, <1>4, <1>5, <1>6 DEF PolicyInv

\* A thread goes from pc to pc and changes nothing else of itself, or all.
Moves(t, pc, pc2) ==
    /\ th[t].pc = pc /\ th'[t].pc = pc2
    /\ DOMAIN th' = Threads /\ DOMAIN th'[t] = Fields
    /\ \A u \in Threads : u # t => th'[u] = th[u]

LEMMA GoMoves ==
    ASSUME PolicyInv, NEW t \in Threads, NEW pc2, Go(t, pc2)
    PROVE  Moves(t, th[t].pc, pc2) /\ th'[t].old = th[t].old /\ th'[t].new = th[t].new
           /\ th'[t].pay = th[t].pay
BY DEF PolicyInv, PolicyTypes, Go, Moves, Fields

LEMMA ReadBeforeLockKeeps ==
    ASSUME PolicyInv, ReadBeforeLock
    PROVE  PolicyInv'
<1>1. /\ th[Rules].pc = "idle" /\ published = <<>>
      /\ th' = [th EXCEPT ![Rules].pc = "lock", ![Rules].old = policy]
      /\ UNCHANGED <<mem, policy, backup, mutex, reading, published, ideal>>
    BY DEF ReadBeforeLock
<1>2. Moves(Rules, "idle", "lock") /\ th'[Rules].old = policy
    BY <1>1, Names DEF Moves, PolicyInv, PolicyTypes, Fields
<1>3. PolicyTypes'
    BY <1>1, <1>2, Names DEF PolicyInv, PolicyTypes, Moves
<1>4. MutexInv'
    BY <1>1, <1>2, Names DEF PolicyInv, MutexInv, Moves, Holding
<1>5. AllocatedInv'
    BY <1>1, <1>2, Names DEF PolicyInv, AllocatedInv, Moves
<1>6. ContentInv'
    BY <1>1, <1>2, Names DEF PolicyInv, ContentInv, Moves, Makes
<1>7. BootInv'
    BY <1>1, <1>2, Names DEF PolicyInv, BootInv, Moves
<1> QED
    BY <1>3, <1>4, <1>5, <1>6, <1>7 DEF PolicyInv

LEMMA TakeBackupKeeps ==
    ASSUME PolicyInv, TakeBackup
    PROVE  PolicyInv'
<1>1. /\ th[Rules].pc = "lock" /\ mutex = None /\ mutex' = Rules /\ Go(Rules, "dup")
      /\ backup' \in {mem[th[Rules].old], Free}
      /\ UNCHANGED <<mem, policy, reading, published, ideal>>
    BY DEF TakeBackup
<1>2. /\ Moves(Rules, "lock", "dup") /\ th'[Rules].old = th[Rules].old
      /\ th'[Rules].new = th[Rules].new /\ th'[Rules].pay = th[Rules].pay
    BY <1>1, Names, GoMoves
<1>3. PolicyTypes'
    BY <1>1, <1>2, Names DEF PolicyInv, PolicyTypes, Moves
<1>4. MutexInv'
    BY <1>1, <1>2, Names DEF PolicyInv, MutexInv, Moves, Holding
<1>5. AllocatedInv'
    BY <1>1, <1>2, Names DEF PolicyInv, AllocatedInv, Moves
<1>6. ContentInv'
    BY <1>1, <1>2, Names DEF PolicyInv, ContentInv, Moves, Makes
<1>7. mem[th[Rules].old] = Boot
    BY <1>1, Names DEF PolicyInv, AllocatedInv, ContentInv, BootInv
<1>8. BootInv'
    BY <1>1, <1>2, <1>7, Names DEF PolicyInv, BootInv, Moves
<1> QED
    BY <1>3, <1>4, <1>5, <1>6, <1>8 DEF PolicyInv

\* ksu_dup_sepolicy(): what is allocated stays what it is.
LEMMA DupKeeps ==
    ASSUME PolicyInv, NEW n, NEW db, ksu_dup_sepolicy(n, db)
    PROVE  /\ n \in Slots /\ n \notin DOMAIN mem /\ n # policy
           /\ DOMAIN mem' = DOMAIN mem \cup {n} /\ mem'[n] = db
           /\ \A x \in DOMAIN mem : mem'[x] = mem[x]
           /\ DOMAIN mem' \subseteq Slots
BY DEF PolicyInv, PolicyTypes, AllocatedInv, ksu_dup_sepolicy

\* A thread that holds the mutex gets ready to publish db.
LEMMA ReadyKeeps ==
    ASSUME PolicyInv, NEW t \in Threads, NEW n, NEW db, ksu_dup_sepolicy(n, db),
           NEW pc, Moves(t, pc, "publish"), mutex' = t, \A u \in Threads : u # t => mutex # u,
           th'[t].old = policy, th'[t].new = n, db = Makes(t, th'[t].pay, ideal),
           t = Rules => published = <<>>, t # Rules => published # <<>> /\ t \in Procs,
           UNCHANGED <<policy, backup, reading, published, ideal>>
    PROVE  PolicyInv'
<1>1. /\ n \in Slots /\ n \notin DOMAIN mem /\ n # policy
      /\ DOMAIN mem' = DOMAIN mem \cup {n} /\ mem'[n] = db
      /\ \A x \in DOMAIN mem : mem'[x] = mem[x]
      /\ DOMAIN mem' \subseteq Slots
    BY DupKeeps
<1>2. \A u \in Threads : u # t => th'[u] = th[u] /\ th[u].pc \notin Holding
    BY DEF PolicyInv, MutexInv, Moves
<1>3. PolicyTypes'
    BY <1>1, Names DEF PolicyInv, PolicyTypes, Moves
<1>4. MutexInv'
    BY <1>2 DEF PolicyInv, MutexInv, Moves, Holding
<1>5. AllocatedInv'
    BY <1>1, <1>2 DEF PolicyInv, AllocatedInv, Moves, Holding
<1>6. ContentInv'
    <2>1. mem'[policy'] = ideal'
        BY <1>1 DEF PolicyInv, ContentInv, AllocatedInv
    <2>2. mem'[th'[t].new] = Makes(t, th'[t].pay, ideal')
        BY <1>1
    <2>3. \A u \in Threads : u # t => th'[u].pc # "publish"
        BY <1>2 DEF Holding
    <2> QED
        BY <2>1, <2>2, <2>3 DEF ContentInv, Makes
<1>7. BootInv'
    BY <1>2, Names DEF PolicyInv, BootInv, Moves
<1> QED
    BY <1>3, <1>4, <1>5, <1>6, <1>7 DEF PolicyInv

\* A thread that holds the mutex is about to give it back.
LEMMA LeavingKeeps ==
    ASSUME PolicyInv, NEW t \in Threads, NEW pc, Moves(t, pc, "unlock"),
           mutex' = t, \A u \in Threads : u # t => mutex # u,
           t # Rules => published # <<>>,
           UNCHANGED <<mem, policy, backup, reading, published, ideal>>
    PROVE  PolicyInv'
<1>1. \A u \in Threads : u # t => th'[u] = th[u] /\ th[u].pc \notin Holding
    BY DEF PolicyInv, MutexInv, Moves
<1>2. PolicyTypes'
    BY Names DEF PolicyInv, PolicyTypes, Moves
<1>3. MutexInv'
    BY <1>1 DEF PolicyInv, MutexInv, Moves, Holding
<1>4. AllocatedInv'
    BY <1>1 DEF PolicyInv, AllocatedInv, Moves, Holding
<1>5. ContentInv'
    BY <1>1 DEF PolicyInv, ContentInv, Moves, Holding
<1>6. BootInv'
    BY <1>1, Names DEF PolicyInv, BootInv, Moves
<1> QED
    BY <1>2, <1>3, <1>4, <1>5, <1>6 DEF PolicyInv

LEMMA RulesKeep ==
    ASSUME PolicyInv, apply_kernelsu_rules
    PROVE  PolicyInv'
<1>1. /\ th[Rules].pc = "dup" /\ Rules \in Threads
      /\ UNCHANGED <<policy, backup, mutex, reading, published, ideal>>
    BY Names DEF apply_kernelsu_rules
<1>2. /\ mutex' = Rules /\ \A u \in Threads : u # Rules => mutex # u
      /\ published = <<>> /\ th[Rules].old = policy /\ mem[policy] = ideal
    BY <1>1 DEF PolicyInv, MutexInv, Holding, BootInv, AllocatedInv, ContentInv
<1>3. CASE Go(Rules, "unlock") /\ UNCHANGED mem
    <2>1. Moves(Rules, th[Rules].pc, "unlock")
        BY <1>1, <1>3, GoMoves
    <2> QED
        BY <1>1, <1>2, <1>3, <2>1, LeavingKeeps
<1>4. ASSUME NEW n \in Slots, ksu_dup_sepolicy(n, WithKernelsuRules(mem[th[Rules].old])),
             th' = [th EXCEPT ![Rules].pc = "publish", ![Rules].new = n]
      PROVE  PolicyInv'
    <2>1. /\ Moves(Rules, "dup", "publish") /\ th'[Rules].old = policy /\ th'[Rules].new = n
        BY <1>1, <1>2, <1>4, Names DEF Moves, PolicyInv, PolicyTypes, Fields
    <2>2. WithKernelsuRules(mem[th[Rules].old]) = Makes(Rules, th'[Rules].pay, ideal)
        BY <1>2 DEF Makes
    <2> QED
        BY <1>1, <1>2, <1>4, <2>1, <2>2, ReadyKeeps
<1> QED
    BY <1>3, <1>4 DEF apply_kernelsu_rules

LEMMA BatchKeeps ==
    ASSUME PolicyInv, NEW p \in Procs, handle_sepolicy(p)
    PROVE  PolicyInv'
<1> DEFINE run == RunBatch(th[p].pay, mem[policy])
<1>1. /\ th[p].pc = "batch" /\ mutex = None /\ mutex' = p
      /\ UNCHANGED <<policy, backup, reading, published, ideal>>
    BY DEF handle_sepolicy
<1>2. /\ p \in Threads /\ p # Rules /\ (\A u \in Threads : u # p => mutex # u)
      /\ published # <<>> /\ mem[policy] = ideal
    BY <1>1, Names DEF PolicyInv, BootInv, ContentInv
<1>3. CASE Go(p, "unlock") /\ UNCHANGED mem
    <2>1. Moves(p, th[p].pc, "unlock")
        BY <1>2, <1>3, GoMoves
    <2> QED
        BY <1>1, <1>2, <1>3, <2>1, LeavingKeeps
<1>4. ASSUME run.next # 0, NEW n \in Slots, ksu_dup_sepolicy(n, run.db),
             th' = [th EXCEPT ![p].pc = "publish", ![p].old = policy, ![p].new = n]
      PROVE  PolicyInv'
    <2>1. /\ Moves(p, "batch", "publish") /\ th'[p].old = policy /\ th'[p].new = n
          /\ th'[p].pay = th[p].pay
        BY <1>1, <1>2, <1>4 DEF Moves, PolicyInv, PolicyTypes, Fields
    <2>2. run.db = Makes(p, th'[p].pay, ideal)
        BY <1>2, <1>4, <2>1 DEF Makes, Accept
    <2> HIDE DEF run
    <2> QED
        BY <1>1, <1>2, <1>4, <2>1, <2>2, ReadyKeeps
<1> QED
    BY <1>3, <1>4 DEF handle_sepolicy

\* A batch is sent when the module's rules are in.
LEMMA SendKeeps ==
    ASSUME ~LateLoad, PolicyInv, NEW p \in Procs, NEW pay, SendBatch(p, pay)
    PROVE  PolicyInv'
<1>1. /\ th[p].pc = "idle" /\ published # <<>> /\ th[Rules].pc = "idle"
      /\ th' = [th EXCEPT ![p].pc = "batch", ![p].pay = pay]
      /\ UNCHANGED <<mem, policy, backup, mutex, reading, published, ideal>>
    BY DEF SendBatch
<1>2. Moves(p, "idle", "batch") /\ p \in Threads /\ p # Rules
    BY <1>1, Names DEF Moves, PolicyInv, PolicyTypes, Fields
<1>3. PolicyTypes'
    BY <1>1, <1>2, Names DEF PolicyInv, PolicyTypes, Moves
<1>4. MutexInv'
    BY <1>1, <1>2 DEF PolicyInv, MutexInv, Moves, Holding
<1>5. AllocatedInv'
    BY <1>1, <1>2 DEF PolicyInv, AllocatedInv, Moves
<1>6. ContentInv'
    BY <1>1, <1>2 DEF PolicyInv, ContentInv, Moves
<1>7. BootInv'
    BY <1>1, <1>2, Names DEF PolicyInv, BootInv, Moves
<1> QED
    BY <1>3, <1>4, <1>5, <1>6, <1>7 DEF PolicyInv

LEMMA Appended ==
    ASSUME NEW S, NEW s \in Seq(S), NEW x
    PROVE  Append(s, x) \in Seq(S \cup {x}) /\ Append(s, x) # <<>>
OBVIOUS

\* rcu_assign_pointer(): the edited policy is the one in use.
LEMMA PublishKeeps ==
    ASSUME PolicyInv, NEW t \in Threads, Publish(t)
    PROVE  PolicyInv'
<1>1. /\ th[t].pc = "publish" /\ policy' = th[t].new /\ Go(t, "destroy")
      /\ ideal' = Makes(t, th[t].pay, ideal)
      /\ UNCHANGED <<mem, backup, mutex, reading>>
    BY DEF Publish, Makes
<1>2. Moves(t, "publish", "destroy") /\ th'[t].old = th[t].old
    BY <1>1, GoMoves
<1>3. published' # <<>> /\ \E S : published' \in Seq(S)
    <2>1. PICK x : published' = Append(published, x)
        BY DEF Publish
    <2>2. PICK S : published \in Seq(S)
        BY DEF PolicyInv, PolicyTypes
    <2> QED
        BY <2>1, <2>2, Appended
<1>4. \A u \in Threads : u # t => th'[u] = th[u] /\ th[u].pc \notin Holding
    BY <1>1, <1>2 DEF PolicyInv, MutexInv, Moves, Holding
<1>5. th[Rules].pc # "lock"
    BY <1>1, Names DEF PolicyInv, BootInv
<1>6. PolicyTypes'
    BY <1>1, <1>2, <1>3, Names DEF PolicyInv, PolicyTypes, Moves
<1>7. MutexInv'
    BY <1>1, <1>2 DEF PolicyInv, MutexInv, Moves, Holding
<1>8. AllocatedInv'
    <2>1. /\ policy' \in DOMAIN mem /\ policy' # policy /\ th'[t].old = policy
          /\ policy \in DOMAIN mem
        BY <1>1, <1>2 DEF PolicyInv, AllocatedInv
    <2>2. \A u \in Threads : u # t => th'[u].pc \notin {"lock", "dup", "publish", "destroy"}
        BY <1>4, <1>5, Names DEF PolicyInv, PolicyTypes, Holding
    <2> QED
        BY <1>1, <1>2, <2>1, <2>2 DEF PolicyInv, AllocatedInv, Moves
<1>9. ContentInv'
    BY <1>1, <1>2, <1>4 DEF PolicyInv, ContentInv, Moves, Holding
<1>10. BootInv'
    BY <1>1, <1>2, <1>3, <1>4, <1>5, Names DEF PolicyInv, BootInv, Moves, Holding
<1> QED
    BY <1>6, <1>7, <1>8, <1>9, <1>10 DEF PolicyInv

\* The old policy is freed when nobody reads it.
LEMMA DestroyKeeps ==
    ASSUME PolicyInv, NEW t \in Threads, ksu_destroy_sepolicy(t)
    PROVE  PolicyInv'
<1>1. /\ th[t].pc = "destroy" /\ Go(t, "unlock")
      /\ \A r \in Readers : reading[r] # th[t].old
      /\ DOMAIN mem' = DOMAIN mem \ {th[t].old}
      /\ \A x \in DOMAIN mem \ {th[t].old} : mem'[x] = mem[x]
      /\ UNCHANGED <<policy, backup, mutex, reading, published, ideal>>
    BY DEF ksu_destroy_sepolicy, Restrict
<1>2. Moves(t, "destroy", "unlock")
    BY <1>1, GoMoves
<1>3. \A u \in Threads : u # t => th'[u] = th[u] /\ th[u].pc \notin Holding
    BY <1>1, <1>2 DEF PolicyInv, MutexInv, Moves, Holding
<1>4. policy \in DOMAIN mem \ {th[t].old}
    BY <1>1 DEF PolicyInv, AllocatedInv
<1>5. PolicyTypes'
    BY <1>1, <1>2, Names DEF PolicyInv, PolicyTypes, Moves
<1>6. MutexInv'
    BY <1>1, <1>2 DEF PolicyInv, MutexInv, Moves, Holding
<1>7. AllocatedInv'
    BY <1>1, <1>2, <1>3, <1>4 DEF PolicyInv, AllocatedInv, Moves, Holding
<1>8. ContentInv'
    BY <1>1, <1>2, <1>3, <1>4 DEF PolicyInv, ContentInv, Moves, Holding
<1>9. BootInv'
    BY <1>1, <1>2, <1>3, Names DEF PolicyInv, BootInv, Moves
<1> QED
    BY <1>5, <1>6, <1>7, <1>8, <1>9 DEF PolicyInv

LEMMA UnlockKeeps ==
    ASSUME PolicyInv, NEW t \in Threads, Unlock(t)
    PROVE  PolicyInv'
<1>1. /\ th[t].pc = "unlock" /\ mutex' = None
      /\ UNCHANGED <<mem, policy, backup, reading, published, ideal>>
    BY DEF Unlock
<1>2. PICK pc2 \in {"idle", "failed"} : Moves(t, "unlock", pc2) /\ (pc2 = "failed" => t = Rules)
    BY <1>1, Names DEF Unlock, Idle, Moves, Fields, PolicyInv, PolicyTypes
<1>3. \A u \in Threads : u # t => th'[u] = th[u] /\ th[u].pc \notin Holding
    BY <1>1, <1>2 DEF PolicyInv, MutexInv, Moves, Holding
<1>4. PolicyTypes'
    BY <1>1, <1>2, Names DEF PolicyInv, PolicyTypes, Moves
<1>5. MutexInv'
    BY <1>1, <1>2, <1>3, Names DEF MutexInv, Moves, Holding
<1>6. AllocatedInv'
    BY <1>1, <1>2 DEF PolicyInv, AllocatedInv, Moves
<1>7. ContentInv'
    BY <1>1, <1>2 DEF PolicyInv, ContentInv, Moves
<1>8. BootInv'
    BY <1>1, <1>2, <1>3, Names DEF PolicyInv, BootInv, Moves
<1> QED
    BY <1>4, <1>5, <1>6, <1>7, <1>8 DEF PolicyInv

LEMMA ReadKeeps ==
    ASSUME PolicyInv, NEW r \in Readers, Read(r)
    PROVE  PolicyInv'
<1>1. /\ DOMAIN reading' = Readers
      /\ reading'[r] \in {policy, None} /\ \A q \in Readers : q # r => reading'[q] = reading[q]
      /\ UNCHANGED <<mem, policy, backup, mutex, th, published, ideal>>
    BY DEF Read, PolicyInv, PolicyTypes
<1>2. PolicyTypes' /\ MutexInv' /\ ContentInv' /\ BootInv'
    BY <1>1 DEF PolicyInv, PolicyTypes, MutexInv, ContentInv, BootInv
<1>3. AllocatedInv'
    BY <1>1 DEF PolicyInv, AllocatedInv
<1> QED
    BY <1>2, <1>3 DEF PolicyInv

LEMMA PolicyAlways ==
    ASSUME ~LateLoad
    PROVE  KsudSpec => []PolicyInv
<1>1. PolicyInv /\ [KsudNext]_vars => PolicyInv'
    <2> SUFFICES ASSUME PolicyInv, [KsudNext]_vars
                 PROVE  PolicyInv'
        OBVIOUS
    <2>1. CASE UNCHANGED vars
        BY <2>1 DEF vars, PolicyInv, PolicyTypes, MutexInv, AllocatedInv, ContentInv, BootInv
    <2>2. ASSUME NEW p \in Procs, NEW text, live_patch(p, text)
          PROVE  PolicyInv'
        <3>1. \E pay : SendBatch(p, pay)
            BY <2>2 DEF live_patch
        <3> QED
            BY <3>1, SendKeeps
    <2>3. CASE Next
        BY <2>3, ReadBeforeLockKeeps, TakeBackupKeeps, RulesKeep, BatchKeeps, SendKeeps,
           PublishKeeps, DestroyKeeps, UnlockKeeps, ReadKeeps DEF Next
    <2> QED
        BY <2>1, <2>2, <2>3 DEF KsudNext
<1> QED
    BY PolicyStarts, <1>1, PTL DEF KsudSpec

\* The policy in use, the ones tasks are reading and those being edited are
\* never freed, and the one in use has the module's rules and then every
\* accepted batch: in whatever order threads read, edit and publish.
THEOREM HandoverCorrect ==
    ASSUME ~LateLoad
    PROVE  KsudSpec => []PolicyHandover
<1>1. PolicyInv => PolicyHandover
    BY DEF PolicyInv, PolicyHandover, NoFreedPolicy, NoLostRule, AllocatedInv, ContentInv
<1> QED
    BY <1>1, PolicyAlways, PTL

\* Apps that ask selinuxfs get the answers of the boot's policy, whatever was
\* loaded since.
THEOREM HideCorrect ==
    ASSUME ~LateLoad
    PROVE  KsudSpec => []HideAnswersOriginal
<1>1. PolicyInv => HideAnswersOriginal
    BY DEF PolicyInv, BootInv, HideAnswersOriginal
<1> QED
    BY <1>1, PolicyAlways, PTL

-----------------------------------------------------------------------------
(* Induction and recursion over numbers. *)

LEMMA LeastNumber ==
    ASSUME NEW T, T \subseteq Nat, T # {}
    PROVE  \E x \in T : \A y \in T : x <= y
<1> DEFINE R == {ss \in Nat \X Nat : ss[1] < ss[2]}
<1>1. IsWellFoundedOn(R, Nat)
    BY NatLessThanWellFounded DEF OpToRel
<1> HIDE DEF R
<1>2. PICK x \in T : \A y \in T : ~(<<y, x>> \in R)
    BY <1>1, WFMin
<1>3. \A y \in T : <<y, x>> \in R <=> y < x
    BY <1>2 DEF R
<1>4. \A y \in T : ~(y < x)
    BY <1>2, <1>3, Zenon
<1>5. \A y \in T : x <= y
    BY <1>4
<1> QED
    BY <1>5

\* Induction up to a number, over the set of those a property holds for.
LEMMA UpTo ==
    ASSUME NEW n \in Nat, NEW I, 0 \in I, \A m \in 0 .. n - 1 : m \in I => m + 1 \in I
    PROVE  \A m \in 0 .. n : m \in I
<1> SUFFICES ASSUME NEW z \in 0 .. n, z \notin I PROVE FALSE
    OBVIOUS
<1> DEFINE T == {m \in 0 .. n : m \notin I}
<1>1. T \subseteq Nat /\ T # {}
    OBVIOUS
<1> HIDE DEF T
<1>2. PICK m \in T : \A y \in T : m <= y
    BY <1>1, LeastNumber
<1>3. m \in 0 .. n /\ m \notin I /\ m # 0
    BY <1>2 DEF T
<1>4. m - 1 \in 0 .. n - 1 /\ m - 1 + 1 = m /\ ~(m <= m - 1) /\ m - 1 \in 0 .. n
    BY <1>3
<1>5. m - 1 \notin T
    BY <1>2, <1>4
<1>6. m - 1 \in I
    BY <1>4, <1>5 DEF T
<1> QED
    BY <1>3, <1>4, <1>6

\* A recursion up to a number has a solution.
Solution(f, n, T, base, step) ==
    /\ f \in [0 .. n -> T] /\ f[0] = base
    /\ \A i \in 1 .. n : f[i] = step[<<i, f[i - 1]>>]

LEMMA RecursionTo ==
    ASSUME NEW n \in Nat, NEW T, NEW base \in T, NEW step \in [(1 .. n) \X T -> T]
    PROVE  \E f : Solution(f, n, T, base, step)
<1> DEFINE Solves(f, m) == f[0] = base /\ \A i \in 1 .. m : f[i] = step[<<i, f[i - 1]>>]
           I == {m \in 0 .. n : \E f \in [0 .. m -> T] : Solves(f, m)}
<1>1. 0 \in I
    <2> DEFINE f == [i \in 0 .. 0 |-> base]
    <2>1. f \in [0 .. 0 -> T] /\ Solves(f, 0)
        OBVIOUS
    <2>2. 0 \in 0 .. n
        OBVIOUS
    <2> HIDE DEF f
    <2> QED
        BY <2>1, <2>2
<1>2. ASSUME NEW m \in 0 .. n - 1, m \in I PROVE m + 1 \in I
    <2>1. PICK f \in [0 .. m -> T] : Solves(f, m)
        BY <1>2
    <2> DEFINE g == [i \in 0 .. m + 1 |-> IF i = m + 1 THEN step[<<m + 1, f[m]>>] ELSE f[i]]
    <2>2. m + 1 \in 1 .. n /\ f[m] \in T /\ m + 1 \in 0 .. n /\ m \in Nat
        OBVIOUS
    <2>3. step[<<m + 1, f[m]>>] \in T
        BY <2>2
    <2>4. g \in [0 .. m + 1 -> T]
        BY <2>2, <2>3
    <2>5. g[0] = base
        BY <2>1, <2>2
    <2>6. ASSUME NEW i \in 1 .. m + 1 PROVE g[i] = step[<<i, g[i - 1]>>]
        <3>1. CASE i = m + 1
            BY <3>1, <2>2
        <3>2. CASE i # m + 1
            <4>1. i \in 1 .. m /\ i - 1 \in 0 .. m /\ i \in 0 .. m /\ i - 1 # m + 1
                BY <3>2, <2>2
            <4>2. g[i] = f[i] /\ g[i - 1] = f[i - 1]
                BY <3>2, <4>1, <2>2
            <4> QED
                BY <2>1, <4>1, <4>2
        <3> QED
            BY <3>1, <3>2
    <2> HIDE DEF g
    <2>7. Solves(g, m + 1)
        BY <2>5, <2>6
    <2> QED
        BY <2>2, <2>4, <2>7
<1>3. n \in I
    <2> HIDE DEF I
    <2> QED
        BY <1>1, <1>2, UpTo
<1> QED
    BY <1>3 DEF Solution

-----------------------------------------------------------------------------
(* What a rule leaves of a database. *)

DbFields == {"types", "has", "permissive", "av", "xp", "tr", "ft", "cons", "roles", "role_allow", "bounds"}
Effects == {"allowed", "auditallow", "auditdeny"}
AvKeys(db) == (DOMAIN db.types) \X (DOMAIN db.types) \X Classes \X Effects

\* A constraint that names at least what another one does.
NodeGrows(e, e2) ==
    /\ "op" \in DOMAIN e2 /\ e2.op = e.op
    /\ e.op = "names" => /\ {"target", "cmp", "names", "type_names"} \subseteq DOMAIN e2
                         /\ e2.target = e.target /\ e2.cmp = e.cmp /\ e2.type_names = e.type_names
                         /\ e.names \subseteq e2.names
ConGrows(con, con2) ==
    /\ "expr" \in DOMAIN con2 /\ DOMAIN con2.expr = DOMAIN con.expr
    /\ \A i \in DOMAIN con.expr : NodeGrows(con.expr[i], con2.expr[i])
ListGrows(list, list2) ==
    /\ DOMAIN list2 = DOMAIN list
    /\ \A i \in DOMAIN list : ConGrows(list[i], list2[i])
ConsGrow(cons, cons2) ==
    /\ DOMAIN cons2 = Classes
    /\ \A c \in Classes : ListGrows(cons[c], cons2[c])

\* A database as the kernel loads it and rules leave it.
GoodDb(db) ==
    /\ DOMAIN db = DbFields
    /\ DOMAIN db.av \subseteq AvKeys(db)
    /\ \A k \in DOMAIN db.av : db.av[k] \subseteq Perms
    /\ ConsGrow(db.cons, db.cons)

\* What no rule takes back.
Grows(db, db2) ==
    /\ DOMAIN db.types \subseteq DOMAIN db2.types
    /\ \A n \in DOMAIN db.types : db2.types[n] = db.types[n]
    /\ db.has \subseteq db2.has /\ db2.bounds = db.bounds
    /\ DOMAIN db.xp \subseteq DOMAIN db2.xp
    /\ \A k \in DOMAIN db.xp : db2.xp[k] = db.xp[k]
    /\ ConsGrow(db.cons, db2.cons)

\* What only a "deny" takes back.
Allows(db, db2) ==
    \A k \in DOMAIN db.av :
        k[4] = "allowed" /\ db.av[k] # {} => k \in DOMAIN db2.av /\ db.av[k] \subseteq db2.av[k]

LEMMA GrowsSame == ASSUME NEW db, GoodDb(db) PROVE Grows(db, db) /\ Allows(db, db)
BY DEF GoodDb, Grows, Allows

LEMMA ConsGrowOn ==
    ASSUME NEW a, NEW b, NEW c, ConsGrow(a, b), ConsGrow(b, c)
    PROVE  ConsGrow(a, c)
<1> SUFFICES ASSUME NEW k \in Classes PROVE ListGrows(a[k], c[k])
    BY DEF ConsGrow
<1> DEFINE x == a[k]  y == b[k]  z == c[k]
<1>1. ListGrows(x, y) /\ ListGrows(y, z)
    BY DEF ConsGrow
<1> HIDE DEF x, y, z
<1>2. ASSUME NEW i \in DOMAIN x PROVE ConGrows(x[i], z[i])
    <2>1. ConGrows(x[i], y[i]) /\ ConGrows(y[i], z[i])
        BY <1>1 DEF ListGrows
    <2>2. ASSUME NEW j \in DOMAIN x[i].expr PROVE NodeGrows(x[i].expr[j], z[i].expr[j])
        <3>1. NodeGrows(x[i].expr[j], y[i].expr[j]) /\ NodeGrows(y[i].expr[j], z[i].expr[j])
            BY <2>1 DEF ConGrows
        <3> QED
            BY <3>1 DEF NodeGrows
    <2> QED
        BY <2>1, <2>2 DEF ConGrows
<1>3. ListGrows(x, z)
    BY <1>1, <1>2 DEF ListGrows
<1> QED
    BY <1>3 DEF x, z

LEMMA GrowsOn ==
    ASSUME NEW a, NEW b, NEW c, Grows(a, b), Grows(b, c)
    PROVE  Grows(a, c)
<1>1. ConsGrow(a.cons, c.cons)
    BY ConsGrowOn DEF Grows
<1> QED
    BY <1>1 DEF Grows

LEMMA AllowsOn ==
    ASSUME NEW a, NEW b, NEW c, Allows(a, b), Allows(b, c)
    PROVE  Allows(a, c)
BY DEF Allows

\* A change of the access vectors.
LEMMA AvChanges ==
    ASSUME NEW db, GoodDb(db), NEW f, DOMAIN f \subseteq AvKeys(db), \A k \in DOMAIN f : f[k] \subseteq Perms
    PROVE  LET e == [db EXCEPT !.av = f] IN GoodDb(e) /\ Grows(db, e) /\ e.xp = db.xp /\ e.av = f
<1> DEFINE e == [db EXCEPT !.av = f]
<1>1. /\ DOMAIN e = DbFields /\ e.av = f /\ e.types = db.types /\ e.has = db.has /\ e.bounds = db.bounds
      /\ e.xp = db.xp /\ e.cons = db.cons
    BY DEF GoodDb, DbFields
<1> HIDE DEF e
<1>2. GoodDb(e) /\ Grows(db, e)
    BY <1>1 DEF GoodDb, Grows, AvKeys
<1> QED
    BY <1>1, <1>2 DEF e

\* A change of what is said nowhere here.
LEMMA OtherChanges ==
    ASSUME NEW db, GoodDb(db), NEW e, DOMAIN e = DbFields,
           e.av = db.av, e.types = db.types, e.has = db.has, e.bounds = db.bounds, e.xp = db.xp, e.cons = db.cons
    PROVE  GoodDb(e) /\ Grows(db, e) /\ Allows(db, e)
BY DEF GoodDb, Grows, AvKeys, Allows

LEMMA AddRuleRaw ==
    ASSUME NEW db, GoodDb(db), NEW keys, keys \subseteq AvKeys(db), NEW p, p = ALL \/ p \in Perms, NEW invert \in BOOLEAN
    PROVE  LET e == add_rule_raw(db, keys, p, invert)
           IN  /\ GoodDb(e) /\ Grows(db, e) /\ e.xp = db.xp
               /\ (invert => \A k \in keys : k[4] = "auditdeny") => Allows(db, e)
<1> DEFINE touched == {k \in keys : invert /\ k[4] # "auditdeny" => k \in DOMAIN db.av}
           mask == IF p = ALL THEN Perms ELSE {p}
           Data(k) == IF invert THEN get_avtab_node(db.av, k) \ mask
                      ELSE get_avtab_node(db.av, k) \cup mask
           kept == {k \in touched : ~is_redundant_avtab_node(k, Data(k))}
           f == [k \in (DOMAIN db.av \ touched) \cup kept |-> IF k \in kept THEN Data(k) ELSE db.av[k]]
           e == add_rule_raw(db, keys, p, invert)
<1>1. mask \subseteq Perms
    OBVIOUS
<1> HIDE DEF mask
<1>2. ASSUME NEW k \in keys PROVE Data(k) \subseteq Perms
    BY <1>1 DEF get_avtab_node, GoodDb
<1>3. DOMAIN f = (DOMAIN db.av \ touched) \cup kept /\ kept \subseteq keys /\ touched \subseteq keys
    OBVIOUS
<1>4. DOMAIN f \subseteq AvKeys(db)
    BY <1>3 DEF GoodDb
<1>5. \A k \in DOMAIN f : f[k] \subseteq Perms
    BY <1>2, <1>3 DEF GoodDb
<1>6. e = [db EXCEPT !.av = f]
    BY DEF add_rule_raw, mask
<1>7. ASSUME invert => \A k \in keys : k[4] = "auditdeny",
             NEW k \in DOMAIN db.av, k[4] = "allowed", db.av[k] # {}
      PROVE  k \in DOMAIN f /\ db.av[k] \subseteq f[k]
    <2>1. CASE k \in touched
        <3>1. k \in keys
            BY <2>1
        <3>2. ~invert
            BY <1>7, <3>1
        <3>3. Data(k) = db.av[k] \cup mask
            BY <3>2 DEF get_avtab_node
        <3>4. CASE Data(k) = {}
            BY <1>7, <3>3, <3>4
        <3>5. CASE Data(k) # {}
            <4>1. k \in kept
                BY <2>1, <3>5, <1>7 DEF is_redundant_avtab_node
            <4> QED
                BY <3>3, <4>1
        <3> QED
            BY <3>4, <3>5
    <2>2. CASE k \notin touched
        BY <2>2, <1>3
    <2> QED
        BY <2>1, <2>2
<1>8. GoodDb(e) /\ Grows(db, e) /\ e.xp = db.xp
    <2> HIDE DEF f, e
    <2> QED
        BY <1>4, <1>5, <1>6, AvChanges
<1>9. ASSUME invert => \A k \in keys : k[4] = "auditdeny"
      PROVE  Allows(db, e)
    <2>1. e.av = f
        BY <1>6 DEF GoodDb, DbFields
    <2> HIDE DEF f, e
    <2> QED
        BY <1>7, <1>9, <2>1 DEF Allows
<1> QED
    BY <1>8, <1>9

\* The names in a rule stand for types there are.
LEMMA Expands ==
    ASSUME NEW db, NEW n, NEW m, Known(db, {n, m}), NEW strip
    PROVE  Expand(db, n, strip) \subseteq DOMAIN db.types /\ Expand(db, m, strip) \subseteq DOMAIN db.types
BY DEF Known, Expand, Attributes

LEMMA AddRule ==
    ASSUME NEW db, GoodDb(db), NEW s, NEW t, NEW c, NEW p, NEW effect \in Effects, NEW invert \in BOOLEAN
    PROVE  LET e == add_rule(db, s, t, c, p, effect, invert).db
           IN  /\ GoodDb(e) /\ Grows(db, e) /\ e.xp = db.xp
               /\ (invert => effect = "auditdeny") => Allows(db, e)
<1>1. CASE add_rule(db, s, t, c, p, effect, invert) = Fail(db)
    BY <1>1, GrowsSame DEF Fail
<1>2. CASE add_rule(db, s, t, c, p, effect, invert) # Fail(db)
    <2> DEFINE strip == strip_av(effect, invert)
               cs == IF c = ALL THEN Classes ELSE {c}
               keys == Expand(db, s, strip) \X Expand(db, t, strip) \X cs \X {effect}
    <2>1. /\ Known(db, {s, t}) /\ c \in Classes \cup {ALL} /\ (p = ALL \/ p \in Perms)
          /\ add_rule(db, s, t, c, p, effect, invert).db = add_rule_raw(db, keys, p, invert)
        BY <1>2 DEF add_rule, Ok
    <2>2. cs \subseteq Classes
        BY <2>1
    <2>3. keys \subseteq AvKeys(db)
        BY <2>1, <2>2, Expands DEF AvKeys
    <2>4. \A k \in keys : k[4] = effect
        OBVIOUS
    <2> HIDE DEF keys
    <2> QED
        BY <2>1, <2>3, <2>4, AddRuleRaw
<1> QED
    BY <1>1, <1>2

LEMMA AddXpermRule ==
    ASSUME NEW db, GoodDb(db), NEW s, NEW t, NEW c, NEW range, NEW effect
    PROVE  LET e == add_xperm_rule(db, s, t, c, range, effect).db
           IN  GoodDb(e) /\ Grows(db, e) /\ Allows(db, e)
<1>1. CASE add_xperm_rule(db, s, t, c, range, effect) = Fail(db)
    BY <1>1, GrowsSame DEF Fail
<1>2. CASE add_xperm_rule(db, s, t, c, range, effect) # Fail(db)
    <2> DEFINE e == add_xperm_rule(db, s, t, c, range, effect).db
    <2>1. \E keys, low, high : e = add_xperm_rule_raw(db, keys, low, high, effect)
        BY <1>2 DEF add_xperm_rule, Ok
    <2>2. PICK keys, low, high : e = add_xperm_rule_raw(db, keys, low, high, effect)
        BY <2>1
    <2>3. \E new, set : new \cap DOMAIN db.xp = {} /\ e = [db EXCEPT !.xp = Put(db.xp, new, set)]
        BY <2>2 DEF add_xperm_rule_raw
    <2>4. PICK new, set : new \cap DOMAIN db.xp = {} /\ e = [db EXCEPT !.xp = Put(db.xp, new, set)]
        BY <2>3
    <2> HIDE DEF e
    <2>5. /\ DOMAIN e = DbFields /\ e.av = db.av /\ e.types = db.types /\ e.has = db.has /\ e.bounds = db.bounds
          /\ e.xp = Put(db.xp, new, set) /\ e.cons = db.cons
        BY <2>4 DEF GoodDb, DbFields
    <2>6. DOMAIN db.xp \subseteq DOMAIN e.xp /\ \A k \in DOMAIN db.xp : e.xp[k] = db.xp[k]
        BY <2>4, <2>5 DEF Put
    <2>7. GoodDb(e) /\ Grows(db, e) /\ Allows(db, e)
        BY <2>5, <2>6 DEF GoodDb, Grows, AvKeys, Allows
    <2> QED
        BY <2>7 DEF e
<1> QED
    BY <1>1, <1>2

LEMMA AddTypeRule ==
    ASSUME NEW db, GoodDb(db), NEW s, NEW t, NEW c, NEW d, NEW effect
    PROVE  LET e == add_type_rule(db, s, t, c, d, effect).db
           IN  GoodDb(e) /\ Grows(db, e) /\ Allows(db, e) /\ e.xp = db.xp
<1>1. CASE add_type_rule(db, s, t, c, d, effect) = Fail(db)
    BY <1>1, GrowsSame DEF Fail
<1>2. CASE add_type_rule(db, s, t, c, d, effect) # Fail(db)
    <2> DEFINE e == add_type_rule(db, s, t, c, d, effect).db
    <2>1. \E x : e = [db EXCEPT !.tr = x]
        BY <1>2 DEF add_type_rule, Ok
    <2>2. PICK x : e = [db EXCEPT !.tr = x]
        BY <2>1
    <2> HIDE DEF e
    <2>3. /\ DOMAIN e = DbFields /\ e.av = db.av /\ e.types = db.types /\ e.has = db.has /\ e.bounds = db.bounds
          /\ e.xp = db.xp /\ e.cons = db.cons
        BY <2>2 DEF GoodDb, DbFields
    <2>4. GoodDb(e) /\ Grows(db, e) /\ Allows(db, e)
        BY <2>3, OtherChanges
    <2> QED
        BY <2>3, <2>4 DEF e
<1> QED
    BY <1>1, <1>2

LEMMA AddFilenameTrans ==
    ASSUME NEW db, GoodDb(db), NEW s, NEW t, NEW c, NEW d, NEW o
    PROVE  LET e == add_filename_trans(db, s, t, c, d, o).db
           IN  GoodDb(e) /\ Grows(db, e) /\ Allows(db, e) /\ e.xp = db.xp
<1> DEFINE e == add_filename_trans(db, s, t, c, d, o).db
<1>1. e = db \/ \E x : e = [db EXCEPT !.ft = x]
    <2> DEFINE k == <<t, c, o>>
               list == IF k \in DOMAIN db.ft THEN db.ft[k] ELSE <<>>
               stops == {i \in DOMAIN list : s \in list[i].stypes \/ list[i].otype = d}
               i == CHOOSE j \in stops : \A l \in stops : j <= l
               datum == IF s \in list[i].stypes THEN [list[i] EXCEPT !.otype = d]
                        ELSE [list[i] EXCEPT !.stypes = @ \cup {s}]
    <2>1. \/ add_filename_trans(db, s, t, c, d, o) = Fail(db)
          \/ add_filename_trans(db, s, t, c, d, o) = Ok([db EXCEPT !.ft[k][i] = datum])
          \/ add_filename_trans(db, s, t, c, d, o) = Ok([db EXCEPT !.ft = Put(db.ft, {k}, <<[stypes |-> {s}, otype |-> d]>>)])
        BY DEF add_filename_trans
    <2>2. [db EXCEPT !.ft[k][i] = datum] = [db EXCEPT !.ft = [db.ft EXCEPT ![k] = [db.ft[k] EXCEPT ![i] = datum]]]
        <3> HIDE DEF k, i, datum
        <3> QED
            OBVIOUS
    <2> DEFINE x == [db.ft EXCEPT ![k] = [db.ft[k] EXCEPT ![i] = datum]]
               y == Put(db.ft, {k}, <<[stypes |-> {s}, otype |-> d]>>)
    <2>3. e = db \/ e = [db EXCEPT !.ft[k][i] = datum] \/ e = [db EXCEPT !.ft = y]
        <3> HIDE DEF k, i, datum, list, stops
        <3> QED
            BY <2>1 DEF Ok, Fail
    <2>4. e = db \/ e = [db EXCEPT !.ft = x] \/ e = [db EXCEPT !.ft = y]
        BY <2>2, <2>3
    <2> HIDE DEF e, x, y
    <2> QED
        BY <2>4
<1>2. CASE e = db
    BY <1>2, GrowsSame
<1>3. ASSUME NEW x, e = [db EXCEPT !.ft = x]
      PROVE  GoodDb(e) /\ Grows(db, e) /\ Allows(db, e) /\ e.xp = db.xp
    <2> HIDE DEF e
    <2>1. /\ DOMAIN e = DbFields /\ e.av = db.av /\ e.types = db.types /\ e.has = db.has /\ e.bounds = db.bounds
          /\ e.xp = db.xp /\ e.cons = db.cons
        BY <1>3 DEF GoodDb, DbFields
    <2> QED
        BY <2>1, OtherChanges
<1> QED
    BY <1>1, <1>2, <1>3

\* add_type() makes a type, or finds that it is there.
LEMMA AddType ==
    ASSUME NEW db, GoodDb(db), NEW name, NEW attr
    PROVE  LET e == add_type(db, name, attr).db
           IN  /\ GoodDb(e) /\ Grows(db, e) /\ Allows(db, e) /\ e.xp = db.xp
               /\ name \notin DOMAIN db.types =>
                     name \in DOMAIN e.types /\ e.types[name] = attr /\ <<name, name>> \in e.has
<1>1. CASE name \in DOMAIN db.types
    BY <1>1, GrowsSame DEF add_type, Ok
<1>2. CASE name \notin DOMAIN db.types
    <2> DEFINE e == add_type(db, name, attr).db
               roles == [r \in DOMAIN db.roles |-> db.roles[r] \cup {name}]
    <2>1. e = [db EXCEPT !.types = Put(db.types, {name}, attr), !.has = db.has \cup {<<name, name>>}, !.roles = roles]
        BY <1>2 DEF add_type, Ok, GoodDb, DbFields
    <2> HIDE DEF e, roles
    <2>2. /\ DOMAIN e = DbFields /\ e.av = db.av /\ e.types = Put(db.types, {name}, attr)
          /\ e.has = db.has \cup {<<name, name>>} /\ e.bounds = db.bounds
          /\ e.xp = db.xp /\ e.cons = db.cons
        BY <2>1 DEF GoodDb, DbFields
    <2>3. /\ DOMAIN e.types = DOMAIN db.types \cup {name} /\ e.types[name] = attr
          /\ \A n \in DOMAIN db.types : e.types[n] = db.types[n]
        BY <1>2, <2>2 DEF Put
    <2>4. GoodDb(e) /\ Grows(db, e) /\ Allows(db, e)
        BY <2>2, <2>3 DEF GoodDb, Grows, AvKeys, Allows
    <2> QED
        BY <1>2, <2>2, <2>3, <2>4 DEF e
<1> QED
    BY <1>1, <1>2

LEMMA SetTypeState ==
    ASSUME NEW db, GoodDb(db), NEW name, NEW permissive
    PROVE  LET e == set_type_state(db, name, permissive).db
           IN  GoodDb(e) /\ Grows(db, e) /\ Allows(db, e) /\ e.xp = db.xp
<1> DEFINE e == set_type_state(db, name, permissive).db
<1>1. e = db \/ \E x : e = [db EXCEPT !.permissive = x]
    BY DEF set_type_state, Ok, Fail
<1>2. CASE e = db
    BY <1>2, GrowsSame
<1>3. ASSUME NEW x, e = [db EXCEPT !.permissive = x]
      PROVE  GoodDb(e) /\ Grows(db, e) /\ Allows(db, e) /\ e.xp = db.xp
    <2> HIDE DEF e
    <2>1. /\ DOMAIN e = DbFields /\ e.av = db.av /\ e.types = db.types /\ e.has = db.has /\ e.bounds = db.bounds
          /\ e.xp = db.xp /\ e.cons = db.cons
        BY <1>3 DEF GoodDb, DbFields
    <2> QED
        BY <2>1, OtherChanges
<1> QED
    BY <1>1, <1>2, <1>3

\* Types that constraints name because of an attribute are exempt from them.
Exempt(db, type, attr) ==
    \A c \in Classes : \A i \in DOMAIN db.cons[c] : \A j \in DOMAIN db.cons[c][i].expr :
        PassesWith(db.cons[c][i].expr[j], attr) => type \in db.cons[c][i].expr[j].names

LEMMA ExemptStays ==
    ASSUME NEW a, NEW b, Grows(a, b), NEW type, NEW attr, Exempt(a, type, attr)
    PROVE  Exempt(b, type, attr)
<1> SUFFICES ASSUME NEW c \in Classes, NEW i \in DOMAIN b.cons[c], NEW j \in DOMAIN b.cons[c][i].expr,
                    PassesWith(b.cons[c][i].expr[j], attr)
             PROVE  type \in b.cons[c][i].expr[j].names
    BY DEF Exempt
<1>1. ListGrows(a.cons[c], b.cons[c])
    BY DEF Grows, ConsGrow
<1>2. i \in DOMAIN a.cons[c] /\ ConGrows(a.cons[c][i], b.cons[c][i])
    BY <1>1 DEF ListGrows
<1>3. j \in DOMAIN a.cons[c][i].expr /\ NodeGrows(a.cons[c][i].expr[j], b.cons[c][i].expr[j])
    BY <1>2 DEF ConGrows
<1>4. PassesWith(a.cons[c][i].expr[j], attr)
    BY <1>3 DEF NodeGrows, PassesWith
<1>5. type \in a.cons[c][i].expr[j].names
    BY <1>2, <1>3, <1>4 DEF Exempt
<1> QED
    BY <1>3, <1>4, <1>5 DEF NodeGrows, PassesWith

Named(e, type, attr) ==
    IF e.op = "names" /\ attr \in e.type_names THEN [e EXCEPT !.names = @ \cup {type}] ELSE e

LEMMA NamedGrows ==
    ASSUME NEW e, NodeGrows(e, e), NEW type, NEW attr
    PROVE  /\ NodeGrows(e, Named(e, type, attr))
           /\ NodeGrows(Named(e, type, attr), Named(e, type, attr))
           /\ PassesWith(Named(e, type, attr), attr) => type \in Named(e, type, attr).names
<1>1. CASE e.op = "names" /\ attr \in e.type_names
    <2> DEFINE f == Named(e, type, attr)
    <2>1. f = [e EXCEPT !.names = e.names \cup {type}]
        BY <1>1 DEF Named
    <2>2. {"op", "target", "cmp", "names", "type_names"} \subseteq DOMAIN e
        BY <1>1 DEF NodeGrows
    <2> HIDE DEF f
    <2>3. /\ DOMAIN f = DOMAIN e /\ f.names = e.names \cup {type} /\ f.op = e.op /\ f.target = e.target
          /\ f.cmp = e.cmp /\ f.type_names = e.type_names
        BY <2>1, <2>2
    <2>4. NodeGrows(e, f) /\ NodeGrows(f, f) /\ type \in f.names
        BY <2>2, <2>3 DEF NodeGrows
    <2> QED
        BY <2>4 DEF f
<1>2. CASE ~(e.op = "names" /\ attr \in e.type_names)
    <2>1. Named(e, type, attr) = e
        BY <1>2 DEF Named
    <2> QED
        BY <1>2, <2>1 DEF PassesWith
<1> QED
    BY <1>1, <1>2

LEMMA AddTypeattributeRaw ==
    ASSUME NEW db, GoodDb(db), NEW type, NEW attr
    PROVE  LET e == add_typeattribute_raw(db, type, attr)
           IN  GoodDb(e) /\ Grows(db, e) /\ Allows(db, e) /\ e.xp = db.xp /\ Exempt(e, type, attr)
<1> DEFINE Con(con) == [con EXCEPT !.expr = [i \in DOMAIN con.expr |-> Named(con.expr[i], type, attr)]]
           has == db.has \cup {<<type, attr>>}
           cons == [c \in DOMAIN db.cons |-> [i \in DOMAIN db.cons[c] |-> Con(db.cons[c][i])]]
           e == add_typeattribute_raw(db, type, attr)
<1>1. e = [db EXCEPT !.has = has, !.cons = cons]
    BY DEF add_typeattribute_raw, Named, GoodDb, DbFields
<1> HIDE DEF e, has, cons
<1>2. /\ DOMAIN e = DbFields /\ e.av = db.av /\ e.types = db.types /\ e.has = has /\ e.bounds = db.bounds
      /\ e.xp = db.xp /\ e.cons = cons
    BY <1>1 DEF GoodDb, DbFields
<1>3. DOMAIN db.cons = Classes
    BY DEF GoodDb, ConsGrow
<1>4. ASSUME NEW c \in Classes, NEW i \in DOMAIN db.cons[c]
      PROVE  LET x == db.cons[c][i]  y == cons[c][i]
             IN  /\ ConGrows(x, x) /\ DOMAIN y = DOMAIN x /\ DOMAIN y.expr = DOMAIN x.expr
                 /\ \A j \in DOMAIN x.expr : y.expr[j] = Named(x.expr[j], type, attr)
    <2> DEFINE x == db.cons[c][i]  y == cons[c][i]
    <2>1. ConGrows(x, x)
        BY DEF GoodDb, ConsGrow, ListGrows
    <2>2. y = Con(x)
        BY <1>3 DEF cons
    <2> HIDE DEF x, y
    <2>3. "expr" \in DOMAIN x
        BY <2>1 DEF ConGrows
    <2>4. DOMAIN y = DOMAIN x /\ y.expr = [j \in DOMAIN x.expr |-> Named(x.expr[j], type, attr)]
        BY <2>2, <2>3
    <2>5. DOMAIN y.expr = DOMAIN x.expr /\ \A j \in DOMAIN x.expr : y.expr[j] = Named(x.expr[j], type, attr)
        BY <2>4
    <2> QED
        BY <2>1, <2>4, <2>5 DEF x, y
<1>5. DOMAIN cons = Classes /\ \A c \in Classes : DOMAIN cons[c] = DOMAIN db.cons[c]
    BY <1>3 DEF cons
<1>6. ASSUME NEW c \in Classes, NEW i \in DOMAIN db.cons[c]
      PROVE  /\ ConGrows(db.cons[c][i], cons[c][i]) /\ ConGrows(cons[c][i], cons[c][i])
             /\ \A j \in DOMAIN cons[c][i].expr : PassesWith(cons[c][i].expr[j], attr) => type \in cons[c][i].expr[j].names
    <2> DEFINE x == db.cons[c][i]  y == cons[c][i]
    <2>1. /\ ConGrows(x, x) /\ DOMAIN y = DOMAIN x /\ DOMAIN y.expr = DOMAIN x.expr
          /\ \A j \in DOMAIN x.expr : y.expr[j] = Named(x.expr[j], type, attr)
        BY <1>4
    <2> HIDE DEF x, y
    <2>2. \A j \in DOMAIN x.expr : NodeGrows(x.expr[j], x.expr[j])
        BY <2>1 DEF ConGrows
    <2>3. \A j \in DOMAIN x.expr :
             /\ NodeGrows(x.expr[j], y.expr[j]) /\ NodeGrows(y.expr[j], y.expr[j])
             /\ PassesWith(y.expr[j], attr) => type \in y.expr[j].names
        BY <2>1, <2>2, NamedGrows
    <2>4. ConGrows(x, y) /\ ConGrows(y, y)
        BY <2>1, <2>3 DEF ConGrows
    <2>5. \A j \in DOMAIN y.expr : PassesWith(y.expr[j], attr) => type \in y.expr[j].names
        BY <2>1, <2>3
    <2> QED
        BY <2>4, <2>5 DEF x, y
<1>7. ConsGrow(db.cons, cons) /\ ConsGrow(cons, cons)
    BY <1>5, <1>6 DEF ConsGrow, ListGrows
<1>8. Exempt(e, type, attr)
    BY <1>2, <1>5, <1>6 DEF Exempt
<1>9. GoodDb(e) /\ Grows(db, e) /\ Allows(db, e)
    BY <1>2, <1>7 DEF GoodDb, Grows, AvKeys, Allows, has
<1> QED
    BY <1>2, <1>8, <1>9 DEF e

LEMMA AddTypeattribute ==
    ASSUME NEW db, GoodDb(db), NEW type, NEW attr
    PROVE  LET e == add_typeattribute(db, type, attr).db
           IN  /\ GoodDb(e) /\ Grows(db, e) /\ Allows(db, e) /\ e.xp = db.xp
               /\ {type, attr} \subseteq DOMAIN db.types /\ db.types[type] = FALSE /\ db.types[attr] = TRUE
                  => Exempt(e, type, attr)
<1> DEFINE r == add_typeattribute(db, type, attr)
<1>1. r = Fail(db) \/ r = Ok(add_typeattribute_raw(db, type, attr))
    BY DEF add_typeattribute
<1>2. {type, attr} \subseteq DOMAIN db.types /\ db.types[type] = FALSE /\ db.types[attr] = TRUE
      => r = Ok(add_typeattribute_raw(db, type, attr))
    BY DEF add_typeattribute, Known
<1>3. CASE r = Ok(add_typeattribute_raw(db, type, attr))
    <2>1. r.db = add_typeattribute_raw(db, type, attr)
        BY <1>3 DEF Ok
    <2> HIDE DEF r
    <2>2. LET e == r.db IN GoodDb(e) /\ Grows(db, e) /\ Allows(db, e) /\ e.xp = db.xp /\ Exempt(e, type, attr)
        BY <2>1, AddTypeattributeRaw
    <2> QED
        BY <2>2 DEF r
<1>4. CASE r = Fail(db) /\ r # Ok(add_typeattribute_raw(db, type, attr))
    <2>1. r.db = db
        BY <1>4 DEF Fail
    <2>2. ~({type, attr} \subseteq DOMAIN db.types /\ db.types[type] = FALSE /\ db.types[attr] = TRUE)
        BY <1>2, <1>4
    <2> HIDE DEF r
    <2>3. LET e == r.db IN GoodDb(e) /\ Grows(db, e) /\ Allows(db, e) /\ e.xp = db.xp
        BY <2>1, GrowsSame
    <2> QED
        BY <2>2, <2>3 DEF r
<1> QED
    BY <1>1, <1>3, <1>4

LEMMA KsuType ==
    ASSUME NEW db, GoodDb(db), NEW name, NEW attr
    PROVE  LET e == ksu_type(db, name, attr).db
           IN  /\ GoodDb(e) /\ Grows(db, e) /\ Allows(db, e) /\ e.xp = db.xp
               /\ name \notin DOMAIN db.types =>
                     name \in DOMAIN e.types /\ e.types[name] = FALSE /\ <<name, name>> \in e.has
<1> DEFINE d == add_type(db, name, FALSE).db
           e == ksu_type(db, name, attr).db
<1>1. /\ GoodDb(d) /\ Grows(db, d) /\ Allows(db, d) /\ d.xp = db.xp
      /\ name \notin DOMAIN db.types => name \in DOMAIN d.types /\ d.types[name] = FALSE /\ <<name, name>> \in d.has
    BY AddType
<1>2. e = add_typeattribute(d, name, attr).db
    BY DEF ksu_type
<1> HIDE DEF d, e
<1>3. GoodDb(e) /\ Grows(d, e) /\ Allows(d, e) /\ e.xp = d.xp
    BY <1>1, <1>2, AddTypeattribute
<1>4. GoodDb(e) /\ Grows(db, e) /\ Allows(db, e) /\ e.xp = db.xp
    BY <1>1, <1>3, GrowsOn, AllowsOn
<1>5. name \notin DOMAIN db.types => name \in DOMAIN e.types /\ e.types[name] = FALSE /\ <<name, name>> \in e.has
    BY <1>1, <1>3 DEF Grows
<1> QED
    BY <1>4, <1>5 DEF e

\* What one command leaves of a database.
Leaves(db, e, gently, nox) ==
    GoodDb(e) /\ Grows(db, e) /\ (gently => Allows(db, e)) /\ (nox => e.xp = db.xp)

LEMMA TypesLeave ==
    ASSUME NEW db, GoodDb(db), NEW x, NEW y
    PROVE  /\ Leaves(db, ksu_type(db, x, y).db, TRUE, TRUE)
           /\ Leaves(db, add_typeattribute(db, x, y).db, TRUE, TRUE)
           /\ Leaves(db, add_type(db, x, y).db, TRUE, TRUE)
<1>1. Leaves(db, ksu_type(db, x, y).db, TRUE, TRUE)
    BY KsuType DEF Leaves
<1>2. Leaves(db, add_typeattribute(db, x, y).db, TRUE, TRUE)
    BY AddTypeattribute DEF Leaves
<1>3. Leaves(db, add_type(db, x, y).db, TRUE, TRUE)
    <2> DEFINE e == add_type(db, x, y).db
    <2>1. /\ GoodDb(e) /\ Grows(db, e) /\ Allows(db, e) /\ e.xp = db.xp
          /\ x \notin DOMAIN db.types =>
                x \in DOMAIN e.types /\ e.types[x] = y /\ <<x, x>> \in e.has
        BY AddType, Zenon
    <2> HIDE DEF e
    <2> QED
        BY <2>1 DEF Leaves, e
<1> QED
    BY <1>1, <1>2, <1>3

LEMMA OneCommand ==
    ASSUME NEW db, GoodDb(db), NEW cmd, NEW sub, NEW a
    PROVE  Leaves(db, apply_one_sepolicy_cmd(db, cmd, sub, a).db, sub # "deny", cmd # "xperm")
<1> DEFINE r == apply_one_sepolicy_cmd(db, cmd, sub, a)
           Is(e) == Leaves(db, e, sub # "deny", cmd # "xperm")
<1> SUFFICES Is(r.db)
    OBVIOUS
<1>0. Is(db)
    BY GrowsSame DEF Leaves
<1>1. CASE cmd = "perm" /\ sub \in {"allow", "deny", "auditallow", "dontaudit"}
    <2>1. \E effect \in Effects, invert \in BOOLEAN :
             /\ r = add_rule(db, a[1], a[2], a[3], a[4], effect, invert)
             /\ sub # "deny" => (invert => effect = "auditdeny")
        BY <1>1 DEF apply_one_sepolicy_cmd, Effects
    <2> HIDE DEF r
    <2> QED
        BY <2>1, AddRule DEF Leaves
<1>2. CASE cmd = "xperm"
    <2>1. r = Fail(db) \/ r = add_xperm_rule(db, a[1], a[2], a[3], a[5], sub)
        BY <1>2 DEF apply_one_sepolicy_cmd
    <2> HIDE DEF r
    <2> QED
        BY <1>0, <1>2, <2>1, AddXpermRule DEF Leaves, Fail
<1>3. CASE cmd = "state"
    <2>1. r = Fail(db) \/ r = set_type_state(db, a[1], sub = "permissive")
        BY <1>3 DEF apply_one_sepolicy_cmd
    <2> HIDE DEF r
    <2> QED
        BY <1>0, <2>1, SetTypeState DEF Leaves, Fail
<1>4. CASE cmd = "type"
    <2>1. r = Fail(db) \/ r = ksu_type(db, a[1], a[2])
        BY <1>4 DEF apply_one_sepolicy_cmd
    <2> HIDE DEF r
    <2> QED
        BY <1>0, <2>1, TypesLeave DEF Leaves, Fail
<1>5. CASE cmd = "typeattr"
    <2>1. r = Fail(db) \/ r = add_typeattribute(db, a[1], a[2])
        BY <1>5 DEF apply_one_sepolicy_cmd
    <2> HIDE DEF r
    <2> QED
        BY <1>0, <2>1, TypesLeave DEF Leaves, Fail
<1>6. CASE cmd = "attr"
    <2>1. r = Fail(db) \/ r = add_type(db, a[1], TRUE)
        BY <1>6 DEF apply_one_sepolicy_cmd
    <2>2. Leaves(db, add_type(db, a[1], TRUE).db, TRUE, TRUE)
        BY TypesLeave
    <2>3. Fail(db).db = db
        BY DEF Fail
    <2>4. CASE r = Fail(db)
        BY <1>0, <2>3, <2>4
    <2>5. CASE r = add_type(db, a[1], TRUE)
        <3> HIDE DEF r
        <3> QED
            BY <2>2, <2>5 DEF Leaves
    <2> QED
        BY <2>1, <2>4, <2>5
<1>7. CASE cmd = "transition"
    <2>1. \/ r = Fail(db) \/ r = add_filename_trans(db, a[1], a[2], a[3], a[4], a[5])
          \/ r = add_type_rule(db, a[1], a[2], a[3], a[4], "transition")
        BY <1>7 DEF apply_one_sepolicy_cmd
    <2> HIDE DEF r
    <2> QED
        BY <1>0, <2>1, AddFilenameTrans, AddTypeRule DEF Leaves, Fail
<1>8. CASE cmd = "change"
    <2>1. r = Fail(db) \/ r = add_type_rule(db, a[1], a[2], a[3], a[4], sub)
        BY <1>8 DEF apply_one_sepolicy_cmd
    <2> HIDE DEF r
    <2> QED
        BY <1>0, <2>1, AddTypeRule DEF Leaves, Fail
<1>9. CASE /\ ~(cmd = "perm" /\ sub \in {"allow", "deny", "auditallow", "dontaudit"})
           /\ cmd \notin {"xperm", "state", "type", "typeattr", "attr", "transition", "change"}
    <2>1. r = Fail(db)
        BY <1>9 DEF apply_one_sepolicy_cmd
    <2> HIDE DEF r
    <2> QED
        BY <1>0, <2>1 DEF Fail
<1> QED
    BY <1>1, <1>2, <1>3, <1>4, <1>5, <1>6, <1>7, <1>8, <1>9

-----------------------------------------------------------------------------
(* Batches. *)

LEMMA StringIs ==
    ASSUME NEW S, NEW pay \in Seq(S), NEW i \in Nat
    PROVE  /\ StringAt(pay, i).next \in Nat
           /\ StringAt(pay, i).next # 0 => StringAt(pay, i).text \in S \cup {ALL}
<1>1. CASE Word(pay, i) = "0" /\ Word(pay, i + 1) = "NUL"
    BY <1>1 DEF StringAt
<1>2. CASE Word(pay, i) = "1" /\ Word(pay, i + 1) # "NUL" /\ Word(pay, i + 2) = "NUL"
    <2>1. i + 2 <= Len(pay)
        BY <1>2 DEF Word, None
    <2>2. Len(pay) \in Nat
        BY LenProperties
    <2>3. i + 1 \in 1 .. Len(pay)
        BY <2>1, <2>2
    <2>4. pay[i + 1] \in S
        BY <2>3, ElementOfSeq
    <2>5. StringAt(pay, i) = [text |-> pay[i + 1], next |-> i + 3]
        BY <1>2 DEF StringAt
    <2> QED
        BY <2>4, <2>5
<1>3. CASE /\ ~(Word(pay, i) = "0" /\ Word(pay, i + 1) = "NUL")
           /\ ~(Word(pay, i) = "1" /\ Word(pay, i + 1) # "NUL" /\ Word(pay, i + 2) = "NUL")
    BY <1>3 DEF StringAt
<1> QED
    BY <1>1, <1>2, <1>3

LEMMA ArgsEnd ==
    ASSUME NEW S, NEW pay \in Seq(S), NEW i \in Nat, NEW argc \in Nat
    PROVE  ArgsAt(pay, i, argc).next \in Nat
<1> DEFINE T == [args : Seq(S \cup {ALL}), next : Nat]
           base == [args |-> <<>>, next |-> i]
           End == [args |-> <<>>, next |-> 0]
           After(before) ==
               LET str == StringAt(pay, before.next)
               IN  IF before.next = 0 \/ str.next = 0 THEN [args |-> <<>>, next |-> 0]
                   ELSE [args |-> Append(before.args, str.text), next |-> str.next]
           step == [p \in (1 .. argc) \X T |-> After(p[2])]
           Rec(f) == f = [n \in 0 .. argc |-> IF n = 0 THEN base ELSE After(f[n - 1])]
           read == CHOOSE f : Rec(f)
<1>1. base \in T /\ End \in T
    OBVIOUS
<1>2. ASSUME NEW b \in T PROVE After(b) \in T
    <2>1. CASE b.next = 0 \/ StringAt(pay, b.next).next = 0
        BY <1>1, <2>1
    <2>2. CASE ~(b.next = 0 \/ StringAt(pay, b.next).next = 0)
        <3>1. StringAt(pay, b.next).next \in Nat /\ StringAt(pay, b.next).text \in S \cup {ALL}
            BY <2>2, StringIs
        <3>2. Append(b.args, StringAt(pay, b.next).text) \in Seq(S \cup {ALL})
            BY <3>1, AppendProperties
        <3> QED
            BY <2>2, <3>1, <3>2
    <2> QED
        BY <2>1, <2>2
<1> HIDE DEF T, base, After
<1>3. step \in [(1 .. argc) \X T -> T]
    BY <1>2
<1>4. \E f : Solution(f, argc, T, base, step)
    <2> HIDE DEF step
    <2> QED
        BY <1>1, <1>3, RecursionTo
<1>5. PICK f : Solution(f, argc, T, base, step)
    BY <1>4
<1>6. Rec(f)
    <2>1. f \in [0 .. argc -> T] /\ f[0] = base
        BY <1>5 DEF Solution
    <2>2. ASSUME NEW n \in 0 .. argc, n # 0 PROVE f[n] = After(f[n - 1])
        <3>1. n \in 1 .. argc /\ n - 1 \in 0 .. argc
            BY <2>2
        <3>2. f[n - 1] \in T
            BY <2>1, <3>1
        <3> QED
            BY <1>5, <3>1, <3>2 DEF Solution
    <2> QED
        BY <2>1, <2>2
<1>7. Rec(read)
    BY <1>6
<1> DEFINE I == {n \in 0 .. argc : read[n] \in T}
<1> HIDE DEF read
<1>8. 0 \in I
    BY <1>1, <1>7
<1>9. ASSUME NEW n \in 0 .. argc - 1, n \in I PROVE n + 1 \in I
    <2>1. n + 1 \in 0 .. argc /\ n + 1 # 0 /\ n + 1 - 1 = n
        OBVIOUS
    <2>2. read[n + 1] = After(read[n])
        BY <1>7, <2>1
    <2> QED
        BY <1>2, <1>9, <2>1, <2>2
<1>10. argc \in I
    <2> HIDE DEF I
    <2>1. argc \in 0 .. argc
        OBVIOUS
    <2> QED
        BY <1>8, <1>9, <2>1, UpTo
<1>11. ArgsAt(pay, i, argc) = read[argc]
    BY DEF ArgsAt, read, After, base
<1> QED
    BY <1>10, <1>11 DEF T

\* A payload without a "deny".
Gentle(pay) == \A i \in DOMAIN pay : pay[i] # "deny"

TurnInv(pay, db, st) ==
    /\ DOMAIN st = {"db", "next", "count"} /\ st.next \in Nat
    /\ Leaves(db, st.db, Gentle(pay), FALSE)

LEMMA LeavesOn ==
    ASSUME NEW a, NEW b, NEW c, NEW g, NEW n, Leaves(a, b, g, n), Leaves(b, c, g, n)
    PROVE  Leaves(a, c, g, n)
BY GrowsOn, AllowsOn DEF Leaves

LEMMA BatchTurnLeaves ==
    ASSUME NEW S, NEW pay \in Seq(S), NEW db, NEW st, TurnInv(pay, db, st)
    PROVE  TurnInv(pay, db, BatchTurn(pay, st))
<1> DEFINE i == st.next
           cmd == Word(pay, i)
           a == ArgsAt(pay, i + 2, sepol_expected_argc[cmd])
           r == apply_one_sepolicy_cmd(st.db, cmd, pay[i + 1], a.args)
           t == BatchTurn(pay, st)
<1>1. /\ i \in Nat /\ Len(pay) \in Nat
    BY LenProperties DEF TurnInv
<1>2. CASE i = 0 \/ i > Len(pay)
    <2>1. t = st
        BY <1>2 DEF BatchTurn
    <2> HIDE DEF t
    <2> QED
        BY <2>1 DEF t
<1>3. CASE ~(i = 0 \/ i > Len(pay)) /\ (i = Len(pay) \/ cmd \notin DOMAIN sepol_expected_argc \/ a.next = 0)
    <2>1. t = [st EXCEPT !.next = 0]
        BY <1>3 DEF BatchTurn
    <2> HIDE DEF t
    <2>2. DOMAIN t = {"db", "next", "count"} /\ t.next = 0 /\ t.db = st.db
        BY <2>1 DEF TurnInv
    <2>3. Leaves(db, st.db, Gentle(pay), FALSE)
        BY DEF TurnInv
    <2>4. Leaves(db, t.db, Gentle(pay), FALSE)
        BY <2>2, <2>3, Zenon
    <2>5. TurnInv(pay, db, t)
        <3>1. t.next \in Nat
            BY <2>2
        <3> QED
            BY <2>2, <2>4, <3>1, Zenon DEF TurnInv
    <2> QED
        BY <2>5 DEF t
<1>4. CASE ~(i = 0 \/ i > Len(pay)) /\ ~(i = Len(pay) \/ cmd \notin DOMAIN sepol_expected_argc \/ a.next = 0)
    <2>1. t = [db |-> r.db, next |-> a.next, count |-> st.count + (IF r.ok THEN 1 ELSE 0)]
        BY <1>4 DEF BatchTurn
    <2>2. a.next \in Nat
        <3>1. sepol_expected_argc[cmd] \in Nat
            BY <1>4 DEF sepol_expected_argc
        <3>2. i + 2 \in Nat
            BY <1>1
        <3> QED
            BY <3>1, <3>2, ArgsEnd
    <2>3. i + 1 \in 1 .. Len(pay)
        BY <1>1, <1>4
    <2>4. Gentle(pay) => pay[i + 1] # "deny"
        BY <2>3, LenProperties DEF Gentle
    <2>5. Leaves(st.db, r.db, pay[i + 1] # "deny", cmd # "xperm")
        <3>1. GoodDb(st.db)
            BY DEF TurnInv, Leaves
        <3> HIDE DEF i, cmd, a
        <3> QED
            BY <3>1, OneCommand
    <2> HIDE DEF r, a, cmd, i
    <2>6. Leaves(st.db, r.db, Gentle(pay), FALSE)
        BY <2>4, <2>5 DEF Leaves
    <2>7. Leaves(db, r.db, Gentle(pay), FALSE)
        BY <2>6, LeavesOn DEF TurnInv
    <2>8. DOMAIN t = {"db", "next", "count"} /\ t.next = a.next /\ t.db = r.db
        <3> HIDE DEF t
        <3> QED
            BY <2>1
    <2> HIDE DEF t
    <2>9. TurnInv(pay, db, t)
        BY <2>2, <2>7, <2>8 DEF TurnInv
    <2> QED
        BY <2>9 DEF t
<1> QED
    BY <1>2, <1>3, <1>4

LEMMA BatchLeaves ==
    ASSUME NEW S, NEW pay \in Seq(S), NEW db, GoodDb(db)
    PROVE  Leaves(db, RunBatch(pay, db).db, Gentle(pay), FALSE)
<1> DEFINE n == Len(pay)
           start == [db |-> db, next |-> 1, count |-> 0]
           Rec(f, m) == f = [k \in 0 .. m |-> IF k = 0 THEN start ELSE BatchTurn(pay, f[k - 1])]
           turn == CHOOSE f : Rec(f, n)
           I == {m \in 0 .. n : \E f : Rec(f, m)}
<1>1. n \in Nat
    BY LenProperties
<1>2. 0 \in I
    <2> DEFINE f == [k \in 0 .. 0 |-> start]
    <2>1. Rec(f, 0)
        OBVIOUS
    <2>2. 0 \in 0 .. n
        BY <1>1
    <2> HIDE DEF f, start
    <2> QED
        BY <2>1, <2>2
<1>3. ASSUME NEW m \in 0 .. n - 1, m \in I PROVE m + 1 \in I
    <2>1. PICK f : Rec(f, m)
        BY <1>3
    <2> DEFINE g == [k \in 0 .. m + 1 |-> IF k = m + 1 THEN BatchTurn(pay, f[m]) ELSE f[k]]
    <2> HIDE DEF n, start
    <2>2. m \in Nat /\ m + 1 \in 0 .. n
        BY <1>1
    <2>3. ASSUME NEW k \in 0 .. m + 1 PROVE g[k] = IF k = 0 THEN start ELSE BatchTurn(pay, g[k - 1])
        <3>1. CASE k = m + 1
            <4>1. k - 1 = m /\ k # 0 /\ m \in 0 .. m + 1 /\ m # m + 1
                BY <3>1, <2>2
            <4> QED
                BY <3>1, <4>1
        <3>2. CASE k # m + 1
            <4>1. k \in 0 .. m /\ (k # 0 => k - 1 \in 0 .. m + 1 /\ k - 1 # m + 1)
                BY <3>2, <2>2
            <4> QED
                BY <2>1, <3>2, <4>1
        <3> QED
            BY <3>1, <3>2
    <2>4. g = [k \in 0 .. m + 1 |-> g[k]]
        OBVIOUS
    <2>5. Rec(g, m + 1)
        BY <2>3, <2>4
    <2> HIDE DEF g
    <2> QED
        BY <2>2, <2>5
<1>4. n \in I
    <2> HIDE DEF I, n
    <2>1. n \in 0 .. n
        BY <1>1
    <2> QED
        BY <1>1, <1>2, <1>3, <2>1, UpTo
<1>5. Rec(turn, n)
    BY <1>4
<1>5a. \A k \in 0 .. n : turn[k] = IF k = 0 THEN start ELSE BatchTurn(pay, turn[k - 1])
    <2> HIDE DEF turn, n, start
    <2> QED
        BY <1>5
<1>6. RunBatch(pay, db) = turn[n]
    BY DEF RunBatch
<1> DEFINE J == {m \in 0 .. n : TurnInv(pay, db, turn[m])}
<1> HIDE DEF turn
<1>7. 0 \in J
    <2>1. turn[0] = start /\ 0 \in 0 .. n
        BY <1>1, <1>5
    <2>2. DOMAIN start = {"db", "next", "count"} /\ start.next = 1 /\ start.db = db
        OBVIOUS
    <2> HIDE DEF start, n
    <2>3. TurnInv(pay, db, start)
        BY <2>2, GrowsSame DEF TurnInv, Leaves
    <2> QED
        BY <2>1, <2>3
<1>8. ASSUME NEW m \in 0 .. n - 1, m \in J PROVE m + 1 \in J
    <2> HIDE DEF n, start
    <2>1. m + 1 \in 0 .. n /\ m + 1 # 0 /\ m + 1 - 1 = m
        BY <1>1
    <2>2. turn[m + 1] = BatchTurn(pay, turn[m])
        BY <1>5a, <2>1
    <2> QED
        BY <1>8, <2>1, <2>2, BatchTurnLeaves
<1>9. n \in J
    <2> HIDE DEF J, n
    <2>1. n \in 0 .. n
        BY <1>1
    <2> QED
        BY <1>1, <1>7, <1>8, <2>1, UpTo
<1> QED
    BY <1>6, <1>9 DEF TurnInv

-----------------------------------------------------------------------------
(* The rules of the module. *)

LEMMA GoodBoot == GoodDb(Boot)
<1>1. ASSUME NEW c \in Classes, NEW i \in DOMAIN Boot.cons[c]
      PROVE  ConGrows(Boot.cons[c][i], Boot.cons[c][i])
    <2>1. Boot.cons[c][i] \in Range(Boot.cons[c])
        BY DEF Range
    <2> QED
        BY <2>1, BootAssumption DEF ConGrows, NodeGrows
<1>2. DOMAIN Boot.cons = Classes
    BY BootAssumption
<1>3. ConsGrow(Boot.cons, Boot.cons)
    BY <1>1, <1>2 DEF ConsGrow, ListGrows
<1> QED
    BY <1>3, BootAssumption DEF GoodDb, DbFields, AvKeys, Effects

\* They are applied one after the other.
Chain(d, db) ==
    /\ d[0] = db /\ d[9] = WithKernelsuRules(db)
    /\ \A k \in 1 .. 9 : d[k] = ApplyRule(d[k - 1], KernelsuRules[k])

LEMMA RuleByRule ==
    ASSUME NEW db
    PROVE  \E d : Chain(d, db)
<1> DEFINE Rec(f, m) == f = [k \in 0 .. m |-> IF k = 0 THEN db ELSE ApplyRule(f[k - 1], KernelsuRules[k])]
           after == CHOOSE f : Rec(f, 9)
           I == {m \in 0 .. 9 : \E f : Rec(f, m)}
<1>1. Len(KernelsuRules) = 9
    BY DEF KernelsuRules
<1>2. 0 \in I
    <2> DEFINE f == [k \in 0 .. 0 |-> db]
    <2>1. Rec(f, 0)
        OBVIOUS
    <2>2. 0 \in 0 .. 9
        OBVIOUS
    <2> HIDE DEF f
    <2> QED
        BY <2>1, <2>2
<1>3. ASSUME NEW m \in 0 .. 9 - 1, m \in I PROVE m + 1 \in I
    <2>1. PICK f : Rec(f, m)
        BY <1>3
    <2> DEFINE g == [k \in 0 .. m + 1 |-> IF k = m + 1 THEN ApplyRule(f[m], KernelsuRules[m + 1]) ELSE f[k]]
    <2>2. m \in Nat /\ m + 1 \in 0 .. 9
        OBVIOUS
    <2>3. ASSUME NEW k \in 0 .. m + 1 PROVE g[k] = IF k = 0 THEN db ELSE ApplyRule(g[k - 1], KernelsuRules[k])
        <3>1. CASE k = m + 1
            <4>1. k - 1 = m /\ k # 0 /\ m \in 0 .. m + 1 /\ m # m + 1
                BY <3>1, <2>2
            <4> QED
                BY <3>1, <4>1
        <3>2. CASE k # m + 1
            <4>1. k \in 0 .. m /\ (k # 0 => k - 1 \in 0 .. m + 1 /\ k - 1 # m + 1)
                BY <3>2, <2>2
            <4> QED
                BY <2>1, <3>2, <4>1
        <3> QED
            BY <3>1, <3>2
    <2>4. g = [k \in 0 .. m + 1 |-> g[k]]
        OBVIOUS
    <2>5. Rec(g, m + 1)
        BY <2>3, <2>4
    <2> HIDE DEF g
    <2> QED
        BY <2>2, <2>5
<1>4. 9 \in I
    <2> HIDE DEF I
    <2>1. 9 \in Nat /\ 9 \in 0 .. 9
        OBVIOUS
    <2> QED
        BY <1>2, <1>3, <2>1, UpTo
<1>5. Rec(after, 9)
    BY <1>4
<1>6. WithKernelsuRules(db) = after[9]
    BY <1>1 DEF WithKernelsuRules
<1> HIDE DEF after
<1>7. after[0] = db /\ \A k \in 1 .. 9 : after[k] = ApplyRule(after[k - 1], KernelsuRules[k])
    BY <1>5
<1> QED
    BY <1>6, <1>7 DEF Chain

LEMMA RuleLeaves ==
    ASSUME NEW db, GoodDb(db), NEW rule, rule[2] # "deny"
    PROVE  Leaves(db, ApplyRule(db, rule), TRUE, rule[1] # "xperm")
<1>1. CASE rule[1] = "xperm"
    BY <1>1, AddXpermRule DEF ApplyRule, Leaves
<1>2. CASE rule[1] # "xperm"
    <2>1. ApplyRule(db, rule) = apply_one_sepolicy_cmd(db, rule[1], rule[2], rule[3]).db
        BY <1>2 DEF ApplyRule
    <2>2. Leaves(db, apply_one_sepolicy_cmd(db, rule[1], rule[2], rule[3]).db, rule[2] # "deny", rule[1] # "xperm")
        BY OneCommand
    <2> QED
        BY <2>1, <2>2 DEF Leaves
<1> QED
    BY <1>1, <1>2

\* "allow all" to a type: it has all permissions for all attributes.
LEMMA AllowAll ==
    ASSUME NEW db, GoodDb(db), NEW s \in DOMAIN db.types, s # ALL, Perms # {}
    PROVE  LET e == add_rule(db, s, ALL, ALL, ALL, "allowed", FALSE).db
           IN  \A a \in Attributes(db), c \in Classes :
                   <<s, a, c, "allowed">> \in DOMAIN e.av /\ Perms \subseteq e.av[<<s, a, c, "allowed">>]
<1> DEFINE keys == {s} \X Attributes(db) \X Classes \X {"allowed"}
           Data(k) == get_avtab_node(db.av, k) \cup Perms
           e == add_rule(db, s, ALL, ALL, ALL, "allowed", FALSE).db
<1>1. Known(db, {s, ALL})
    BY DEF Known
<1>2. strip_av("allowed", FALSE) = FALSE
    BY DEF strip_av
<1>3. Expand(db, s, FALSE) = {s} /\ Expand(db, ALL, FALSE) = Attributes(db)
    BY DEF Expand
<1>4. e = add_rule_raw(db, keys, ALL, FALSE)
    BY <1>1, <1>2, <1>3 DEF add_rule, Ok
<1>5. \A k \in keys : k[4] = "allowed"
    OBVIOUS
<1> DEFINE f == [k \in (DOMAIN db.av \ keys) \cup keys |-> IF k \in keys THEN Data(k) ELSE db.av[k]]
<1>6. e.av = f
    <2> DEFINE touched == {k \in keys : FALSE /\ k[4] # "auditdeny" => k \in DOMAIN db.av}
               D(k) == IF FALSE THEN get_avtab_node(db.av, k) \ Perms ELSE get_avtab_node(db.av, k) \cup Perms
               kept == {k \in touched : ~is_redundant_avtab_node(k, D(k))}
               g == [k \in (DOMAIN db.av \ touched) \cup kept |-> IF k \in kept THEN D(k) ELSE db.av[k]]
    <2>1. add_rule_raw(db, keys, ALL, FALSE) = [db EXCEPT !.av = g]
        <3> HIDE DEF keys
        <3> QED
            BY DEF add_rule_raw
    <2>2. touched = keys
        OBVIOUS
    <2>3. \A k : D(k) = Data(k)
        OBVIOUS
    <2>4. \A k \in keys : ~is_redundant_avtab_node(k, D(k))
        <3> HIDE DEF keys
        <3> QED
            BY <1>5 DEF is_redundant_avtab_node
    <2>5. kept = keys
        BY <2>2, <2>4
    <2>6. g = f
        <3> HIDE DEF keys, kept, touched
        <3> QED
            BY <2>2, <2>5
    <2>7. "av" \in DOMAIN db
        BY DEF GoodDb, DbFields
    <2> HIDE DEF e, g, f, keys
    <2> QED
        BY <1>4, <2>1, <2>6, <2>7
<1>7. \A k \in keys : k \in DOMAIN f /\ f[k] = Data(k)
    <2> HIDE DEF keys
    <2> QED
        OBVIOUS
<1>8. \A a \in Attributes(db), c \in Classes : <<s, a, c, "allowed">> \in keys
    OBVIOUS
<1>9. \A k \in keys : k \in DOMAIN e.av /\ Perms \subseteq e.av[k]
    <2> HIDE DEF e, f, keys
    <2> QED
        BY <1>6, <1>7
<1> HIDE DEF e, keys
<1>10. \A a \in Attributes(db), c \in Classes :
           <<s, a, c, "allowed">> \in DOMAIN e.av /\ Perms \subseteq e.av[<<s, a, c, "allowed">>]
    BY <1>8, <1>9
<1> QED
    BY <1>10 DEF e

\* ... and all ioctls.
XpermKey(s, a) == <<s, a, "file", "allow", <<"driver", 0>>>>

LEMMA AllowXpermAll ==
    ASSUME NEW db, GoodDb(db), NEW s \in DOMAIN db.types, s # ALL,
           \A a \in Attributes(db) : XpermKey(s, a) \notin DOMAIN db.xp
    PROVE  LET e == add_xperm_rule(db, s, ALL, "file", ALL, "allow").db
           IN  \A a \in Attributes(db) : XpermKey(s, a) \in DOMAIN e.xp /\ e.xp[XpermKey(s, a)] = Drivers
<1> DEFINE keys == {s} \X Attributes(db) \X {"file"}
           new == {<<k[1], k[2], k[3], "allow", <<"driver", 0>>>> : k \in keys} \ DOMAIN db.xp
           e == add_xperm_rule(db, s, ALL, "file", ALL, "allow").db
<1>1. Known(db, {s, ALL}) /\ "file" \in Classes /\ "file" # ALL
    BY BootAssumption DEF Known, ALL
<1>2. Expand(db, s, FALSE) = {s} /\ Expand(db, ALL, FALSE) = Attributes(db)
    BY DEF Expand
<1>3. e = add_xperm_rule_raw(db, keys, <<0, 0>>, <<LastDriver, LastFunc>>, "allow")
    <2> DEFINE r == IF ALL = ALL THEN <<<<0, 0>>, <<LastDriver, LastFunc>>>> ELSE Ranges[ALL]
    <2>1. r[1] = <<0, 0>> /\ r[2] = <<LastDriver, LastFunc>>
        OBVIOUS
    <2> QED
        BY <1>1, <1>2, <2>1 DEF add_xperm_rule, Ok
<1>4. 0 # LastDriver /\ 0 .. LastDriver = Drivers
    BY BootAssumption
<1>5. e = [db EXCEPT !.xp = Put(db.xp, new, Drivers)]
    <2> HIDE DEF keys, e
    <2> QED
        BY <1>3, <1>4 DEF add_xperm_rule_raw
<1>6. ASSUME NEW a \in Attributes(db) PROVE XpermKey(s, a) \in new
    <2>1. <<s, a, "file">> \in keys
        OBVIOUS
    <2>2. XpermKey(s, a) \in {<<k[1], k[2], k[3], "allow", <<"driver", 0>>>> : k \in keys}
        <3> DEFINE k == <<s, a, "file">>
        <3>1. XpermKey(s, a) = <<k[1], k[2], k[3], "allow", <<"driver", 0>>>>
            BY DEF XpermKey
        <3> HIDE DEF keys, k
        <3>2. k \in keys
            BY <2>1 DEF k
        <3> QED
            BY <3>1, <3>2
    <2> HIDE DEF keys
    <2> QED
        BY <2>2
<1>7. e.xp = Put(db.xp, new, Drivers)
    <2> HIDE DEF e, new
    <2> QED
        BY <1>5 DEF GoodDb, DbFields
<1> HIDE DEF e, new, keys
<1>8. \A a \in Attributes(db) : XpermKey(s, a) \in DOMAIN e.xp /\ e.xp[XpermKey(s, a)] = Drivers
    BY <1>6, <1>7 DEF Put
<1> QED
    BY <1>8 DEF e

\* What the module's rules give su.
SuReady(w) ==
    /\ <<SU, SU>> \in w.has /\ Exempt(w, SU, "mlstrusted")
    /\ Perms # {} => \A a \in Attributes(Boot), c \in Classes :
          <<SU, a, c, "allowed">> \in DOMAIN w.av /\ Perms \subseteq w.av[<<SU, a, c, "allowed">>]
    /\ \A a \in Attributes(Boot) : XpermKey(SU, a) \in DOMAIN w.xp /\ w.xp[XpermKey(SU, a)] = Drivers

LEMMA SuReadyStays ==
    ASSUME NEW w, NEW x, SuReady(w), Grows(w, x), Allows(w, x)
    PROVE  SuReady(x)
<1>1. <<SU, SU>> \in x.has /\ Exempt(x, SU, "mlstrusted")
    BY ExemptStays DEF SuReady, Grows
<1>2. ASSUME Perms # {}, NEW a \in Attributes(Boot), NEW c \in Classes
      PROVE  <<SU, a, c, "allowed">> \in DOMAIN x.av /\ Perms \subseteq x.av[<<SU, a, c, "allowed">>]
    <2> DEFINE k == <<SU, a, c, "allowed">>
    <2>1. k[4] = "allowed" /\ k \in DOMAIN w.av /\ Perms \subseteq w.av[k]
        BY <1>2 DEF SuReady
    <2> HIDE DEF k
    <2>2. k \in DOMAIN x.av /\ Perms \subseteq x.av[k]
        BY <1>2, <2>1 DEF Allows
    <2> QED
        BY <2>2 DEF k
<1>3. ASSUME NEW a \in Attributes(Boot)
      PROVE  XpermKey(SU, a) \in DOMAIN x.xp /\ x.xp[XpermKey(SU, a)] = Drivers
    BY DEF SuReady, Grows
<1> QED
    BY <1>1, <1>2, <1>3 DEF SuReady

LEMMA TheRules ==
    /\ KernelsuRules[1] = <<"type", "-", <<SU, "domain">>>>
    /\ KernelsuRules[3] = <<"typeattr", "-", <<SU, "mlstrusted">>>>
    /\ KernelsuRules[7] = <<"perm", "allow", <<SU, ALL, ALL, ALL>>>>
    /\ KernelsuRules[8] = <<"xperm", "allow", <<SU, ALL, "file", "ioctl", ALL>>>>
    /\ \A k \in 1 .. 9 : KernelsuRules[k][2] # "deny"
    /\ \A k \in 1 .. 7 : KernelsuRules[k][1] # "xperm"
<1>1. KernelsuRules[1] = <<"type", "-", <<SU, "domain">>>> /\ KernelsuRules[2] = <<"state", "permissive", <<SU>>>>
    BY DEF KernelsuRules
<1>2. KernelsuRules[3] = <<"typeattr", "-", <<SU, "mlstrusted">>>> /\ KernelsuRules[4] = <<"type", "-", <<SU_FILE, "file_type">>>>
    BY DEF KernelsuRules
<1>3. /\ KernelsuRules[5] = <<"typeattr", "-", <<SU_FILE, "mlstrusted">>>>
      /\ KernelsuRules[6] = <<"perm", "allow", <<"domain", SU_FILE, ALL, ALL>>>>
    BY DEF KernelsuRules
<1>4. /\ KernelsuRules[7] = <<"perm", "allow", <<SU, ALL, ALL, ALL>>>>
      /\ KernelsuRules[8] = <<"xperm", "allow", <<SU, ALL, "file", "ioctl", ALL>>>>
      /\ KernelsuRules[9] = <<"perm", "allow", <<"init", SU, ALL, ALL>>>>
    BY DEF KernelsuRules
<1>5. \A k \in 1 .. 9 : k \in {1, 2, 3, 4, 5, 6, 7, 8, 9}
    OBVIOUS
<1>6. \A k \in 1 .. 7 : k \in {1, 2, 3, 4, 5, 6, 7}
    OBVIOUS
<1> QED
    BY <1>1, <1>2, <1>3, <1>4, <1>5, <1>6

LEMMA WhatTheySay ==
    ASSUME NEW db
    PROVE  /\ ApplyRule(db, <<"type", "-", <<SU, "domain">>>>) = ksu_type(db, SU, "domain").db
           /\ ApplyRule(db, <<"typeattr", "-", <<SU, "mlstrusted">>>>) = add_typeattribute(db, SU, "mlstrusted").db
           /\ ApplyRule(db, <<"perm", "allow", <<SU, ALL, ALL, ALL>>>>)
              = add_rule(db, SU, ALL, ALL, ALL, "allowed", FALSE).db
           /\ ApplyRule(db, <<"xperm", "allow", <<SU, ALL, "file", "ioctl", ALL>>>>)
              = add_xperm_rule(db, SU, ALL, "file", ALL, "allow").db
<1>1. NotAll(<<SU, "domain">>, {1, 2}) /\ NotAll(<<SU, "mlstrusted">>, {1, 2})
    BY DEF NotAll, SU, ALL
<1>2. ApplyRule(db, <<"type", "-", <<SU, "domain">>>>) = ksu_type(db, SU, "domain").db
    <2>1. apply_one_sepolicy_cmd(db, "type", "-", <<SU, "domain">>) = ksu_type(db, SU, "domain")
        BY <1>1 DEF apply_one_sepolicy_cmd
    <2> QED
        BY <2>1 DEF ApplyRule
<1>3. ApplyRule(db, <<"typeattr", "-", <<SU, "mlstrusted">>>>) = add_typeattribute(db, SU, "mlstrusted").db
    <2>1. apply_one_sepolicy_cmd(db, "typeattr", "-", <<SU, "mlstrusted">>) = add_typeattribute(db, SU, "mlstrusted")
        BY <1>1 DEF apply_one_sepolicy_cmd
    <2> QED
        BY <2>1 DEF ApplyRule
<1>4. ApplyRule(db, <<"perm", "allow", <<SU, ALL, ALL, ALL>>>>) = add_rule(db, SU, ALL, ALL, ALL, "allowed", FALSE).db
    <2>1. apply_one_sepolicy_cmd(db, "perm", "allow", <<SU, ALL, ALL, ALL>>) = add_rule(db, SU, ALL, ALL, ALL, "allowed", FALSE)
        BY DEF apply_one_sepolicy_cmd
    <2> QED
        BY <2>1 DEF ApplyRule
<1>5. ApplyRule(db, <<"xperm", "allow", <<SU, ALL, "file", "ioctl", ALL>>>>)
      = add_xperm_rule(db, SU, ALL, "file", ALL, "allow").db
    BY DEF ApplyRule
<1> QED
    BY <1>2, <1>3, <1>4, <1>5

LEMMA RulesLeave ==
    LET w == WithKernelsuRules(Boot) IN GoodDb(w) /\ Grows(Boot, w) /\ SuReady(w)
<1>1. PICK d : Chain(d, Boot)
    BY RuleByRule
<1> DEFINE w == d[9]
<1>2. /\ d[0] = Boot /\ w = WithKernelsuRules(Boot)
      /\ \A k \in 1 .. 9 : d[k] = ApplyRule(d[k - 1], KernelsuRules[k])
    BY <1>1 DEF Chain
<1>3. ASSUME NEW k \in 1 .. 9, GoodDb(d[k - 1])
      PROVE  Leaves(d[k - 1], d[k], TRUE, KernelsuRules[k][1] # "xperm")
    BY <1>2, <1>3, TheRules, RuleLeaves
<1>4. \A k \in 1 .. 9 : GoodDb(d[k - 1]) => GoodDb(d[k]) /\ Grows(d[k - 1], d[k]) /\ Allows(d[k - 1], d[k])
    BY <1>3 DEF Leaves
<1>5. \A k \in 1 .. 7 : GoodDb(d[k - 1]) => d[k].xp = d[k - 1].xp
    <2> SUFFICES ASSUME NEW k \in 1 .. 7, GoodDb(d[k - 1]) PROVE d[k].xp = d[k - 1].xp
        OBVIOUS
    <2>1. k \in 1 .. 9 /\ KernelsuRules[k][1] # "xperm"
        BY TheRules
    <2> QED
        BY <2>1, <1>3 DEF Leaves
<1>6. /\ 1 - 1 = 0 /\ 2 - 1 = 1 /\ 3 - 1 = 2 /\ 4 - 1 = 3 /\ 5 - 1 = 4 /\ 6 - 1 = 5 /\ 7 - 1 = 6 /\ 8 - 1 = 7 /\ 9 - 1 = 8
      /\ 1 \in 1 .. 9 /\ 2 \in 1 .. 9 /\ 3 \in 1 .. 9 /\ 4 \in 1 .. 9 /\ 5 \in 1 .. 9 /\ 6 \in 1 .. 9
      /\ 7 \in 1 .. 9 /\ 8 \in 1 .. 9 /\ 9 \in 1 .. 9
      /\ 1 \in 1 .. 7 /\ 2 \in 1 .. 7 /\ 3 \in 1 .. 7 /\ 4 \in 1 .. 7 /\ 5 \in 1 .. 7 /\ 6 \in 1 .. 7 /\ 7 \in 1 .. 7
    OBVIOUS
<1>7. GoodDb(d[0]) /\ GoodDb(d[1]) /\ GoodDb(d[2]) /\ GoodDb(d[3]) /\ GoodDb(d[4])
    BY <1>2, <1>4, <1>6, GoodBoot
<1>8. GoodDb(d[5]) /\ GoodDb(d[6]) /\ GoodDb(d[7]) /\ GoodDb(d[8]) /\ GoodDb(d[9])
    BY <1>4, <1>6, <1>7
<1>9. /\ Grows(d[0], d[1]) /\ Grows(d[1], d[2]) /\ Grows(d[2], d[3]) /\ Grows(d[3], d[4]) /\ Grows(d[4], d[5])
      /\ Grows(d[5], d[6]) /\ Grows(d[6], d[7]) /\ Grows(d[7], d[8]) /\ Grows(d[8], d[9])
      /\ Allows(d[7], d[8]) /\ Allows(d[8], d[9])
    BY <1>4, <1>6, <1>7, <1>8
<1>10. d[7].xp = Boot.xp
    BY <1>2, <1>5, <1>6, <1>7, <1>8
<1> HIDE DEF w
<1>11. Grows(d[0], d[2]) /\ Grows(d[2], d[4]) /\ Grows(d[4], d[6]) /\ Grows(d[6], d[8])
    BY <1>9, GrowsOn
<1>12. Grows(d[0], d[6]) /\ Grows(d[0], d[7]) /\ Grows(d[1], d[9]) /\ Grows(d[3], d[9]) /\ Grows(d[0], d[9]) /\ Grows(d[1], d[6])
       /\ Grows(d[1], d[2]) /\ Grows(d[0], d[2]) /\ Grows(d[1], d[7])
    <2>1. Grows(d[0], d[4]) /\ Grows(d[4], d[8]) /\ Grows(d[1], d[4])
        <3>1. Grows(d[1], d[3])
            BY <1>9, GrowsOn
        <3> QED
            BY <1>9, <1>11, <3>1, GrowsOn
    <2>2. Grows(d[0], d[6]) /\ Grows(d[4], d[9]) /\ Grows(d[1], d[6])
        BY <1>9, <1>11, <2>1, GrowsOn
    <2>3. Grows(d[0], d[7]) /\ Grows(d[1], d[9]) /\ Grows(d[3], d[9]) /\ Grows(d[0], d[9]) /\ Grows(d[1], d[7])
        BY <1>9, <2>1, <2>2, GrowsOn
    <2> QED
        BY <1>9, <1>11, <2>2, <2>3
<1>13. SU \in DOMAIN d[1].types /\ d[1].types[SU] = FALSE /\ <<SU, SU>> \in d[1].has
    <2>1. d[1] = ksu_type(Boot, SU, "domain").db
        <3>1. d[1] = ApplyRule(d[0], KernelsuRules[1])
            BY <1>2, <1>6
        <3>2. KernelsuRules[1] = <<"type", "-", <<SU, "domain">>>>
            BY TheRules
        <3>3. d[1] = ApplyRule(d[0], <<"type", "-", <<SU, "domain">>>>)
            BY <3>1, <3>2, Zenon
        <3> QED
            BY <1>2, <3>3, WhatTheySay, Zenon
    <2>2. SU \notin DOMAIN Boot.types
        BY BootAssumption
    <2> DEFINE e == ksu_type(Boot, SU, "domain").db
    <2>3. /\ GoodDb(e) /\ Grows(Boot, e) /\ Allows(Boot, e) /\ e.xp = Boot.xp
          /\ SU \notin DOMAIN Boot.types => SU \in DOMAIN e.types /\ e.types[SU] = FALSE /\ <<SU, SU>> \in e.has
        BY KsuType, GoodBoot, Zenon
    <2> HIDE DEF e
    <2>4. d[1] = e
        BY <2>1 DEF e
    <2> QED
        BY <2>2, <2>3, <2>4
<1>14. Exempt(d[3], SU, "mlstrusted")
    <2>1. d[3] = add_typeattribute(d[2], SU, "mlstrusted").db
        <3>1. d[3] = ApplyRule(d[2], KernelsuRules[3])
            BY <1>2, <1>6
        <3>2. KernelsuRules[3] = <<"typeattr", "-", <<SU, "mlstrusted">>>>
            BY TheRules
        <3>3. d[3] = ApplyRule(d[2], <<"typeattr", "-", <<SU, "mlstrusted">>>>)
            BY <3>1, <3>2, Zenon
        <3> QED
            BY <3>3, WhatTheySay, Zenon
    <2>2. SU \in DOMAIN d[2].types /\ d[2].types[SU] = FALSE
        BY <1>12, <1>13 DEF Grows
    <2>3. "mlstrusted" \in DOMAIN d[2].types /\ d[2].types["mlstrusted"] = TRUE
        BY <1>2, <1>12, BootAssumption DEF Grows, Attributes
    <2> QED
        BY <2>1, <2>2, <2>3, <1>7, AddTypeattribute
<1>15. \A a \in Attributes(Boot) : a \in Attributes(d[6]) /\ a \in Attributes(d[7])
    BY <1>2, <1>12 DEF Grows, Attributes
<1>16. SU \in DOMAIN d[6].types /\ SU \in DOMAIN d[7].types /\ SU # ALL
    BY <1>12, <1>13 DEF Grows, SU, ALL
<1>17. ASSUME Perms # {}, NEW a \in Attributes(Boot), NEW c \in Classes
       PROVE  <<SU, a, c, "allowed">> \in DOMAIN w.av /\ Perms \subseteq w.av[<<SU, a, c, "allowed">>]
    <2>1. d[7] = add_rule(d[6], SU, ALL, ALL, ALL, "allowed", FALSE).db
        BY <1>2, <1>6, TheRules, WhatTheySay
    <2> DEFINE k == <<SU, a, c, "allowed">>
    <2>2. k \in DOMAIN d[7].av /\ Perms \subseteq d[7].av[k] /\ k[4] = "allowed"
        BY <1>8, <1>15, <1>16, <1>17, <2>1, AllowAll
    <2>3. Allows(d[7], w)
        BY <1>9, AllowsOn DEF w
    <2> HIDE DEF k
    <2>4. k \in DOMAIN w.av /\ Perms \subseteq w.av[k]
        BY <1>17, <2>2, <2>3 DEF Allows
    <2> QED
        BY <2>4 DEF k
<1>18. ASSUME NEW a \in Attributes(Boot)
       PROVE  XpermKey(SU, a) \in DOMAIN w.xp /\ w.xp[XpermKey(SU, a)] = Drivers
    <2>1. d[8] = add_xperm_rule(d[7], SU, ALL, "file", ALL, "allow").db
        BY <1>2, <1>6, TheRules, WhatTheySay
    <2>2. ASSUME NEW b PROVE XpermKey(SU, b) \notin DOMAIN d[7].xp
        <3>1. XpermKey(SU, b)[1] = SU
            BY DEF XpermKey
        <3>2. \A k \in DOMAIN Boot.xp : k[1] # SU
            BY BootAssumption
        <3> QED
            BY <1>10, <3>1, <3>2
    <2>3. XpermKey(SU, a) \in DOMAIN d[8].xp /\ d[8].xp[XpermKey(SU, a)] = Drivers
        BY <1>8, <1>15, <1>16, <2>1, <2>2, AllowXpermAll
    <2> QED
        BY <1>9, <2>3 DEF Grows, w
<1>19. <<SU, SU>> \in w.has /\ Exempt(w, SU, "mlstrusted")
    <2>1. Grows(d[1], w) /\ Grows(d[3], w)
        BY <1>12 DEF w
    <2> QED
        BY <1>13, <1>14, <2>1, ExemptStays DEF Grows
<1>20. SuReady(w)
    BY <1>17, <1>18, <1>19 DEF SuReady
<1>21. GoodDb(w) /\ Grows(Boot, w)
    BY <1>2, <1>8, <1>12 DEF w
<1> QED
    BY <1>2, <1>20, <1>21

-----------------------------------------------------------------------------
(* Decisions. *)

su == [role |-> "r", type |-> SU, level |-> 0]

LEMMA NodeSays ==
    ASSUME NEW sc, NEW tc, NEW e
    PROVE  /\ NodeValue(sc, tc, e) \in BOOLEAN
           /\ PassesWith(e, "mlstrusted") /\ sc.type \in e.names => NodeValue(sc, tc, e) = TRUE
<1>1. CASE e.op = "attr"
    <2>1. NodeValue(sc, tc, e) = Compare(e.cmp, sc[e.what], tc[e.what])
        BY <1>1 DEF NodeValue
    <2>2. ASSUME NEW op, NEW a, NEW b PROVE Compare(op, a, b) \in BOOLEAN
        <3>1. CASE op = "eq"
            BY <3>1 DEF Compare
        <3>2. CASE op = "neq"
            BY <3>2 DEF Compare
        <3>3. CASE op = "dom"
            BY <3>3 DEF Compare
        <3>4. CASE op = "domby"
            BY <3>4 DEF Compare
        <3>5. CASE op \notin {"eq", "neq", "dom", "domby"}
            BY <3>5 DEF Compare
        <3> QED
            BY <3>1, <3>2, <3>3, <3>4, <3>5
    <2> QED
        BY <1>1, <2>1, <2>2 DEF PassesWith
<1>2. CASE e.op = "names"
    <2> DEFINE v == ((IF e.target THEN tc ELSE sc).type \in e.names) = (e.cmp = "eq")
    <2>1. NodeValue(sc, tc, e) = v
        BY <1>2 DEF NodeValue
    <2>2. v \in BOOLEAN
        OBVIOUS
    <2>3. PassesWith(e, "mlstrusted") /\ sc.type \in e.names => v = TRUE
        BY DEF PassesWith
    <2> HIDE DEF v
    <2> QED
        BY <2>1, <2>2, <2>3
<1>3. CASE e.op # "attr" /\ e.op # "names"
    BY <1>3 DEF NodeValue, PassesWith
<1> QED
    BY <1>1, <1>2, <1>3

LEMMA ConstraintsPass ==
    ASSUME NEW db, Grows(Boot, db), Exempt(db, SU, "mlstrusted"), NEW tc, NEW c \in Classes,
           NEW con \in Range(db.cons[c])
    PROVE  constraint_expr_eval(su, tc, con.expr)
<1>1. PICK i \in DOMAIN db.cons[c] : con = db.cons[c][i]
    BY DEF Range
<1> DEFINE expr == con.expr
           old == Boot.cons[c][i].expr
           ops == [j \in DOMAIN old |-> old[j].op]
           values == [j \in DOMAIN old |-> NodeValue(su, tc, expr[j])]
<1>2. i \in DOMAIN Boot.cons[c] /\ ConGrows(Boot.cons[c][i], con)
    BY <1>1 DEF Grows, ConsGrow, ListGrows
<1>3. DOMAIN expr = DOMAIN old /\ \A j \in DOMAIN old : NodeGrows(old[j], expr[j])
    BY <1>2 DEF ConGrows
<1>4. values \in [DOMAIN old -> BOOLEAN]
    BY NodeSays
<1>5. ASSUME NEW j \in DOMAIN old, PassesWith(old[j], "mlstrusted") PROVE values[j] = TRUE
    <2>1. PassesWith(expr[j], "mlstrusted")
        BY <1>3, <1>5 DEF NodeGrows, PassesWith
    <2>2. SU \in expr[j].names
        BY <1>1, <1>3, <2>1 DEF Exempt
    <2>3. su.type = SU
        BY DEF su
    <2>4. NodeValue(su, tc, expr[j]) = TRUE
        BY <2>1, <2>2, <2>3, NodeSays
    <2> QED
        BY <2>4
<1>6. EvalNodes(ops, values)
    <2>1. Boot.cons[c][i] \in Range(Boot.cons[c])
        BY <1>2 DEF Range
    <2>2. \A v \in [DOMAIN old -> BOOLEAN] :
              (\A j \in DOMAIN old : PassesWith(old[j], "mlstrusted") => v[j]) => EvalNodes(ops, v)
        BY <2>1, BootAssumption
    <2> HIDE DEF values, ops, old
    <2> QED
        BY <1>4, <1>5, <2>2
<1>7. [j \in DOMAIN expr |-> expr[j].op] = ops
    <2>1. \A j \in DOMAIN old : expr[j].op = old[j].op
        BY <1>3 DEF NodeGrows
    <2> HIDE DEF expr, old
    <2> QED
        BY <1>3, <2>1
<1>8. [j \in DOMAIN expr |-> NodeValue(su, tc, expr[j])] = values
    <2> HIDE DEF expr, old
    <2> QED
        BY <1>3
<1>9. constraint_expr_eval(su, tc, expr) <=>
          EvalNodes([j \in DOMAIN expr |-> expr[j].op], [j \in DOMAIN expr |-> NodeValue(su, tc, expr[j])])
    BY DEF constraint_expr_eval
<1> HIDE DEF ops, values, expr
<1>10. constraint_expr_eval(su, tc, expr)
    BY <1>6, <1>7, <1>8, <1>9
<1> QED
    BY <1>10 DEF expr

LEMMA SuMay ==
    ASSUME NEW db, GoodDb(db), Grows(Boot, db), SuReady(db), NEW tc, tc.role = "r",
           HasAttribute(db, tc.type, Attributes(Boot)), NEW c \in Classes
    PROVE  context_struct_compute_av(db, su, tc, c) = Perms
<1> DEFINE byRules == UNION {db.av[k] : k \in Pairs(db, su, tc, c, "allowed")}
           denied == UNION {con.perms : con \in {x \in Range(db.cons[c]) : ~constraint_expr_eval(su, tc, x.expr)}}
           noTransition == IF c = "process" /\ su.role # tc.role /\ <<su.role, tc.role>> \notin db.role_allow
                           THEN {"transition"} ELSE {}
<1>1. su.type = SU /\ su.role = "r"
    BY DEF su
<1>2. su.type \notin DOMAIN db.bounds
    BY <1>1, BootAssumption DEF Grows
<1>3. context_struct_compute_av(db, su, tc, c) = ComputeUnbounded(db, su, tc, c)
    BY <1>2 DEF context_struct_compute_av
<1>4. ComputeUnbounded(db, su, tc, c) = (byRules \ denied) \ noTransition
    BY DEF ComputeUnbounded
<1>5. noTransition = {}
    BY <1>1
<1>6. {x \in Range(db.cons[c]) : ~constraint_expr_eval(su, tc, x.expr)} = {}
    BY ConstraintsPass DEF SuReady
<1>7. denied = {}
    BY <1>6
<1>8. \A k \in Pairs(db, su, tc, c, "allowed") : db.av[k] \subseteq Perms
    BY DEF Pairs, GoodDb
<1>9. ASSUME NEW p \in Perms PROVE \E k \in Pairs(db, su, tc, c, "allowed") : p \in db.av[k]
    <2>1. PICK a \in Attributes(Boot) : <<tc.type, a>> \in db.has
        BY DEF HasAttribute
    <2> DEFINE k == <<SU, a, c, "allowed">>
    <2>2. k \in DOMAIN db.av /\ p \in db.av[k]
        BY <1>9 DEF SuReady
    <2>3. k[1] = SU /\ k[2] = a /\ k[3] = c /\ k[4] = "allowed"
        OBVIOUS
    <2>4. <<su.type, SU>> \in db.has
        BY <1>1 DEF SuReady
    <2> HIDE DEF k
    <2>5. k \in Pairs(db, su, tc, c, "allowed")
        BY <2>1, <2>2, <2>3, <2>4 DEF Pairs
    <2> QED
        BY <2>2, <2>5
<1>10. byRules = Perms
    <2> DEFINE P == Pairs(db, su, tc, c, "allowed")
    <2>1. \A p : p \in byRules <=> \E k \in P : p \in db.av[k]
        OBVIOUS
    <2> HIDE DEF byRules, P
    <2>2. \A p : p \in byRules <=> p \in Perms
        BY <1>8, <1>9, <2>1 DEF P
    <2> QED
        BY <2>2
<1> HIDE DEF byRules, denied, noTransition
<1> QED
    BY <1>3, <1>4, <1>5, <1>7, <1>10

\* What a rule changes.
Eff(d, s, t, c, e) == {d.av[k] : k \in Pairs(d, [type |-> s], [type |-> t], c, e)}
Covers(db, n, x) == IF n = ALL THEN HasAttribute(db, x, Attributes(db)) ELSE <<x, n>> \in db.has

\* The new access vectors of a rule for one permission.
RuleAv(db, keys, p, invert) ==
    LET touched == {k \in keys : invert /\ k[4] # "auditdeny" => k \in DOMAIN db.av}
        Data(k) == IF invert THEN get_avtab_node(db.av, k) \ {p} ELSE get_avtab_node(db.av, k) \cup {p}
        kept == {k \in touched : ~is_redundant_avtab_node(k, Data(k))}
    IN  [k \in (DOMAIN db.av \ touched) \cup kept |-> IF k \in kept THEN Data(k) ELSE db.av[k]]

RuleMakes(db, e, s, t, c, p, effect, invert, strip) ==
    /\ e.av = RuleAv(db, Expand(db, s, strip) \X Expand(db, t, strip) \X {c} \X {effect}, p, invert)
    /\ e.has = db.has

LEMMA RuleChanges ==
    ASSUME NEW db, GoodDb(db), NEW s, NEW t, Known(db, {s, t}), NEW c \in Classes, NEW p \in Perms,
           NEW effect, NEW invert, NEW strip, strip = strip_av(effect, invert)
    PROVE  RuleMakes(db, add_rule(db, s, t, c, p, effect, invert).db, s, t, c, p, effect, invert, strip)
<1> DEFINE e == add_rule(db, s, t, c, p, effect, invert).db
           keys == Expand(db, s, strip) \X Expand(db, t, strip) \X {c} \X {effect}
<1>1. c # ALL /\ p # ALL
    BY BootAssumption
<1>2. e = add_rule_raw(db, keys, p, invert)
    BY <1>1 DEF add_rule, Ok
<1> HIDE DEF keys, e
<1>3. add_rule_raw(db, keys, p, invert) = [db EXCEPT !.av = RuleAv(db, keys, p, invert)]
    BY <1>1 DEF add_rule_raw, RuleAv
<1>4. e = [db EXCEPT !.av = RuleAv(db, keys, p, invert)]
    BY <1>2, <1>3
<1>5. e.av = RuleAv(db, keys, p, invert) /\ e.has = db.has
    BY <1>4 DEF GoodDb, DbFields
<1> QED
    BY <1>5 DEF e, keys, RuleMakes

\* A rule that decides about a pair.
Meets(d, x, y, c, effect, k) ==
    <<x, k[1]>> \in d.has /\ <<y, k[2]>> \in d.has /\ k[3] = c /\ k[4] = effect

LEMMA InEff ==
    ASSUME NEW d, NEW x, NEW y, NEW c, NEW effect, NEW q
    PROVE  q \in UNION Eff(d, x, y, c, effect)
               <=> \E k \in DOMAIN d.av : Meets(d, x, y, c, effect, k) /\ q \in d.av[k]
<1>1. \A m : m \in Eff(d, x, y, c, effect)
          <=> \E k \in DOMAIN d.av : Meets(d, x, y, c, effect, k) /\ m = d.av[k]
    BY DEF Eff, Pairs, Meets
<1> DEFINE E == Eff(d, x, y, c, effect)
<1>2. \A m : m \in E <=> \E k \in DOMAIN d.av : Meets(d, x, y, c, effect, k) /\ m = d.av[k]
    BY <1>1
<1> HIDE DEF E
<1>3. q \in UNION E <=> \E m \in E : q \in m
    OBVIOUS
<1>4. q \in UNION E <=> \E k \in DOMAIN d.av : Meets(d, x, y, c, effect, k) /\ q \in d.av[k]
    BY <1>2, <1>3
<1> QED
    BY <1>4 DEF E

Silent(d, s, t, c, p) == \E m \in Eff(d, s, t, c, "auditdeny") : p \notin m

LEMMA SilentIs ==
    ASSUME NEW d, NEW x, NEW y, NEW c, NEW p
    PROVE  Silent(d, x, y, c, p)
               <=> \E k \in DOMAIN d.av : Meets(d, x, y, c, "auditdeny", k) /\ p \notin d.av[k]
BY DEF Silent, Eff, Pairs, Meets

LEMMA CoversIs ==
    ASSUME NEW db, NEW n, NEW x
    PROVE  Covers(db, n, x) <=> \E a \in Expand(db, n, FALSE) : <<x, a>> \in db.has
BY DEF Covers, Expand, HasAttribute

Gains(db, s, t, p, x, y) == IF Covers(db, s, x) /\ Covers(db, t, y) THEN {p} ELSE {}
AllowsExactly(db, s, t, c, p, x, y) ==
    UNION Eff(add_rule(db, s, t, c, p, "allowed", FALSE).db, x, y, c, "allowed")
        = (UNION Eff(db, x, y, c, "allowed")) \cup Gains(db, s, t, p, x, y)
QuietsExactly(db, s, t, c, p, x, y) ==
    Silent(add_rule(db, s, t, c, p, "auditdeny", TRUE).db, x, y, c, p)
        <=> Silent(db, x, y, c, p) \/ (Covers(db, s, x) /\ Covers(db, t, y))
DeniesAll(db, c, p, x, y) ==
    p \notin UNION Eff(add_rule(db, ALL, ALL, c, p, "allowed", TRUE).db, x, y, c, "allowed")

LEMMA AllowExact ==
    ASSUME NEW db, GoodDb(db), NEW s, NEW t, Known(db, {s, t}), NEW c \in Classes, NEW p \in Perms, NEW x, NEW y
    PROVE  AllowsExactly(db, s, t, c, p, x, y)
<1> DEFINE e == add_rule(db, s, t, c, p, "allowed", FALSE).db
           keys == Expand(db, s, FALSE) \X Expand(db, t, FALSE) \X {c} \X {"allowed"}
           Matches(k) == Meets(db, x, y, c, "allowed", k)
<1>1. strip_av("allowed", FALSE) = FALSE
    BY DEF strip_av
<1>2. e.av = RuleAv(db, keys, p, FALSE) /\ e.has = db.has
    <2>1. RuleMakes(db, e, s, t, c, p, "allowed", FALSE, FALSE)
        BY <1>1, RuleChanges
    <2> QED
        BY <2>1 DEF RuleMakes
<1>3. \A k \in keys : k[4] = "allowed"
    OBVIOUS
<1>4. \A k1 \in Expand(db, s, FALSE), k2 \in Expand(db, t, FALSE) :
          /\ <<k1, k2, c, "allowed">> \in keys
          /\ Matches(<<k1, k2, c, "allowed">>) <=> <<x, k1>> \in db.has /\ <<y, k2>> \in db.has
    BY DEF Meets
<1>5. \A k \in keys : k[1] \in Expand(db, s, FALSE) /\ k[2] \in Expand(db, t, FALSE)
    OBVIOUS
<1> HIDE DEF e, keys
<1>6. /\ DOMAIN e.av = DOMAIN db.av \cup keys
      /\ \A k \in keys : e.av[k] = get_avtab_node(db.av, k) \cup {p}
      /\ \A k \in DOMAIN db.av : k \notin keys => e.av[k] = db.av[k]
    <2> DEFINE touched == {k \in keys : FALSE /\ k[4] # "auditdeny" => k \in DOMAIN db.av}
               Data(k) == IF FALSE THEN get_avtab_node(db.av, k) \ {p} ELSE get_avtab_node(db.av, k) \cup {p}
               kept == {k \in touched : ~is_redundant_avtab_node(k, Data(k))}
    <2>1. touched = keys
        OBVIOUS
    <2>2. \A k \in keys : ~is_redundant_avtab_node(k, Data(k))
        BY <1>3 DEF is_redundant_avtab_node
    <2>3. kept = keys
        BY <2>1, <2>2
    <2>4. e.av = [k \in (DOMAIN db.av \ touched) \cup kept |-> IF k \in kept THEN Data(k) ELSE db.av[k]]
        BY <1>2 DEF RuleAv
    <2>5. \A k : Data(k) = get_avtab_node(db.av, k) \cup {p}
        OBVIOUS
    <2> HIDE DEF touched, kept, Data
    <2> QED
        BY <2>1, <2>3, <2>4, <2>5
<1>7. \A k \in keys : k \in DOMAIN db.av => e.av[k] = db.av[k] \cup {p}
    BY <1>6 DEF get_avtab_node
<1>8. \A k \in keys : k \notin DOMAIN db.av => e.av[k] = {p}
    BY <1>3, <1>6 DEF get_avtab_node
<1>9. \A q : q \in UNION Eff(e, x, y, c, "allowed") <=> \E k \in DOMAIN e.av : Matches(k) /\ q \in e.av[k]
    <2>1. \A k : Meets(e, x, y, c, "allowed", k) <=> Matches(k)
        BY <1>2 DEF Meets
    <2> QED
        BY <2>1, InEff
<1>10. \A q : q \in UNION Eff(db, x, y, c, "allowed") <=> \E k \in DOMAIN db.av : Matches(k) /\ q \in db.av[k]
    BY InEff
<1>11. Covers(db, s, x) /\ Covers(db, t, y) <=> \E k \in keys : Matches(k)
    <2>1. ASSUME Covers(db, s, x), Covers(db, t, y) PROVE \E k \in keys : Matches(k)
        <3>1. PICK k1 \in Expand(db, s, FALSE) : <<x, k1>> \in db.has
            BY <2>1, CoversIs
        <3>2. PICK k2 \in Expand(db, t, FALSE) : <<y, k2>> \in db.has
            BY <2>1, CoversIs
        <3> HIDE DEF Matches
        <3> QED
            BY <1>4, <3>1, <3>2
    <2>2. ASSUME NEW k \in keys, Matches(k) PROVE Covers(db, s, x) /\ Covers(db, t, y)
        BY <1>5, <2>2, CoversIs DEF Meets
    <2> QED
        BY <2>1, <2>2
<1> HIDE DEF Matches
<1>12. ASSUME NEW q
       PROVE  q \in UNION Eff(e, x, y, c, "allowed") <=>
                 \/ q \in UNION Eff(db, x, y, c, "allowed")
                 \/ q = p /\ Covers(db, s, x) /\ Covers(db, t, y)
    <2>1. ASSUME NEW k \in DOMAIN e.av, Matches(k), q \in e.av[k]
          PROVE  (\E l \in DOMAIN db.av : Matches(l) /\ q \in db.av[l]) \/ (q = p /\ \E l \in keys : Matches(l))
        <3>1. CASE k \in keys
            BY <1>7, <1>8, <2>1, <3>1
        <3>2. CASE k \notin keys
            BY <1>6, <2>1, <3>2
        <3> QED
            BY <3>1, <3>2
    <2>2. ASSUME NEW k \in DOMAIN db.av, Matches(k), q \in db.av[k]
          PROVE  \E l \in DOMAIN e.av : Matches(l) /\ q \in e.av[l]
        <3>1. k \in DOMAIN e.av /\ q \in e.av[k]
            BY <1>6, <1>7, <2>2
        <3> QED
            BY <2>2, <3>1
    <2>3. ASSUME NEW k \in keys, Matches(k)
          PROVE  \E l \in DOMAIN e.av : Matches(l) /\ p \in e.av[l]
        <3>1. k \in DOMAIN e.av /\ p \in e.av[k]
            BY <1>6
        <3> QED
            BY <2>3, <3>1
    <2> QED
        BY <1>9, <1>10, <1>11, <2>1, <2>2, <2>3
<1> DEFINE A == UNION Eff(e, x, y, c, "allowed")
           B == UNION Eff(db, x, y, c, "allowed")
<1>13. \A q : q \in Gains(db, s, t, p, x, y) <=> q = p /\ Covers(db, s, x) /\ Covers(db, t, y)
    BY DEF Gains
<1>14. \A q : q \in A <=> q \in B \cup Gains(db, s, t, p, x, y)
    <2>1. \A q : q \in A <=> q \in B \/ q \in Gains(db, s, t, p, x, y)
        BY <1>12, <1>13
    <2> HIDE DEF A, B
    <2> QED
        BY <2>1
<1>15. A = B \cup Gains(db, s, t, p, x, y)
    <2> HIDE DEF A, B
    <2> QED
        BY <1>14
<1> QED
    BY <1>15, Zenon DEF A, B, e, AllowsExactly

LEMMA QuietExact ==
    ASSUME NEW db, GoodDb(db), NEW s, NEW t, Known(db, {s, t}), NEW c \in Classes, NEW p \in Perms, NEW x, NEW y
    PROVE  QuietsExactly(db, s, t, c, p, x, y)
<1> DEFINE e == add_rule(db, s, t, c, p, "auditdeny", TRUE).db
           keys == Expand(db, s, FALSE) \X Expand(db, t, FALSE) \X {c} \X {"auditdeny"}
           Matches(k) == Meets(db, x, y, c, "auditdeny", k)
<1>1. strip_av("auditdeny", TRUE) = FALSE
    BY DEF strip_av
<1>2. e.av = RuleAv(db, keys, p, TRUE) /\ e.has = db.has
    <2>1. RuleMakes(db, e, s, t, c, p, "auditdeny", TRUE, FALSE)
        BY <1>1, RuleChanges
    <2> QED
        BY <2>1 DEF RuleMakes
<1>3. \A k \in keys : k[4] = "auditdeny"
    OBVIOUS
<1>4. \A k1 \in Expand(db, s, FALSE), k2 \in Expand(db, t, FALSE) :
          /\ <<k1, k2, c, "auditdeny">> \in keys
          /\ Matches(<<k1, k2, c, "auditdeny">>) <=> <<x, k1>> \in db.has /\ <<y, k2>> \in db.has
    BY DEF Meets
<1>5. \A k \in keys : k[1] \in Expand(db, s, FALSE) /\ k[2] \in Expand(db, t, FALSE)
    OBVIOUS
<1> HIDE DEF e, keys
<1>6. /\ DOMAIN e.av = DOMAIN db.av \cup keys
      /\ \A k \in keys : p \notin e.av[k]
      /\ \A k \in DOMAIN db.av : k \notin keys => e.av[k] = db.av[k]
    <2> DEFINE touched == {k \in keys : TRUE /\ k[4] # "auditdeny" => k \in DOMAIN db.av}
               Data(k) == IF TRUE THEN get_avtab_node(db.av, k) \ {p} ELSE get_avtab_node(db.av, k) \cup {p}
               kept == {k \in touched : ~is_redundant_avtab_node(k, Data(k))}
    <2>1. touched = keys
        BY <1>3
    <2>2. \A k \in keys : ~is_redundant_avtab_node(k, Data(k))
        BY <1>3 DEF is_redundant_avtab_node
    <2>3. kept = keys
        BY <2>1, <2>2
    <2>4. e.av = [k \in (DOMAIN db.av \ touched) \cup kept |-> IF k \in kept THEN Data(k) ELSE db.av[k]]
        BY <1>2 DEF RuleAv
    <2>5. \A k : p \notin Data(k)
        OBVIOUS
    <2> HIDE DEF touched, kept, Data
    <2> QED
        BY <2>1, <2>3, <2>4, <2>5
<1>9. Silent(e, x, y, c, p) <=> \E k \in DOMAIN e.av : Matches(k) /\ p \notin e.av[k]
    <2>1. \A k : Meets(e, x, y, c, "auditdeny", k) <=> Matches(k)
        BY <1>2 DEF Meets
    <2> QED
        BY <2>1, SilentIs
<1>10. Silent(db, x, y, c, p) <=> \E k \in DOMAIN db.av : Matches(k) /\ p \notin db.av[k]
    BY SilentIs
<1>11. Covers(db, s, x) /\ Covers(db, t, y) <=> \E k \in keys : Matches(k)
    <2>1. ASSUME Covers(db, s, x), Covers(db, t, y) PROVE \E k \in keys : Matches(k)
        <3>1. PICK k1 \in Expand(db, s, FALSE) : <<x, k1>> \in db.has
            BY <2>1, CoversIs
        <3>2. PICK k2 \in Expand(db, t, FALSE) : <<y, k2>> \in db.has
            BY <2>1, CoversIs
        <3> HIDE DEF Matches
        <3> QED
            BY <1>4, <3>1, <3>2
    <2>2. ASSUME NEW k \in keys, Matches(k) PROVE Covers(db, s, x) /\ Covers(db, t, y)
        BY <1>5, <2>2, CoversIs DEF Meets
    <2> QED
        BY <2>1, <2>2
<1> HIDE DEF Matches
<1>12. Silent(e, x, y, c, p) <=> Silent(db, x, y, c, p) \/ (Covers(db, s, x) /\ Covers(db, t, y))
    BY <1>6, <1>9, <1>10, <1>11
<1> QED
    BY <1>12 DEF e, QuietsExactly

LEMMA DenyExact ==
    ASSUME NEW db, GoodDb(db), NEW c \in Classes, NEW p \in Perms, NEW x, NEW y
    PROVE  DeniesAll(db, c, p, x, y)
<1> DEFINE e == add_rule(db, ALL, ALL, c, p, "allowed", TRUE).db
           names == DOMAIN db.types
           keys == names \X names \X {c} \X {"allowed"}
<1>1. strip_av("allowed", TRUE) = TRUE
    BY DEF strip_av
<1>2. Known(db, {ALL, ALL}) /\ Expand(db, ALL, TRUE) = names
    BY DEF Known, Expand
<1>3. e.av = RuleAv(db, keys, p, TRUE)
    <2>1. RuleMakes(db, e, ALL, ALL, c, p, "allowed", TRUE, TRUE)
        BY <1>1, <1>2, RuleChanges
    <2> QED
        BY <1>2, <2>1 DEF RuleMakes
<1>4. ASSUME NEW k \in DOMAIN db.av, k[3] = c, k[4] = "allowed" PROVE k \in keys
    BY <1>4 DEF GoodDb, AvKeys
<1>5. \A k \in keys : k[4] = "allowed"
    OBVIOUS
<1> HIDE DEF e, keys
<1>6. ASSUME NEW k \in DOMAIN e.av, k[3] = c, k[4] = "allowed" PROVE p \notin e.av[k]
    <2> DEFINE touched == {l \in keys : TRUE /\ l[4] # "auditdeny" => l \in DOMAIN db.av}
               Data(l) == IF TRUE THEN get_avtab_node(db.av, l) \ {p} ELSE get_avtab_node(db.av, l) \cup {p}
               kept == {l \in touched : ~is_redundant_avtab_node(l, Data(l))}
    <2>1. e.av = [l \in (DOMAIN db.av \ touched) \cup kept |-> IF l \in kept THEN Data(l) ELSE db.av[l]]
        BY <1>3 DEF RuleAv
    <2>2. \A l : p \notin Data(l)
        OBVIOUS
    <2>3. \A l \in keys : l \in DOMAIN db.av => l \in touched
        OBVIOUS
    <2>4. k \in DOMAIN db.av \ touched => k \in keys
        BY <1>4, <1>6
    <2>5. k \in kept
        <3> HIDE DEF touched, kept
        <3> QED
            BY <2>1, <2>3, <2>4
    <2>6. e.av[k] = Data(k)
        <3> HIDE DEF touched, kept, Data
        <3> QED
            BY <2>1, <2>5
    <2> QED
        BY <2>2, <2>6
<1>7. p \notin UNION Eff(e, x, y, c, "allowed")
    <2>1. p \in UNION Eff(e, x, y, c, "allowed")
              <=> \E k \in DOMAIN e.av : Meets(e, x, y, c, "allowed", k) /\ p \in e.av[k]
        BY InEff
    <2> QED
        BY <1>6, <2>1 DEF Meets
<1> QED
    BY <1>7 DEF e, DeniesAll

LEMMA EffectsExact ==
    ASSUME GoodDb(mem[policy]), Grows(Boot, mem[policy])
    PROVE  RuleEffectExact
<1> DEFINE db == mem[policy]
<1>1. {"app", "domain"} \subseteq DOMAIN db.types
    BY BootAssumption DEF Grows
<1>2. \A s, t \in {ALL, "app", "domain"} : Known(db, {s, t})
    BY <1>1 DEF Known
<1> HIDE DEF db
<1>3. GoodDb(db)
    BY DEF db
<1>4. ASSUME NEW p \in Perms, NEW c \in Classes, NEW s \in {ALL, "app", "domain"}, NEW t \in {ALL, "app", "domain"},
             NEW x, NEW y
      PROVE  AllowsExactly(db, s, t, c, p, x, y) /\ QuietsExactly(db, s, t, c, p, x, y)
    <2>1. Known(db, {s, t})
        BY <1>2
    <2> QED
        BY <1>3, <2>1, AllowExact, QuietExact
<1>5. ASSUME NEW p \in Perms, NEW c \in Classes, NEW x, NEW y
      PROVE  DeniesAll(db, c, p, x, y)
    BY <1>3, DenyExact
<1>6. \A p \in Perms, c \in Classes :
          /\ \A s, t \in {ALL, "app", "domain"} : \A x, y \in DOMAIN db.types :
                AllowsExactly(db, s, t, c, p, x, y) /\ QuietsExactly(db, s, t, c, p, x, y)
          /\ \A x, y \in DOMAIN db.types : DeniesAll(db, c, p, x, y)
    BY <1>4, <1>5
<1> QED
    BY <1>6, Zenon DEF RuleEffectExact, AllowsExactly, Gains, QuietsExactly, DeniesAll, Eff, Silent, Covers, db

LEMMA SuFree ==
    ASSUME GoodDb(mem[policy]), Grows(Boot, mem[policy]), published # <<>> /\ NoDenial => SuReady(mem[policy])
    PROVE  SuUnconstrained
<1> SUFFICES ASSUME published # <<>>, NoDenial
             PROVE  /\ \A tc \in {x \in Contexts : x.role = "r" /\ HasAttribute(mem[policy], x.type, Attributes(Boot))} :
                          \A c \in Classes : context_struct_compute_av(mem[policy], su, tc, c) = Perms
                    /\ \A a \in Attributes(Boot) : mem[policy].xp[<<SU, a, "file", "allow", <<"driver", 0>>>>] = Drivers
    BY DEF SuUnconstrained, su
<1>1. SuReady(mem[policy])
    OBVIOUS
<1>2. \A tc \in {x \in Contexts : x.role = "r" /\ HasAttribute(mem[policy], x.type, Attributes(Boot))} :
          \A c \in Classes : context_struct_compute_av(mem[policy], su, tc, c) = Perms
    BY <1>1, SuMay
<1>3. \A a \in Attributes(Boot) : mem[policy].xp[<<SU, a, "file", "allow", <<"driver", 0>>>>] = Drivers
    BY <1>1 DEF SuReady, XpermKey
<1> QED
    BY <1>2, <1>3

-----------------------------------------------------------------------------
(* What ksud sends is a sequence. *)

LEMMA MadeSeq == ASSUME NEW S, NEW n \in Nat, NEW f \in [1 .. n -> S] PROVE f \in Seq(S) /\ Len(f) = n
<1>1. f = [i \in 1 .. n |-> f[i]]
    OBVIOUS
<1> QED
    BY <1>1

LEMMA FlattenType == ASSUME NEW S, NEW b \in Seq(Seq(S)) PROVE FlattenSeq(b) \in Seq(S)
<1> DEFINE n == Len(b)
           Rec(f, m) == f = [i \in 1 .. m |-> IF i = 1 THEN b[i] ELSE f[i - 1] \o b[i]]
           at == CHOOSE f : Rec(f, n)
           I == {m \in 0 .. n : \E f : Rec(f, m)}
<1>1. n \in Nat /\ \A i \in 1 .. n : b[i] \in Seq(S)
    OBVIOUS
<1>2. 0 \in I
    <2> DEFINE f == [i \in 1 .. 0 |-> b[i]]
    <2>1. f = [i \in 1 .. 0 |-> IF i = 1 THEN b[i] ELSE f[i - 1] \o b[i]]
        OBVIOUS
    <2>2. Rec(f, 0)
        BY <2>1
    <2>3. 0 \in 0 .. n
        BY <1>1
    <2> HIDE DEF f
    <2> QED
        BY <2>2, <2>3
<1>3. ASSUME NEW m \in 0 .. n - 1, m \in I PROVE m + 1 \in I
    <2>1. PICK f : Rec(f, m)
        BY <1>3
    <2> HIDE DEF n
    <2> DEFINE g == [k \in 1 .. m + 1 |-> IF k = m + 1 THEN (IF m = 0 THEN b[1] ELSE f[m] \o b[m + 1]) ELSE f[k]]
    <2>2. m \in Nat /\ m + 1 \in 0 .. n
        BY <1>1
    <2>3. ASSUME NEW k \in 1 .. m + 1 PROVE g[k] = IF k = 1 THEN b[k] ELSE g[k - 1] \o b[k]
        <3>1. CASE k = m + 1
            <4>1. k - 1 = m /\ (k # 1 => m \in 1 .. m + 1 /\ m # m + 1 /\ m # 0)
                BY <3>1, <2>2
            <4>2. CASE k = 1
                BY <3>1, <4>1, <4>2
            <4>3. CASE k # 1
                <5>1. g[k - 1] = f[m]
                    BY <4>1, <4>3
                <5>2. g[k] = f[m] \o b[k]
                    BY <3>1, <4>1, <4>3
                <5> QED
                    BY <4>3, <5>1, <5>2
            <4> QED
                BY <4>2, <4>3
        <3>2. CASE k # m + 1
            <4>1. k \in 1 .. m /\ (k # 1 => k - 1 \in 1 .. m + 1 /\ k - 1 # m + 1)
                BY <3>2, <2>2
            <4> QED
                BY <2>1, <3>2, <4>1
        <3> QED
            BY <3>1, <3>2
    <2>4. g = [k \in 1 .. m + 1 |-> g[k]]
        OBVIOUS
    <2>5. Rec(g, m + 1)
        BY <2>3, <2>4
    <2> HIDE DEF g
    <2> QED
        BY <2>2, <2>5
<1>4. n \in I
    <2> HIDE DEF I, n
    <2>1. n \in 0 .. n
        BY <1>1
    <2> QED
        BY <1>1, <1>2, <1>3, <2>1, UpTo
<1>5. Rec(at, n)
    BY <1>4
<1>6. \A i \in 1 .. n : at[i] = IF i = 1 THEN b[i] ELSE at[i - 1] \o b[i]
    <2> HIDE DEF at, n
    <2> QED
        BY <1>5
<1>7. FlattenSeq(b) = IF n = 0 THEN b ELSE at[n]
    BY DEF FlattenSeq
<1> DEFINE J == {m \in 0 .. n : m = 0 \/ at[m] \in Seq(S)}
<1> HIDE DEF at
<1>8. 0 \in J
    BY <1>1
<1>9. ASSUME NEW m \in 0 .. n - 1, m \in J PROVE m + 1 \in J
    <2> HIDE DEF n
    <2>1. m + 1 \in 0 .. n /\ m + 1 \in 1 .. n /\ m + 1 - 1 = m /\ m + 1 # 0 /\ b[m + 1] \in Seq(S) /\ (m + 1 = 1 <=> m = 0)
        BY <1>1
    <2>2. at[m + 1] = IF m = 0 THEN b[m + 1] ELSE at[m] \o b[m + 1]
        BY <1>6, <2>1
    <2>3. at[m + 1] \in Seq(S)
        BY <1>9, <2>1, <2>2, ConcatProperties
    <2> QED
        BY <2>1, <2>3
<1>10. n \in J
    <2> HIDE DEF J, n
    <2>1. n \in 0 .. n
        BY <1>1
    <2> QED
        BY <1>1, <1>8, <1>9, <2>1, UpTo
<1>11. CASE n = 0
    <2>1. b = <<>>
        BY <1>11, EmptySeq
    <2> QED
        BY <1>7, <1>11, <2>1
<1>12. CASE n # 0
    BY <1>7, <1>10, <1>12
<1> QED
    BY <1>11, <1>12

EachOf(done, words) ==
    FlattenSeq([i \in DOMAIN done |-> [j \in DOMAIN words |-> Append(done[i], words[j])]])

LEMMA EachType ==
    ASSUME NEW W, NEW done \in Seq(Seq(W)), NEW words \in Seq(W)
    PROVE  EachOf(done, words) \in Seq(Seq(W))
<1>1. ASSUME NEW i \in DOMAIN done PROVE [j \in DOMAIN words |-> Append(done[i], words[j])] \in Seq(Seq(W))
    <2>1. done[i] \in Seq(W)
        OBVIOUS
    <2>2. [j \in 1 .. Len(words) |-> Append(done[i], words[j])] \in [1 .. Len(words) -> Seq(W)]
        BY <2>1, AppendProperties
    <2>3. DOMAIN words = 1 .. Len(words) /\ Len(words) \in Nat
        OBVIOUS
    <2> QED
        BY <2>2, <2>3, MadeSeq
<1>2. DOMAIN done = 1 .. Len(done) /\ Len(done) \in Nat
    OBVIOUS
<1> DEFINE b == [i \in DOMAIN done |-> [j \in DOMAIN words |-> Append(done[i], words[j])]]
<1>3. b \in [1 .. Len(done) -> Seq(Seq(W))]
    BY <1>1, <1>2
<1> HIDE DEF b
<1>4. b \in Seq(Seq(Seq(W)))
    BY <1>2, <1>3, MadeSeq
<1>5. FlattenSeq(b) \in Seq(Seq(W))
    BY <1>4, FlattenType
<1> QED
    BY <1>5 DEF b, EachOf

LEMMA CombinationsType ==
    ASSUME NEW W, NEW objects \in Seq(Seq(W))
    PROVE  Combinations(objects) \in Seq(Seq(W))
<1> DEFINE n == Len(objects)
           start == <<<<>>>>
           Rec(f, m) == f = [k \in 0 .. m |-> IF k = 0 THEN start ELSE EachOf(f[k - 1], objects[k])]
           all == CHOOSE f : Rec(f, n)
           I == {m \in 0 .. n : \E f : Rec(f, m)}
<1>1. n \in Nat /\ \A i \in 1 .. n : objects[i] \in Seq(W)
    OBVIOUS
<1>2. 0 \in I
    <2> DEFINE f == [k \in 0 .. 0 |-> start]
    <2>1. Rec(f, 0)
        OBVIOUS
    <2>2. 0 \in 0 .. n
        BY <1>1
    <2> HIDE DEF f, start
    <2> QED
        BY <2>1, <2>2
<1>3. ASSUME NEW m \in 0 .. n - 1, m \in I PROVE m + 1 \in I
    <2>1. PICK f : Rec(f, m)
        BY <1>3
    <2> DEFINE g == [k \in 0 .. m + 1 |-> IF k = m + 1 THEN EachOf(f[m], objects[m + 1]) ELSE f[k]]
    <2> HIDE DEF n, start
    <2>2. m \in Nat /\ m + 1 \in 0 .. n
        BY <1>1
    <2>3. ASSUME NEW k \in 0 .. m + 1 PROVE g[k] = IF k = 0 THEN start ELSE EachOf(g[k - 1], objects[k])
        <3>1. CASE k = m + 1
            <4>1. k - 1 = m /\ k # 0 /\ m \in 0 .. m + 1 /\ m # m + 1
                BY <3>1, <2>2
            <4> QED
                BY <3>1, <4>1
        <3>2. CASE k # m + 1
            <4>1. k \in 0 .. m /\ (k # 0 => k - 1 \in 0 .. m + 1 /\ k - 1 # m + 1)
                BY <3>2, <2>2
            <4> QED
                BY <2>1, <3>2, <4>1
        <3> QED
            BY <3>1, <3>2
    <2>4. g = [k \in 0 .. m + 1 |-> g[k]]
        OBVIOUS
    <2>5. Rec(g, m + 1)
        BY <2>3, <2>4
    <2> HIDE DEF g
    <2> QED
        BY <2>2, <2>5
<1>4. n \in I
    <2> HIDE DEF I, n
    <2>1. n \in 0 .. n
        BY <1>1
    <2> QED
        BY <1>1, <1>2, <1>3, <2>1, UpTo
<1>5. Rec(all, n)
    BY <1>4
<1>6. \A k \in 0 .. n : all[k] = IF k = 0 THEN start ELSE EachOf(all[k - 1], objects[k])
    <2> HIDE DEF all, n, start
    <2> QED
        BY <1>5
<1>7. Combinations(objects) = all[n]
    BY DEF Combinations, EachOf
<1> DEFINE J == {m \in 0 .. n : all[m] \in Seq(Seq(W))}
<1> HIDE DEF all
<1>8. 0 \in J
    <2>1. start \in Seq(Seq(W)) /\ 0 \in 0 .. n
        BY <1>1
    <2> HIDE DEF start, n
    <2> QED
        BY <1>6, <2>1
<1>9. ASSUME NEW m \in 0 .. n - 1, m \in J PROVE m + 1 \in J
    <2> HIDE DEF n, start
    <2>1. m + 1 \in 0 .. n /\ m + 1 # 0 /\ m + 1 - 1 = m /\ objects[m + 1] \in Seq(W)
        BY <1>1
    <2>2. all[m + 1] = EachOf(all[m], objects[m + 1])
        BY <1>6, <2>1
    <2> QED
        BY <1>9, <2>1, <2>2, EachType
<1>10. n \in J
    <2> HIDE DEF J, n
    <2>1. n \in 0 .. n
        BY <1>1
    <2> QED
        BY <1>1, <1>8, <1>9, <2>1, UpTo
<1> QED
    BY <1>7, <1>10

Cmds == {"perm", "xperm", "state", "type", "typeattr", "attr", "transition", "change", "genfscon"}
Terms == STRING \cup {"domain", None}
Subs == {Grammar[o].sub : o \in DOMAIN Grammar}
Statements == [cmd : Cmds, sub : Subs, objects : Seq(Seq(Terms))]

\* A rule of the grammar: what it reads and what stands for what is left out.
RuleIs(r) ==
    /\ r.cmd \in Cmds /\ r.default \in Seq(Terms)
    /\ \E S : r.operands \in Seq(S)

LEMMA PlainRule == ASSUME NEW cmd \in Cmds, NEW sub, NEW S, NEW operands \in Seq(S) PROVE RuleIs(Rule(cmd, sub, operands))
BY DEF RuleIs, Rule

LEMMA GrammarIs == ASSUME NEW o \in DOMAIN Grammar PROVE RuleIs(Grammar[o])
<1> DEFINE K == SUBSET {"word", "list", "star"}
<1>1. parse_single_word \in K /\ parse_seobj_no_star \in K /\ parse_seobj \in K
    BY DEF parse_single_word, parse_seobj_no_star, parse_seobj
<1> HIDE DEF K
<1>2. ASSUME NEW op PROVE RuleIs(NormalPerm(op))
    <2>1. <<parse_seobj, parse_seobj, parse_seobj, parse_seobj>> \in Seq(K)
        BY <1>1
    <2> QED
        BY <2>1, PlainRule DEF NormalPerm, Cmds
<1>3. ASSUME NEW op PROVE RuleIs(XPerm(op))
    <2>1. <<parse_seobj, parse_seobj, parse_seobj, parse_single_word, parse_seobj>> \in Seq(K)
        BY <1>1
    <2> QED
        BY <2>1, PlainRule DEF XPerm, Cmds
<1>4. ASSUME NEW op PROVE RuleIs(TypeState(op))
    <2>1. <<parse_seobj_no_star>> \in Seq(K)
        BY <1>1
    <2> QED
        BY <2>1, PlainRule DEF TypeState, Cmds
<1>5. RuleIs(TypeAttr)
    <2>1. <<parse_seobj_no_star, parse_seobj_no_star>> \in Seq(K)
        BY <1>1
    <2> QED
        BY <2>1, PlainRule DEF TypeAttr, Cmds
<1>6. RuleIs(Attr)
    <2>1. <<parse_single_word>> \in Seq(K)
        BY <1>1
    <2> QED
        BY <2>1, PlainRule DEF Attr, Cmds
<1>7. ASSUME NEW n \in Nat PROVE [i \in 1 .. n |-> parse_single_word] \in Seq(K)
    BY <1>1, MadeSeq
<1>8. ASSUME NEW op PROVE RuleIs(TypeChange(op))
    BY <1>7, PlainRule DEF TypeChange, Cmds
<1>9. RuleIs(GenFsCon)
    BY <1>7, PlainRule DEF GenFsCon, Cmds
<1>10. RuleIs(Type)
    <2>1. <<parse_single_word>> \in Seq(K) /\ <<"domain">> \in Seq(Terms)
        BY <1>1 DEF Terms
    <2>2. /\ Type.cmd = "type" /\ Type.default = <<"domain">>
          /\ Type.operands = <<parse_single_word>>
        BY DEF Type, Rule
    <2> QED
        BY <2>1, <2>2 DEF RuleIs, Cmds
<1>11. RuleIs(TypeTransition)
    <2>1. <<None>> \in Seq(Terms)
        BY DEF Terms
    <2>2. /\ TypeTransition.cmd = "transition" /\ TypeTransition.default = <<None>>
          /\ TypeTransition.operands = [i \in 1 .. 4 |-> parse_single_word]
        BY DEF TypeTransition, Rule
    <2> QED
        BY <1>7, <2>1, <2>2 DEF RuleIs, Cmds
<1> HIDE DEF K
<1> QED
    BY <1>2, <1>3, <1>4, <1>5, <1>6, <1>8, <1>9, <1>10, <1>11 DEF Grammar

LEMMA ParseType ==
    ASSUME NEW piece, piece.operands \in Seq(Operands)
    PROVE  parse(piece) \in Seq(Statements)
<1>1. CASE piece.op \notin DOMAIN Grammar
    <2>1. parse(piece) = <<>>
        BY <1>1 DEF parse
    <2> QED
        BY <2>1
<1>2. CASE piece.op \in DOMAIN Grammar
    <2> DEFINE rule == Grammar[piece.op]
               n == Len(rule.operands)
               ends == Len(piece.operands) = n /\ ~piece.operands[n].tail
               wanted == IF rule.optional = {} \/ ends THEN rule.operands ELSE Append(rule.operands, rule.optional)
               words == [i \in DOMAIN wanted |-> piece.operands[i].words]
               objects == IF rule.optional # {} /\ ends THEN Append(words, rule.default) ELSE words
               fails == ~Reads(piece.operands, rule.operands) \/ ~Reads(piece.operands, wanted)
    <2>1. parse(piece) = IF fails THEN <<>> ELSE <<[cmd |-> rule.cmd, sub |-> rule.sub, objects |-> objects]>>
        BY <1>2 DEF parse
    <2>2. rule.cmd \in Cmds /\ rule.default \in Seq(Terms) /\ rule.sub \in Subs
        BY <1>2, GrammarIs DEF RuleIs, Subs
    <2>3. PICK S : rule.operands \in Seq(S)
        BY <1>2, GrammarIs DEF RuleIs
    <2>4. wanted \in Seq(S \cup {rule.optional})
        BY <2>3
    <2> HIDE DEF wanted, rule, ends
    <2>5. DOMAIN wanted = 1 .. Len(wanted) /\ Len(wanted) \in Nat
        BY <2>4
    <2>6. ASSUME ~fails PROVE objects \in Seq(Seq(Terms))
        <3>1. Len(piece.operands) >= Len(wanted)
            BY <2>6 DEF Reads
        <3>2. ASSUME NEW i \in 1 .. Len(wanted) PROVE piece.operands[i].words \in Seq(Terms)
            <4>1. i \in 1 .. Len(piece.operands)
                BY <3>1, <2>5
            <4>2. piece.operands[i] \in Operands
                BY <4>1
            <4>3. piece.operands[i].words \in Seq(STRING)
                BY <4>2 DEF Operands
            <4> QED
                BY <4>3 DEF Terms
        <3>3. words \in [1 .. Len(wanted) -> Seq(Terms)]
            BY <2>5, <3>2
        <3> HIDE DEF words
        <3>4. words \in Seq(Seq(Terms))
            BY <2>5, <3>3, MadeSeq
        <3>5. Append(words, rule.default) \in Seq(Seq(Terms))
            BY <2>2, <3>4
        <3> QED
            BY <3>4, <3>5
    <2> HIDE DEF fails, objects
    <2>7. ASSUME ~fails PROVE parse(piece) \in Seq(Statements)
        <3>1. [cmd |-> rule.cmd, sub |-> rule.sub, objects |-> objects] \in Statements
            BY <2>2, <2>6, <2>7 DEF Statements
        <3> QED
            BY <2>1, <2>7, <3>1
    <2>8. ASSUME fails PROVE parse(piece) \in Seq(Statements)
        <3>1. parse(piece) = <<>>
            BY <2>1, <2>8
        <3> QED
            BY <3>1
    <2> QED
        BY <2>7, <2>8
<1> QED
    BY <1>1, <1>2

LEMMA TextType == ASSUME NEW text \in Texts PROVE parse_sepolicy(text) \in Seq(Statements)
<1> DEFINE P == [op : STRING, operands : Seq(Operands)]
           pieces == FlattenSeq(text)
           b == [i \in DOMAIN pieces |-> IF pieces[i].op = "#" THEN <<>> ELSE parse(pieces[i])]
<1>1. pieces \in Seq(P)
    <2>1. text \in Seq(Seq(P))
        BY TextsAssumption
    <2> HIDE DEF P
    <2> QED
        BY <2>1, FlattenType
<1>2. DOMAIN pieces = 1 .. Len(pieces) /\ Len(pieces) \in Nat
    BY <1>1
<1>3. ASSUME NEW i \in 1 .. Len(pieces)
      PROVE  (IF pieces[i].op = "#" THEN <<>> ELSE parse(pieces[i])) \in Seq(Statements)
    <2>1. pieces[i] \in P
        <3> HIDE DEF P, pieces
        <3> QED
            BY <1>1, <1>3
    <2>2. pieces[i].operands \in Seq(Operands)
        BY <2>1
    <2>3. parse(pieces[i]) \in Seq(Statements)
        BY <2>2, ParseType
    <2> HIDE DEF pieces
    <2> QED
        BY <2>3
<1> HIDE DEF pieces
<1>4. b \in [1 .. Len(pieces) -> Seq(Statements)]
    BY <1>2, <1>3
<1> HIDE DEF b
<1>5. b \in Seq(Seq(Statements))
    BY <1>2, <1>4, MadeSeq
<1>6. FlattenSeq(b) \in Seq(Statements)
    BY <1>5, FlattenType
<1> QED
    BY <1>6 DEF b, pieces, parse_sepolicy

Atoms == [cmd : Cmds, sub : Subs, sepol : Seq(Terms)]

LEMMA AtomsType == ASSUME NEW text \in Texts PROVE flatten_atomic_statements(text) \in Seq(Atoms)
<1> DEFINE sts == parse_sepolicy(text)
           b == [i \in DOMAIN sts |-> AtomicStatements(sts[i])]
<1>1. sts \in Seq(Statements)
    BY TextType
<1>2. ASSUME NEW st \in Statements PROVE AtomicStatements(st) \in Seq(Atoms)
    <2> DEFINE all == Combinations(st.objects)
               f == [i \in DOMAIN all |-> [cmd |-> st.cmd, sub |-> st.sub, sepol |-> all[i]]]
    <2>1. all \in Seq(Seq(Terms)) /\ st.cmd \in Cmds /\ st.sub \in Subs
        BY <1>2, CombinationsType DEF Statements
    <2> HIDE DEF all
    <2>2. DOMAIN all = 1 .. Len(all) /\ Len(all) \in Nat /\ \A i \in 1 .. Len(all) : all[i] \in Seq(Terms)
        BY <2>1
    <2>3. f \in [1 .. Len(all) -> Atoms]
        BY <2>1, <2>2 DEF Atoms
    <2> HIDE DEF f
    <2>4. f \in Seq(Atoms)
        BY <2>2, <2>3, MadeSeq
    <2> QED
        BY <2>4 DEF f, all, AtomicStatements
<1> HIDE DEF sts
<1>3. DOMAIN sts = 1 .. Len(sts) /\ Len(sts) \in Nat /\ \A i \in 1 .. Len(sts) : sts[i] \in Statements
    BY <1>1
<1>4. b \in [1 .. Len(sts) -> Seq(Atoms)]
    BY <1>2, <1>3
<1> HIDE DEF b
<1>5. b \in Seq(Seq(Atoms))
    BY <1>3, <1>4, MadeSeq
<1>6. FlattenSeq(b) \in Seq(Atoms)
    BY <1>5, FlattenType
<1> QED
    BY <1>6 DEF b, sts, flatten_atomic_statements

LEMMA SentType ==
    ASSUME NEW text \in Texts
    PROVE  \E S : serialize_atomic_statements(flatten_atomic_statements(text)) \in Seq(S)
<1> DEFINE S == Terms \cup Cmds \cup Subs \cup {"0", "1", "NUL"}
           sts == flatten_atomic_statements(text)
           b == [i \in DOMAIN sts |-> append_atomic_statement(sts[i])]
<1>1. sts \in Seq(Atoms)
    BY AtomsType
<1>2. ASSUME NEW word \in Terms PROVE encode_policy_object(word) \in Seq(S)
    <2>1. "0" \in S /\ "1" \in S /\ "NUL" \in S /\ word \in S
        BY <1>2
    <2> HIDE DEF S
    <2>2. <<"0", "NUL">> \in Seq(S) /\ <<"1", word, "NUL">> \in Seq(S)
        BY <2>1
    <2> QED
        BY <2>2 DEF encode_policy_object
<1>3. ASSUME NEW st \in Atoms PROVE append_atomic_statement(st) \in Seq(S)
    <2> DEFINE n == cmd_expected_argc[st.cmd]
               f == [i \in 1 .. n |-> encode_policy_object(IF i \in DOMAIN st.sepol THEN st.sepol[i] ELSE None)]
    <2>1. st.cmd \in Cmds /\ st.sub \in Subs /\ st.sepol \in Seq(Terms)
        BY <1>3 DEF Atoms
    <2>2. n \in Nat
        BY <2>1 DEF Cmds, cmd_expected_argc
    <2>3. ASSUME NEW i \in 1 .. n
          PROVE  (IF i \in DOMAIN st.sepol THEN st.sepol[i] ELSE None) \in Terms
        BY <2>1 DEF Terms
    <2> HIDE DEF n
    <2>4. f \in [1 .. n -> Seq(S)]
        BY <1>2, <2>3
    <2> HIDE DEF f
    <2>5. f \in Seq(Seq(S))
        BY <2>2, <2>4, MadeSeq
    <2>6. FlattenSeq(f) \in Seq(S)
        BY <2>5, FlattenType
    <2>7. <<st.cmd, st.sub>> \in Seq(S)
        <3>1. st.cmd \in S /\ st.sub \in S
            BY <2>1
        <3> HIDE DEF S
        <3> QED
            BY <3>1
    <2>8. <<st.cmd, st.sub>> \o FlattenSeq(f) \in Seq(S)
        BY <2>6, <2>7, ConcatProperties
    <2> QED
        BY <2>8 DEF f, n, append_atomic_statement
<1> HIDE DEF sts, S
<1>4. DOMAIN sts = 1 .. Len(sts) /\ Len(sts) \in Nat /\ \A i \in 1 .. Len(sts) : sts[i] \in Atoms
    BY <1>1
<1>5. b \in [1 .. Len(sts) -> Seq(S)]
    BY <1>3, <1>4
<1> HIDE DEF b
<1>6. b \in Seq(Seq(S))
    BY <1>4, <1>5, MadeSeq
<1>7. FlattenSeq(b) \in Seq(S)
    BY <1>6, FlattenType
<1> QED
    BY <1>7 DEF b, sts, serialize_atomic_statements

-----------------------------------------------------------------------------
(* The rules in use. *)

\* A batch on its way is a sequence of words; nothing has taken back what the
\* policy of the boot says, nor, but for a "deny", what the module's rules say.
RulesInv ==
    /\ \A p \in Procs : th[p].pc \in {"batch", "publish"} => \E S : th[p].pay \in Seq(S)
    /\ GoodDb(ideal) /\ Grows(Boot, ideal)
    /\ published # <<>> /\ NoDenial => SuReady(ideal)

LEMMA RulesStart == Init => RulesInv
<1>1. GoodDb(Boot) /\ Grows(Boot, Boot)
    BY GoodBoot, GrowsSame
<1>2. Init => ideal = Boot /\ published = <<>> /\ \A p \in Procs : th[p].pc = "idle"
    BY DEF Init, Threads, Idle
<1> QED
    BY <1>1, <1>2 DEF RulesInv

\* A step that publishes nothing and sends nothing.
LEMMA OthersLeave ==
    ASSUME RulesInv, UNCHANGED <<published, ideal>>,
           \A p \in Procs : th'[p].pc \in {"batch", "publish"}
               => th[p].pc \in {"batch", "publish"} /\ th'[p].pay = th[p].pay
    PROVE  RulesInv'
<1>1. NoDenial' <=> NoDenial
    BY DEF NoDenial
<1> QED
    BY <1>1 DEF RulesInv

LEMMA SendLeaves ==
    ASSUME PolicyInv, RulesInv, NEW p \in Procs, NEW S, NEW pay \in Seq(S), SendBatch(p, pay)
    PROVE  RulesInv'
<1>1. /\ th' = [th EXCEPT ![p].pc = "batch", ![p].pay = pay] /\ UNCHANGED <<published, ideal>>
    BY DEF SendBatch
<1>2. p \in Threads /\ Procs \subseteq Threads /\ DOMAIN th = Threads /\ \A t \in Threads : DOMAIN th[t] = Fields
    BY DEF PolicyInv, PolicyTypes, Threads
<1>3. th'[p].pay = pay /\ \A q \in Procs : q # p => th'[q] = th[q]
    BY <1>1, <1>2 DEF Fields
<1>4. NoDenial' <=> NoDenial
    BY <1>1 DEF NoDenial
<1>5. \A q \in Procs : th'[q].pc \in {"batch", "publish"} => \E T : th'[q].pay \in Seq(T)
    <2> SUFFICES ASSUME NEW q \in Procs, th'[q].pc \in {"batch", "publish"} PROVE \E T : th'[q].pay \in Seq(T)
        OBVIOUS
    <2>1. CASE q = p
        BY <1>3, <2>1
    <2>2. CASE q # p
        BY <1>3, <2>2 DEF RulesInv
    <2> QED
        BY <2>1, <2>2
<1> QED
    BY <1>1, <1>4, <1>5 DEF RulesInv

LEMMA AcceptLeaves ==
    ASSUME NEW S, NEW pay \in Seq(S), NEW db, GoodDb(db)
    PROVE  Leaves(db, Accept(pay, db), Gentle(pay), FALSE)
<1>1. Leaves(db, RunBatch(pay, db).db, Gentle(pay), FALSE)
    BY BatchLeaves
<1>2. Leaves(db, db, Gentle(pay), FALSE)
    BY GrowsSame DEF Leaves
<1> QED
    BY <1>1, <1>2 DEF Accept

LEMMA PublishLeaves ==
    ASSUME PolicyInv, RulesInv, NEW t \in Threads, Publish(t)
    PROVE  RulesInv'
<1>1. /\ th[t].pc = "publish" /\ Go(t, "destroy")
      /\ published' = Append(published, IF t = Rules THEN <<Rules>> ELSE th[t].pay)
      /\ ideal' = IF t = Rules THEN WithKernelsuRules(ideal) ELSE Accept(th[t].pay, ideal)
    BY DEF Publish
<1>2. Moves(t, "publish", "destroy") /\ th'[t].pay = th[t].pay
    BY <1>1, GoMoves
<1>3. \A p \in Procs : th'[p].pc \in {"batch", "publish"} => \E S : th'[p].pay \in Seq(S)
    BY <1>2, Names DEF Moves, RulesInv
<1>4. CASE t = Rules
    <2>1. ideal = Boot
        BY <1>1, <1>4 DEF PolicyInv, BootInv
    <2>2. GoodDb(ideal') /\ Grows(Boot, ideal') /\ SuReady(ideal')
        BY <1>1, <1>4, <2>1, RulesLeave
    <2> QED
        BY <1>3, <2>2 DEF RulesInv
<1>5. CASE t # Rules
    <2>1. t \in Procs
        BY <1>5, Names
    <2>2. PICK S : th[t].pay \in Seq(S)
        BY <1>1, <2>1 DEF RulesInv
    <2>3. Leaves(ideal, ideal', Gentle(th[t].pay), FALSE)
        BY <1>1, <1>5, <2>2, AcceptLeaves DEF RulesInv
    <2>4. GoodDb(ideal') /\ Grows(Boot, ideal')
        BY <2>3, GrowsOn DEF Leaves, RulesInv
    <2>5. ASSUME NoDenial' PROVE SuReady(ideal')
        <3>1. published # <<>>
            BY <1>1, <2>1 DEF PolicyInv, BootInv
        <3>2. PICK T : published \in Seq(T)
            BY DEF PolicyInv, PolicyTypes
        <3> DEFINE pay == th[t].pay
        <3>3. published' = Append(published, pay)
            BY <1>1, <1>5
        <3> HIDE DEF pay
        <3>4. Range(published') = Range(published) \cup {pay}
            <4>1. /\ DOMAIN published' = 1 .. Len(published) + 1 /\ DOMAIN published = 1 .. Len(published)
                  /\ Len(published) \in Nat
                  /\ published'[Len(published) + 1] = pay
                  /\ \A i \in 1 .. Len(published) : published'[i] = published[i]
                BY <3>2, <3>3
            <4> QED
                BY <4>1 DEF Range
        <3>5. Gentle(pay) /\ NoDenial
            BY <2>5, <3>4 DEF NoDenial, Gentle
        <3>6. SuReady(ideal)
            BY <3>1, <3>5 DEF RulesInv
        <3>7. Grows(ideal, ideal') /\ Allows(ideal, ideal')
            BY <2>3, <3>5 DEF Leaves, pay
        <3> QED
            BY <3>6, <3>7, SuReadyStays
    <2> QED
        BY <1>3, <2>4, <2>5 DEF RulesInv
<1> QED
    BY <1>4, <1>5

LEMMA StepLeaves ==
    ASSUME PolicyInv, RulesInv, Next
    PROVE  RulesInv'
<1>1. ASSUME NEW t \in Threads, NEW pc2 \in {"dup", "lock", "destroy", "unlock"}, Go(t, pc2), UNCHANGED <<published, ideal>>
      PROVE  RulesInv'
    <2>1. th'[t].pc = pc2 /\ \A u \in Threads : u # t => th'[u] = th[u]
        BY <1>1, GoMoves DEF Moves
    <2> QED
        BY <1>1, <2>1, OthersLeave DEF Threads
<1>2. Rules \in Threads /\ Procs \subseteq Threads /\ Rules \notin Procs
    BY Names
<1>3. ASSUME NEW t \in Threads, UNCHANGED <<published, ideal>>,
             \A u \in Threads : u # t => th'[u] = th[u], t \in Procs => th'[t].pay = th[t].pay /\ th[t].pc = "batch"
      PROVE  RulesInv'
    BY <1>2, <1>3, OthersLeave
<1>4. CASE ReadBeforeLock
    <2>1. \A u \in Threads : u # Rules => th'[u] = th[u]
        BY <1>2, <1>4 DEF ReadBeforeLock, PolicyInv, PolicyTypes
    <2> QED
        BY <1>2, <1>3, <1>4, <2>1 DEF ReadBeforeLock
<1>5. CASE TakeBackup
    BY <1>1, <1>2, <1>5 DEF TakeBackup
<1>6. CASE apply_kernelsu_rules
    <2>1. \A u \in Threads : u # Rules => th'[u] = th[u]
        BY <1>2, <1>6 DEF apply_kernelsu_rules, Go, PolicyInv, PolicyTypes
    <2> QED
        BY <1>2, <1>3, <1>6, <2>1 DEF apply_kernelsu_rules
<1>7. ASSUME NEW p \in Procs, handle_sepolicy(p) PROVE RulesInv'
    <2>1. p \in Threads /\ DOMAIN th = Threads /\ DOMAIN th[p] = Fields
        BY <1>2 DEF PolicyInv, PolicyTypes
    <2>2. /\ th[p].pc = "batch" /\ UNCHANGED <<published, ideal>>
          /\ \/ Go(p, "unlock")
             \/ \E n \in Slots : th' = [th EXCEPT ![p].pc = "publish", ![p].old = policy, ![p].new = n]
        BY <1>7 DEF handle_sepolicy
    <2>3. th'[p].pay = th[p].pay /\ \A u \in Threads : u # p => th'[u] = th[u]
        BY <2>1, <2>2 DEF Go, Fields
    <2> QED
        BY <1>3, <2>1, <2>2, <2>3
<1>8. ASSUME NEW p \in Procs, NEW pay \in Payloads, SendBatch(p, pay) PROVE RulesInv'
    <2>1. pay \in Seq(STRING)
        BY SePolicyAssumption
    <2> QED
        BY <1>8, <2>1, SendLeaves
<1>9. ASSUME NEW t \in Threads, Publish(t) PROVE RulesInv'
    BY <1>9, PublishLeaves
<1>10. ASSUME NEW t \in Threads, ksu_destroy_sepolicy(t) PROVE RulesInv'
    BY <1>1, <1>10 DEF ksu_destroy_sepolicy
<1>11. ASSUME NEW t \in Threads, Unlock(t) PROVE RulesInv'
    <2>1. /\ UNCHANGED <<published, ideal>> /\ th'[t].pc \in {"idle", "failed"}
          /\ \A u \in Threads : u # t => th'[u] = th[u]
        BY <1>11 DEF Unlock, PolicyInv, PolicyTypes, Idle
    <2> QED
        BY <1>2, <2>1, OthersLeave
<1>12. ASSUME NEW r \in Readers, Read(r) PROVE RulesInv'
    BY <1>12, OthersLeave DEF Read
<1> QED
    BY <1>4, <1>5, <1>6, <1>7, <1>8, <1>9, <1>10, <1>11, <1>12 DEF Next

LEMMA RulesAlways ==
    ASSUME ~LateLoad
    PROVE  KsudSpec => [](PolicyInv /\ RulesInv)
<1>1. PolicyInv /\ RulesInv /\ [KsudNext]_vars => RulesInv'
    <2> SUFFICES ASSUME PolicyInv, RulesInv, [KsudNext]_vars
                 PROVE  RulesInv'
        OBVIOUS
    <2>1. CASE UNCHANGED vars
        BY <2>1, OthersLeave DEF vars
    <2>2. ASSUME NEW p \in Procs, NEW text \in Texts, live_patch(p, text)
          PROVE  RulesInv'
        <3> DEFINE pay == serialize_atomic_statements(flatten_atomic_statements(text))
        <3>1. SendBatch(p, pay)
            BY <2>2 DEF live_patch
        <3>2. PICK S : pay \in Seq(S)
            BY SentType
        <3> HIDE DEF pay
        <3> QED
            BY <3>1, <3>2, SendLeaves
    <2>3. CASE Next
        BY <2>3, StepLeaves
    <2> QED
        BY <2>1, <2>2, <2>3 DEF KsudNext
<1>2. KsudSpec => []PolicyInv
    BY PolicyAlways
<1> QED
    BY RulesStart, <1>1, <1>2, PTL DEF KsudSpec

\* Rules decide what they say: once the module's rules are in, su may do
\* everything with every type of the boot's policy, and what it gets no batch
\* but a "deny" takes back; and "allow", "deny" and "dontaudit" change the
\* decisions they name and no others.
THEOREM RulesCorrect ==
    ASSUME ~LateLoad
    PROVE  KsudSpec => []RulesEffective
<1>1. PolicyInv /\ RulesInv => RulesEffective
    <2> SUFFICES ASSUME PolicyInv, RulesInv PROVE SuUnconstrained /\ RuleEffectExact
        BY DEF RulesEffective
    <2>1. mem[policy] = ideal
        BY DEF PolicyInv, ContentInv
    <2>2. GoodDb(mem[policy]) /\ Grows(Boot, mem[policy]) /\ (published # <<>> /\ NoDenial => SuReady(mem[policy]))
        BY <2>1 DEF RulesInv
    <2> QED
        BY <2>2, SuFree, EffectsExact
<1> QED
    BY <1>1, RulesAlways, PTL

=============================================================================
