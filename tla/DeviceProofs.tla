---------------------------- MODULE DeviceProofs ----------------------------
(***************************************************************************)
(* Proofs about parts of a device: who the manager is and what an app may  *)
(* inherit (Manager), the files and mounts behind the supercalls           *)
(* (Supercalls), what is left of ksud's settings after a boot              *)
(* (KsudConfig), the injection into init.rc (RcInject), what a boot        *)
(* activates of the modules (KsudModules), and what ksud's log says of the *)
(* kernel's events (KsudLog); for all their constants.                     *)
(***************************************************************************)
EXTENDS RcInject, Manager, Supercalls, KsudConfig, KsudModules, KsudLog,
        FiniteSetTheorems, SequenceTheorems, WellFoundedInduction, TLAPS

(***************************************************************************)
(* The manager.  What apk_sign.c accepts is a walk over the cells of a     *)
(* file, checked by TLC on apks that come close; here it is taken to       *)
(* accept the author's apks and no others, of which there is one.          *)
(***************************************************************************)
OneSigner ==
    /\ \A a \in Apps : is_manager_apk(a) <=> a \in Genuine
    /\ \A a, b \in Genuine : a = b

(* An app of the list has a directory; while a list is handled it is the   *)
(* one on the disk.                                                        *)
ListInv ==
    /\ packages \in Lists /\ DOMAIN packages \subseteq dirs
    /\ obs \in [pc : {"idle", "check", "search", "prune"}, uid_list : Lists,
               todo : SUBSET Apps]
    /\ obs.pc # "idle" => obs.uid_list = packages
    /\ dirs \subseteq Apps

Crowned ==
    (\E a \in Genuine : a \in DOMAIN packages) =>
        \E b \in DOMAIN packages : manager = packages[b]

(* The cache never holds the manager's apk.                                *)
(* The first time a list is handled it takes the crown from a manager that *)
(* is gone, the second time it finds the new one.                          *)
CrownInv ==
    /\ cache \cap Genuine = {} /\ manager \in Uids \cup {KSU_INVALID_APPID}
    /\ settled \in 0..2
    /\ settled = 2 /\ obs.pc \in {"idle", "check"} => Crowned
    /\ settled = 1 /\ obs.pc \in {"idle", "check"} => Crowned \/ manager = KSU_INVALID_APPID
    /\ settled = 0 /\ obs.pc = "prune" => Crowned \/ manager = KSU_INVALID_APPID
    /\ settled # 0 /\ obs.pc = "prune" => Crowned
    /\ obs.pc = "search" =>
          Crowned \/ (\A a \in Genuine : a \in DOMAIN packages => a \in obs.todo)

ManagerInv == ListInv /\ CrownInv /\ NoInheritedGrant

LEMMA ListsAreFunctions ==
    \A new \in Lists : DOMAIN new \subseteq Apps /\ \A a \in DOMAIN new : new[a] \in Uids
BY DEF Lists

LEMMA NoListIsList == NoList \in Lists /\ DOMAIN NoList = {}
<1>1. NoList \in [{} -> Uids] /\ DOMAIN NoList = {}
    BY DEF NoList
<1> QED
    BY <1>1 DEF Lists

\* At first there is no list and no manager.
LEMMA ManagerStart == ManagerInit => ManagerInv
<1> SUFFICES ASSUME ManagerInit PROVE ManagerInv
    OBVIOUS
<1> USE ManagerAssumption
<1>1. packages \in Lists /\ DOMAIN packages = {} /\ NoList \in Lists
    BY NoListIsList DEF ManagerInit
<1> QED
    BY <1>1 DEF ManagerInit, ManagerInv, ListInv, CrownInv, NoInheritedGrant, Crowned

\* The list that is handled is the list on the disk, and its apps are there.
LEMMA ListKeeps ==
    ASSUME ListInv, [ManagerNext]_managerVars
    PROVE  ListInv'
<1> USE ManagerAssumption, ListsAreFunctions DEF ListInv, managerVars, KSU_INVALID_APPID
<1>1. ASSUME NEW a \in Apps, ChangeDirs(a) PROVE ListInv'
    BY <1>1 DEF ChangeDirs
<1>2. ASSUME NEW a \in Apps, my_actor(a) PROVE ListInv'
    BY <1>2 DEF my_actor, crown_manager
<1>3. ASSUME NEW a \in Apps, Grant(a) PROVE ListInv'
    BY <1>3 DEF Grant
<1>4. ASSUME NEW new \in Lists, ksu_handle_inode_event(new) PROVE ListInv'
    BY <1>4 DEF ksu_handle_inode_event
<1>5. ASSUME track_throne PROVE ListInv'
    BY <1>5 DEF track_throne
<1>6. ASSUME search_manager PROVE ListInv'
    BY <1>6 DEF search_manager
<1>7. ASSUME Prune PROVE ListInv'
    BY <1>7, NoListIsList DEF Prune, is_uid_exist
<1>8. ASSUME BootReads PROVE ListInv'
    BY <1>8 DEF BootReads
<1>9. ASSUME BootPrunes PROVE ListInv'
    BY <1>9 DEF BootPrunes
<1>10. CASE UNCHANGED managerVars
    BY <1>10
<1> HIDE DEF ListInv, managerVars, KSU_INVALID_APPID
<1> QED
    BY <1>1, <1>2, <1>3, <1>4, <1>5, <1>6, <1>7, <1>8, <1>9, <1>10 DEF ManagerNext

\* A list that is handled twice crowns the manager it has.
LEMMA CrownKeeps ==
    ASSUME OneSigner, ListInv, CrownInv, [ManagerNext]_managerVars
    PROVE  CrownInv'
<1> USE ManagerAssumption, ListsAreFunctions DEF OneSigner, ListInv, CrownInv, Crowned, managerVars, KSU_INVALID_APPID
<1>1. ASSUME NEW a \in Apps, ChangeDirs(a) PROVE CrownInv'
    BY <1>1 DEF ChangeDirs
<1>2. ASSUME NEW a \in Apps, my_actor(a) PROVE CrownInv'
    BY <1>2 DEF my_actor, crown_manager
<1>3. ASSUME NEW a \in Apps, Grant(a) PROVE CrownInv'
    BY <1>3 DEF Grant
<1>4. ASSUME NEW new \in Lists, ksu_handle_inode_event(new) PROVE CrownInv'
    BY <1>4 DEF ksu_handle_inode_event
<1>5. ASSUME track_throne PROVE CrownInv'
    BY <1>5 DEF track_throne
<1>6. ASSUME search_manager PROVE CrownInv'
    BY <1>6 DEF search_manager
<1>7. ASSUME Prune PROVE CrownInv'
    BY <1>7 DEF Prune, is_uid_exist
<1>8. ASSUME BootReads PROVE CrownInv'
    BY <1>8 DEF BootReads
<1>9. ASSUME BootPrunes PROVE CrownInv'
    BY <1>9 DEF BootPrunes
<1>10. CASE UNCHANGED managerVars
    BY <1>10
<1> HIDE DEF OneSigner, ListInv, CrownInv, Crowned, managerVars, KSU_INVALID_APPID
<1> QED
    BY <1>1, <1>2, <1>3, <1>4, <1>5, <1>6, <1>7, <1>8, <1>9, <1>10 DEF ManagerNext

\* A list that is handled takes the grants of apps that are gone.
LEMMA GrantKeeps ==
    ASSUME ListInv, NoInheritedGrant, [ManagerNext]_managerVars
    PROVE  NoInheritedGrant'
<1> USE ManagerAssumption, ListsAreFunctions DEF ListInv, NoInheritedGrant, managerVars
<1>1. ASSUME NEW a \in Apps, ChangeDirs(a) PROVE NoInheritedGrant'
    BY <1>1 DEF ChangeDirs
<1>2. ASSUME NEW a \in Apps, my_actor(a) PROVE NoInheritedGrant'
    BY <1>2 DEF my_actor, crown_manager
<1>3. ASSUME NEW a \in Apps, Grant(a) PROVE NoInheritedGrant'
    BY <1>3 DEF Grant
<1>4. ASSUME NEW new \in Lists, ksu_handle_inode_event(new) PROVE NoInheritedGrant'
    BY <1>4 DEF ksu_handle_inode_event
<1>5. ASSUME track_throne PROVE NoInheritedGrant'
    BY <1>5 DEF track_throne
<1>6. ASSUME search_manager PROVE NoInheritedGrant'
    BY <1>6 DEF search_manager
<1>7. ASSUME Prune PROVE NoInheritedGrant'
    BY <1>7 DEF Prune, is_uid_exist
<1>8. ASSUME BootReads PROVE NoInheritedGrant'
    BY <1>8 DEF BootReads
<1>9. ASSUME BootPrunes PROVE NoInheritedGrant'
    BY <1>9 DEF BootPrunes
<1>10. CASE UNCHANGED managerVars
    BY <1>10
<1> HIDE DEF ListInv, NoInheritedGrant, managerVars
<1> QED
    BY <1>1, <1>2, <1>3, <1>4, <1>5, <1>6, <1>7, <1>8, <1>9, <1>10 DEF ManagerNext

\* Every behaviour keeps the invariant.
LEMMA ManagerAlways == ASSUME OneSigner PROVE ManagerSpec => []ManagerInv
<1>1. ManagerInv /\ [ManagerNext]_managerVars => ManagerInv'
    BY ListKeeps, CrownKeeps, GrantKeeps DEF ManagerInv
<1> QED
    BY <1>1, ManagerStart, PTL DEF ManagerSpec

\* track_throne(): a genuine app is the manager when its list was handled for
\* the second time, for any apps and appids.
THEOREM CrownCorrect ==
    ASSUME OneSigner
    PROVE  ManagerSpec => []CrownedByTheSecondEvent
<1>1. ManagerInv => CrownedByTheSecondEvent
    BY DEF ManagerInv, CrownInv, Crowned, CrownedByTheSecondEvent
<1> QED
    BY <1>1, ManagerAlways, PTL

\* ksu_prune_allowlist(): no grant passes to another app with its appid.
THEOREM GrantsCorrect == ManagerSpec => []NoInheritedGrant
<1>1. ManagerInit => ListInv /\ NoInheritedGrant
    BY ManagerStart DEF ManagerInv
<1>2. ListInv /\ NoInheritedGrant /\ [ManagerNext]_managerVars
         => ListInv' /\ NoInheritedGrant'
    BY ListKeeps, GrantKeeps
<1> QED
    BY <1>1, <1>2, PTL DEF ManagerSpec

\* crown_manager(): the crown goes to an app with the author's apk, and only
\* with the appid that the list gives it.
THEOREM SignerCorrect ==
    ASSUME OneSigner
    PROVE  ManagerSpec => CrownGoesToSigner
<1> DEFINE Crowning == manager' \notin {manager, KSU_INVALID_APPID} =>
                          \E a \in Genuine \cap DOMAIN packages : packages[a] = manager'
<1>1. ListInv /\ [ManagerNext]_managerVars => Crowning
    <2> SUFFICES ASSUME ListInv, [ManagerNext]_managerVars PROVE Crowning
        OBVIOUS
    <2>1. ASSUME NEW a \in Apps, my_actor(a) PROVE Crowning
        BY <2>1 DEF my_actor, crown_manager, OneSigner, ListInv
    <2>2. ASSUME track_throne PROVE Crowning
        BY <2>2 DEF track_throne
    <2>3. ASSUME UNCHANGED manager PROVE Crowning
        BY <2>3
    <2> HIDE DEF Crowning
    <2> QED
        BY <2>1, <2>2, <2>3 DEF ManagerNext, ChangeDirs, Grant, ksu_handle_inode_event,
           search_manager, Prune, BootReads, BootPrunes, managerVars
<1>2. ManagerInit => ListInv
    BY ManagerStart DEF ManagerInv
<1>3. ListInv /\ [ManagerNext]_managerVars => ListInv'
    BY ListKeeps
<1>4. ListInv /\ [ManagerNext]_managerVars => [Crowning]_managerVars
    BY <1>1
<1> QED
    BY <1>2, <1>3, <1>4, PTL DEF ManagerSpec, CrownGoesToSigner

-----------------------------------------------------------------------------
(***************************************************************************)
(* The files behind the supercalls.  What holds a file is counted by two   *)
(* sets: the tables it is in, and the wrappers that forward to it.         *)
(***************************************************************************)
TablesOf(t, f) == {p \in Procs : f \in t[p]}
WrapsOf(k, o, f) == {w \in Files : k[w] = "wrapper" /\ o[w] = f}

LEMMA HoldersAre ==
    \A f : Holders(f) = Cardinality(TablesOf(fds, f)) + Cardinality(WrapsOf(kind, orig, f))
BY DEF Holders, TablesOf, WrapsOf

\* Both sets are finite.
LEMMA TablesFinite ==
    \A t, f : IsFiniteSet(TablesOf(t, f)) /\ Cardinality(TablesOf(t, f)) \in Nat
<1> SUFFICES ASSUME NEW t, NEW f
             PROVE  IsFiniteSet(TablesOf(t, f)) /\ Cardinality(TablesOf(t, f)) \in Nat
    OBVIOUS
<1>1. TablesOf(t, f) \in SUBSET Procs
    BY DEF TablesOf
<1> QED
    BY <1>1, FS_Subset, FS_CardinalityType, SupercallAssumption

LEMMA WrapsFinite ==
    \A k, o, f : IsFiniteSet(WrapsOf(k, o, f)) /\ Cardinality(WrapsOf(k, o, f)) \in Nat
<1> SUFFICES ASSUME NEW k, NEW o, NEW f
             PROVE  IsFiniteSet(WrapsOf(k, o, f)) /\ Cardinality(WrapsOf(k, o, f)) \in Nat
    OBVIOUS
<1>1. WrapsOf(k, o, f) \in SUBSET Files
    BY DEF WrapsOf
<1> QED
    BY <1>1, FS_Subset, FS_CardinalityType, SupercallAssumption

\* A table that gets a file, or gives it up.
Gets(t, u, p, f) ==
    f \notin t[p] /\ u[p] = t[p] \cup {f} /\ \A q \in Procs : q # p => u[q] = t[q]

Gives(t, u, p, f) ==
    f \in t[p] /\ u[p] = t[p] \ {f} /\ \A q \in Procs : q # p => u[q] = t[q]

LEMMA TableGets ==
    ASSUME NEW t, NEW u, NEW p \in Procs, NEW f, Gets(t, u, p, f)
    PROVE  \A g : Cardinality(TablesOf(u, g)) =
                  Cardinality(TablesOf(t, g)) + (IF g = f THEN 1 ELSE 0)
<1>1. TablesOf(u, f) = TablesOf(t, f) \cup {p} /\ p \notin TablesOf(t, f)
    BY DEF TablesOf, Gets
<1>2. IsFiniteSet(TablesOf(t, f))
    BY TablesFinite
<1>3. Cardinality(TablesOf(u, f)) = Cardinality(TablesOf(t, f)) + 1
    BY <1>1, <1>2, FS_AddElement
<1>4. \A g : g # f => TablesOf(u, g) = TablesOf(t, g)
    BY DEF TablesOf, Gets
<1>5. \A g : Cardinality(TablesOf(t, g)) \in Nat
    BY TablesFinite
<1> QED
    BY <1>3, <1>4, <1>5

LEMMA TableGives ==
    ASSUME NEW t, NEW u, NEW p \in Procs, NEW f, Gives(t, u, p, f)
    PROVE  \A g : Cardinality(TablesOf(u, g)) =
                  Cardinality(TablesOf(t, g)) - (IF g = f THEN 1 ELSE 0)
<1>1. TablesOf(u, f) = TablesOf(t, f) \ {p} /\ p \in TablesOf(t, f)
    BY DEF TablesOf, Gives
<1>2. IsFiniteSet(TablesOf(t, f))
    BY TablesFinite
<1>3. Cardinality(TablesOf(u, f)) = Cardinality(TablesOf(t, f)) - 1
    BY <1>1, <1>2, FS_RemoveElement
<1>4. \A g : g # f => TablesOf(u, g) = TablesOf(t, g)
    BY DEF TablesOf, Gives
<1>5. \A g : Cardinality(TablesOf(t, g)) \in Nat
    BY TablesFinite
<1> QED
    BY <1>3, <1>4, <1>5

\* A file becomes a wrapper of f, or a wrapper is released.
Made(k, o, k2, o2, w, f) ==
    /\ k[w] # "wrapper" /\ k2[w] = "wrapper" /\ o2[w] = f
    /\ \A v \in Files : v # w => /\ k2[v] = "wrapper" <=> k[v] = "wrapper"
                                 /\ k[v] = "wrapper" => o2[v] = o[v]

Released(k, o, k2, o2, w) ==
    /\ k[w] = "wrapper" /\ k2[w] # "wrapper"
    /\ \A v \in Files : v # w => k2[v] = k[v] /\ o2[v] = o[v]

LEMMA WrapperMade ==
    ASSUME NEW k, NEW o, NEW k2, NEW o2, NEW w \in Files, NEW f,
           Made(k, o, k2, o2, w, f)
    PROVE  \A g : Cardinality(WrapsOf(k2, o2, g)) =
                  Cardinality(WrapsOf(k, o, g)) + (IF g = f THEN 1 ELSE 0)
<1>1. WrapsOf(k2, o2, f) = WrapsOf(k, o, f) \cup {w} /\ w \notin WrapsOf(k, o, f)
    BY DEF WrapsOf, Made
<1>2. IsFiniteSet(WrapsOf(k, o, f))
    BY WrapsFinite
<1>3. Cardinality(WrapsOf(k2, o2, f)) = Cardinality(WrapsOf(k, o, f)) + 1
    BY <1>1, <1>2, FS_AddElement
<1>4. \A g : g # f => WrapsOf(k2, o2, g) = WrapsOf(k, o, g)
    BY DEF WrapsOf, Made
<1>5. \A g : Cardinality(WrapsOf(k, o, g)) \in Nat
    BY WrapsFinite
<1> QED
    BY <1>3, <1>4, <1>5

LEMMA WrapperReleased ==
    ASSUME NEW k, NEW o, NEW k2, NEW o2, NEW w \in Files, Released(k, o, k2, o2, w)
    PROVE  \A g : Cardinality(WrapsOf(k2, o2, g)) =
                  Cardinality(WrapsOf(k, o, g)) - (IF g = o[w] THEN 1 ELSE 0)
<1> DEFINE f == o[w]
<1>1. WrapsOf(k2, o2, f) = WrapsOf(k, o, f) \ {w} /\ w \in WrapsOf(k, o, f)
    BY DEF WrapsOf, Released
<1>2. IsFiniteSet(WrapsOf(k, o, f))
    BY WrapsFinite
<1>3. Cardinality(WrapsOf(k2, o2, f)) = Cardinality(WrapsOf(k, o, f)) - 1
    BY <1>1, <1>2, FS_RemoveElement
<1>4. \A g : g # f => WrapsOf(k2, o2, g) = WrapsOf(k, o, g)
    BY DEF WrapsOf, Released
<1>5. \A g : Cardinality(WrapsOf(k, o, g)) \in Nat
    BY WrapsFinite
<1> HIDE DEF f
<1> QED
    BY <1>3, <1>4, <1>5 DEF f

(* What a table or a wrapper names exists, and every file has as many      *)
(* references as it has holders; one reader's file, and its flag.          *)
FileTypes ==
    /\ kind \in [Files -> Kinds \cup {"free"}]
    /\ f_count \in [Files -> Nat]
    /\ orig \in [Files -> Files \cup {Nil}]
    /\ fds \in [Procs -> SUBSET Files]
    /\ ksu_sulog_fd_active \in BOOLEAN
    /\ reopened \subseteq Files

SupercallsInv ==
    /\ FileTypes
    /\ \A p \in Procs : \A f \in fds[p] : kind[f] # "free"
    /\ \A w \in Files : kind[w] = "wrapper" => orig[w] \in Files /\ kind[orig[w]] # "free"
    /\ \A f \in reopened : kind[f] # "free"
    /\ \A f \in Files : f_count[f] = Cardinality(TablesOf(fds, f))
                                      + Cardinality(WrapsOf(kind, orig, f))
                                      + (IF f \in reopened THEN 1 ELSE 0)
    /\ \A f, g \in Files : kind[f] = "reader" /\ kind[g] = "reader" => f = g
    /\ ksu_sulog_fd_active <=> \E f \in Files : kind[f] = "reader"

\* A file without references is in no table, under no wrapper and not one of
\* those that ksu_wrapper_open() opened; so is a free one.
LEMMA NoHolder ==
    ASSUME SupercallsInv, NEW f \in Files, f_count[f] = 0 \/ kind[f] = "free"
    PROVE  /\ f \notin reopened
           /\ \A p \in Procs : f \notin fds[p]
           /\ \A w \in Files : kind[w] = "wrapper" => orig[w] # f
           /\ f_count[f] = 0
<1> DEFINE t == Cardinality(TablesOf(fds, f))
           w == Cardinality(WrapsOf(kind, orig, f))
<1>1. t \in Nat /\ w \in Nat
    BY TablesFinite, WrapsFinite
<1>2. f_count[f] = t + w + (IF f \in reopened THEN 1 ELSE 0)
    BY DEF SupercallsInv
<1>3. t = 0 <=> TablesOf(fds, f) = {}
    BY TablesFinite, FS_EmptySet
<1>4. w = 0 <=> WrapsOf(kind, orig, f) = {}
    BY WrapsFinite, FS_EmptySet
<1>5. TablesOf(fds, f) = {} <=> \A p \in Procs : f \notin fds[p]
    BY DEF TablesOf
<1>6. WrapsOf(kind, orig, f) = {} <=> \A v \in Files : kind[v] = "wrapper" => orig[v] # f
    BY DEF WrapsOf
<1> HIDE DEF t, w
<1>7. CASE f_count[f] = 0
    BY <1>1, <1>2, <1>3, <1>4, <1>5, <1>6, <1>7
<1>8. CASE kind[f] = "free"
    BY <1>1, <1>2, <1>3, <1>4, <1>5, <1>6, <1>8 DEF SupercallsInv
<1> QED
    BY <1>7, <1>8

\* How the references follow: where both sets of holders are known the new
\* counts are checked one file at a time.
LEMMA RefsFollow ==
    ASSUME SupercallsInv, NEW T, NEW W,
           \A g \in Files : Cardinality(TablesOf(fds', g)) = Cardinality(TablesOf(fds, g)) + T[g],
           \A g \in Files : Cardinality(WrapsOf(kind', orig', g))
                                = Cardinality(WrapsOf(kind, orig, g)) + W[g],
           \A g \in Files : T[g] \in Int /\ W[g] \in Int,
           \A g \in Files : f_count'[g] = f_count[g] + T[g] + W[g]
                                + (IF g \in reopened' THEN 1 ELSE 0)
                                - (IF g \in reopened THEN 1 ELSE 0)
    PROVE  \A g \in Files : f_count'[g] = Cardinality(TablesOf(fds', g))
                                + Cardinality(WrapsOf(kind', orig', g))
                                + (IF g \in reopened' THEN 1 ELSE 0)
<1> SUFFICES ASSUME NEW g \in Files
             PROVE  f_count'[g] = Cardinality(TablesOf(fds', g))
                        + Cardinality(WrapsOf(kind', orig', g)) + (IF g \in reopened' THEN 1 ELSE 0)
    OBVIOUS
<1>1. Cardinality(TablesOf(fds, g)) \in Nat /\ Cardinality(WrapsOf(kind, orig, g)) \in Nat
    BY TablesFinite, WrapsFinite
<1>2. f_count[g] = Cardinality(TablesOf(fds, g)) + Cardinality(WrapsOf(kind, orig, g))
                      + (IF g \in reopened THEN 1 ELSE 0)
    BY DEF SupercallsInv
<1> QED
    BY <1>1, <1>2

\* ksu_install_fd(), ksu_install_sulog_fd() and an open(): a new file.
LEMMA InstallKeeps ==
    ASSUME SupercallsInv, NEW p \in Procs, NEW f \in Files,
           NEW k \in {"plain", "driver", "reader"}, Install(p, f, k),
           orig' = orig, reopened' = reopened,
           k # "reader" => ksu_sulog_fd_active' = ksu_sulog_fd_active,
           k = "reader" => ~ksu_sulog_fd_active /\ ksu_sulog_fd_active' = TRUE
    PROVE  SupercallsInv'
<1> DEFINE T == [g \in Files |-> IF g = f THEN 1 ELSE 0]
           W == [g \in Files |-> 0]
<1>1. kind[f] = "free"
    BY DEF Install, Free
<1>2. /\ f \notin reopened /\ f_count[f] = 0
      /\ \A q \in Procs : f \notin fds[q]
      /\ \A w \in Files : kind[w] = "wrapper" => orig[w] # f
    BY <1>1, NoHolder
<1>3. FileTypes'
    BY DEF SupercallsInv, FileTypes, Install, Kinds
<1>4. /\ kind'[f] = k /\ f_count'[f] = 1 /\ fds'[p] = fds[p] \cup {f}
      /\ \A g \in Files : g # f => kind'[g] = kind[g] /\ f_count'[g] = f_count[g]
      /\ \A q \in Procs : q # p => fds'[q] = fds[q]
    BY DEF SupercallsInv, FileTypes, Install
<1>5. \A g : Cardinality(TablesOf(fds', g)) =
                Cardinality(TablesOf(fds, g)) + (IF g = f THEN 1 ELSE 0)
    <2>1. f \notin fds[p]
        BY <1>2
    <2>2. fds'[p] = fds[p] \cup {f}
        BY <1>4
    <2>3. \A q \in Procs : q # p => fds'[q] = fds[q]
        BY <1>4
    <2>4. Gets(fds, fds', p, f)
        BY <2>1, <2>2, <2>3 DEF Gets
    <2> QED
        BY <2>4, TableGets
<1>6. \A g : WrapsOf(kind', orig', g) = WrapsOf(kind, orig, g)
    BY <1>1, <1>4 DEF WrapsOf
<1>7. \A g \in Files : f_count'[g] = Cardinality(TablesOf(fds', g))
                             + Cardinality(WrapsOf(kind', orig', g))
                             + (IF g \in reopened' THEN 1 ELSE 0)
    <2>1. \A g \in Files : Cardinality(WrapsOf(kind', orig', g)) =
                                Cardinality(WrapsOf(kind, orig, g)) + W[g]
        BY <1>6, WrapsFinite
    <2>2. \A g \in Files : f_count'[g] = f_count[g] + T[g] + W[g]
                                + (IF g \in reopened' THEN 1 ELSE 0)
                                - (IF g \in reopened THEN 1 ELSE 0)
        BY <1>2, <1>4 DEF SupercallsInv, FileTypes
    <2>3. \A g \in Files : Cardinality(TablesOf(fds', g)) =
                                Cardinality(TablesOf(fds, g)) + T[g]
        BY <1>5
    <2>4. \A g \in Files : T[g] \in Int /\ W[g] \in Int
        OBVIOUS
    <2> HIDE DEF T, W
    <2> QED
        BY <2>1, <2>2, <2>3, <2>4, RefsFollow
<1>8. /\ \A q \in Procs : \A g \in fds'[q] : kind'[g] # "free"
      /\ \A w \in Files : kind'[w] = "wrapper" => orig'[w] \in Files /\ kind'[orig'[w]] # "free"
      /\ \A g \in reopened' : kind'[g] # "free"
    BY <1>1, <1>2, <1>4 DEF SupercallsInv, FileTypes
<1>9. /\ \A g, h \in Files : kind'[g] = "reader" /\ kind'[h] = "reader" => g = h
      /\ ksu_sulog_fd_active' <=> \E g \in Files : kind'[g] = "reader"
    <2>1. CASE k = "reader"
        BY <1>4, <2>1 DEF SupercallsInv
    <2>2. CASE k # "reader"
        BY <1>1, <1>4, <2>2 DEF SupercallsInv
    <2> QED
        BY <2>1, <2>2
<1> QED
    BY <1>3, <1>7, <1>8, <1>9 DEF SupercallsInv

\* A file is handed on.
LEMMA PassKeeps ==
    ASSUME SupercallsInv, NEW p \in Procs, NEW q \in Procs, NEW f \in Files, Pass(p, q, f)
    PROVE  SupercallsInv'
<1> DEFINE T == [g \in Files |-> IF g = f THEN 1 ELSE 0]
           W == [g \in Files |-> 0]
<1>1. FileTypes'
    BY DEF SupercallsInv, FileTypes, Pass
<1>2. /\ f \in fds[p] /\ f \notin fds[q] /\ fds'[q] = fds[q] \cup {f}
      /\ \A r \in Procs : r # q => fds'[r] = fds[r]
      /\ f_count'[f] = f_count[f] + 1 /\ \A g \in Files : g # f => f_count'[g] = f_count[g]
      /\ UNCHANGED <<kind, orig, ksu_sulog_fd_active, reopened>>
    BY DEF SupercallsInv, FileTypes, Pass
<1>3. \A g : Cardinality(TablesOf(fds', g)) =
                Cardinality(TablesOf(fds, g)) + (IF g = f THEN 1 ELSE 0)
    <2>1. Gets(fds, fds', q, f)
        BY <1>2 DEF Gets
    <2> QED
        BY <2>1, TableGets
<1>4. \A g \in Files : f_count'[g] = Cardinality(TablesOf(fds', g))
                             + Cardinality(WrapsOf(kind', orig', g))
                             + (IF g \in reopened' THEN 1 ELSE 0)
    <2>1. \A g \in Files : Cardinality(WrapsOf(kind', orig', g)) =
                                Cardinality(WrapsOf(kind, orig, g)) + W[g]
        BY <1>2, WrapsFinite
    <2>2. \A g \in Files : f_count'[g] = f_count[g] + T[g] + W[g]
                                + (IF g \in reopened' THEN 1 ELSE 0)
                                - (IF g \in reopened THEN 1 ELSE 0)
        BY <1>2 DEF SupercallsInv, FileTypes
    <2>3. \A g \in Files : Cardinality(TablesOf(fds', g)) =
                                Cardinality(TablesOf(fds, g)) + T[g]
        BY <1>3
    <2>4. \A g \in Files : T[g] \in Int /\ W[g] \in Int
        OBVIOUS
    <2> HIDE DEF T, W
    <2> QED
        BY <2>1, <2>2, <2>3, <2>4, RefsFollow
<1>5. \A r \in Procs : \A g \in fds'[r] : kind'[g] # "free"
    BY <1>2 DEF SupercallsInv
<1> QED
    BY <1>1, <1>2, <1>4, <1>5 DEF SupercallsInv

\* close().
LEMMA CloseKeeps ==
    ASSUME SupercallsInv, NEW p \in Procs, NEW f \in Files, Close(p, f)
    PROVE  SupercallsInv'
<1> DEFINE T == [g \in Files |-> IF g = f THEN 0 - 1 ELSE 0]
           W == [g \in Files |-> 0]
<1>1. /\ f \in fds[p] /\ fds'[p] = fds[p] \ {f}
      /\ \A r \in Procs : r # p => fds'[r] = fds[r]
      /\ f_count'[f] = f_count[f] - 1 /\ \A g \in Files : g # f => f_count'[g] = f_count[g]
      /\ UNCHANGED <<kind, orig, ksu_sulog_fd_active, reopened>>
    BY DEF SupercallsInv, FileTypes, Close
<1>2. f_count[f] # 0
    BY <1>1, NoHolder
<1>3. FileTypes'
    BY <1>2 DEF SupercallsInv, FileTypes, Close
<1>4. \A g : Cardinality(TablesOf(fds', g)) =
                Cardinality(TablesOf(fds, g)) - (IF g = f THEN 1 ELSE 0)
    <2>1. Gives(fds, fds', p, f)
        BY <1>1 DEF Gives
    <2> QED
        BY <2>1, TableGives
<1>5. \A g \in Files : f_count'[g] = Cardinality(TablesOf(fds', g))
                             + Cardinality(WrapsOf(kind', orig', g))
                             + (IF g \in reopened' THEN 1 ELSE 0)
    <2>1. \A g \in Files : Cardinality(WrapsOf(kind', orig', g)) =
                                Cardinality(WrapsOf(kind, orig, g)) + W[g]
        BY <1>1, WrapsFinite
    <2>2. \A g \in Files : f_count'[g] = f_count[g] + T[g] + W[g]
                                + (IF g \in reopened' THEN 1 ELSE 0)
                                - (IF g \in reopened THEN 1 ELSE 0)
        BY <1>1 DEF SupercallsInv, FileTypes
    <2>3. \A g \in Files : Cardinality(TablesOf(fds', g)) =
                                Cardinality(TablesOf(fds, g)) + T[g]
        BY <1>4, TablesFinite
    <2>4. \A g \in Files : T[g] \in Int /\ W[g] \in Int
        OBVIOUS
    <2> HIDE DEF T, W
    <2> QED
        BY <2>1, <2>2, <2>3, <2>4, RefsFollow
<1>6. \A r \in Procs : \A g \in fds'[r] : kind'[g] # "free"
    BY <1>1 DEF SupercallsInv
<1> QED
    BY <1>1, <1>3, <1>5, <1>6 DEF SupercallsInv

\* The release of a file, and with a wrapper's of its reference.
LEMMA ReleaseKeeps ==
    ASSUME SupercallsInv, NEW f \in Files, Release(f)
    PROVE  SupercallsInv'
<1> DEFINE wraps(g) == kind[f] = "wrapper" /\ g = orig[f]
           T == [g \in Files |-> 0]
           W == [g \in Files |-> IF wraps(g) THEN 0 - 1 ELSE 0]
<1>1. /\ kind[f] # "free" /\ f_count[f] = 0
      /\ f \notin reopened /\ reopened' = reopened
      /\ \A p \in Procs : f \notin fds[p]
      /\ \A w \in Files : kind[w] = "wrapper" => orig[w] # f
    BY NoHolder DEF Release
<1>2. /\ kind'[f] = "free" /\ orig'[f] = Nil /\ fds' = fds
      /\ \A g \in Files : g # f => kind'[g] = kind[g] /\ orig'[g] = orig[g]
    BY DEF SupercallsInv, FileTypes, Release
<1>3. \A g \in Files : f_count'[g] = f_count[g] - (IF wraps(g) THEN 1 ELSE 0)
    BY <1>1 DEF SupercallsInv, FileTypes, Release
<1>4. ASSUME kind[f] = "wrapper"
      PROVE  orig[f] \in Files /\ orig[f] # f /\ f_count[orig[f]] # 0
    <2>1. orig[f] \in Files
        BY <1>4 DEF SupercallsInv
    <2>2. f_count[orig[f]] # 0
        BY <1>4, <2>1, NoHolder
    <2> QED
        BY <1>1, <1>4, <2>1, <2>2
<1>5. FileTypes'
    <2>1. f_count' \in [Files -> Nat]
        <3>1. f_count' \in [Files -> Int] /\ DOMAIN f_count' = Files
            BY DEF SupercallsInv, FileTypes, Release
        <3>2. \A g \in Files : f_count'[g] \in Nat
            BY <1>3, <1>4 DEF SupercallsInv, FileTypes
        <3> QED
            BY <3>1, <3>2
    <2>2. kind' \in [Files -> Kinds \cup {"free"}] /\ orig' \in [Files -> Files \cup {Nil}]
        BY DEF SupercallsInv, FileTypes, Release
    <2>3. ksu_sulog_fd_active' \in BOOLEAN
        BY DEF SupercallsInv, FileTypes, Release
    <2> QED
        BY <1>1, <1>2, <2>1, <2>2, <2>3 DEF SupercallsInv, FileTypes
<1>6. \A g \in Files : Cardinality(WrapsOf(kind', orig', g)) =
                            Cardinality(WrapsOf(kind, orig, g)) + W[g]
    <2>1. CASE kind[f] = "wrapper"
        <3>1. kind'[f] # "wrapper"
            BY <1>2
        <3>2. \A v \in Files : v # f => kind'[v] = kind[v] /\ orig'[v] = orig[v]
            BY <1>2
        <3>3. Released(kind, orig, kind', orig', f)
            BY <2>1, <3>1, <3>2 DEF Released
        <3>4. \A g : Cardinality(WrapsOf(kind', orig', g)) =
                        Cardinality(WrapsOf(kind, orig, g)) - (IF g = orig[f] THEN 1 ELSE 0)
            BY <3>3, WrapperReleased
        <3> QED
            BY <2>1, <3>4, WrapsFinite
    <2>2. CASE kind[f] # "wrapper"
        <3>1. \A g : WrapsOf(kind', orig', g) = WrapsOf(kind, orig, g)
            BY <1>2, <2>2 DEF WrapsOf
        <3> QED
            BY <2>2, <3>1, WrapsFinite
    <2> QED
        BY <2>1, <2>2
<1>7. \A g \in Files : f_count'[g] = Cardinality(TablesOf(fds', g))
                             + Cardinality(WrapsOf(kind', orig', g))
                             + (IF g \in reopened' THEN 1 ELSE 0)
    <2>1. \A g \in Files : f_count'[g] = f_count[g] + T[g] + W[g]
                                + (IF g \in reopened' THEN 1 ELSE 0)
                                - (IF g \in reopened THEN 1 ELSE 0)
        BY <1>1, <1>3 DEF SupercallsInv, FileTypes
    <2>2. \A g \in Files : Cardinality(TablesOf(fds', g)) =
                                Cardinality(TablesOf(fds, g)) + T[g]
        BY <1>2, TablesFinite
    <2>3. \A g \in Files : T[g] \in Int /\ W[g] \in Int
        OBVIOUS
    <2> HIDE DEF T, W
    <2> QED
        BY <1>6, <2>1, <2>2, <2>3, RefsFollow
<1>8. /\ \A q \in Procs : \A g \in fds'[q] : kind'[g] # "free"
      /\ \A w \in Files : kind'[w] = "wrapper" => orig'[w] \in Files /\ kind'[orig'[w]] # "free"
      /\ \A g \in reopened' : kind'[g] # "free"
    BY <1>1, <1>2 DEF SupercallsInv, FileTypes
<1>9. /\ \A g, h \in Files : kind'[g] = "reader" /\ kind'[h] = "reader" => g = h
      /\ ksu_sulog_fd_active' <=> \E g \in Files : kind'[g] = "reader"
    <2>1. ksu_sulog_fd_active' <=> ksu_sulog_fd_active /\ kind[f] # "reader"
        BY DEF Release
    <2> QED
        BY <1>2, <2>1 DEF SupercallsInv
<1> QED
    BY <1>5, <1>7, <1>8, <1>9 DEF SupercallsInv

\* ksu_install_file_wrapper(): the new file is free, the wrapped one is not.
LEMMA WrapKeeps ==
    ASSUME SupercallsInv, NEW p \in Procs, NEW f \in Files, ksu_install_file_wrapper(p, f)
    PROVE  SupercallsInv'
<1>1. PICK w \in Free : /\ ksu_create_file_wrapper(w, f)
                        /\ kind' = [kind EXCEPT ![w] = "wrapper"]
                        /\ fds' = [fds EXCEPT ![p] = @ \cup {w}]
    BY DEF ksu_install_file_wrapper
<1> DEFINE T == [g \in Files |-> IF g = w THEN 1 ELSE 0]
           W == [g \in Files |-> IF g = f THEN 1 ELSE 0]
<1>2. w \in Files /\ kind[w] = "free"
    BY DEF Free
<1>3. f \in fds[p] /\ kind[f] # "free" /\ UNCHANGED <<ksu_sulog_fd_active, reopened>>
    BY DEF ksu_install_file_wrapper, SupercallsInv
<1>4. /\ w \notin reopened /\ f_count[w] = 0 /\ w # f
      /\ \A q \in Procs : w \notin fds[q]
      /\ \A v \in Files : kind[v] = "wrapper" => orig[v] # w
    BY <1>2, <1>3, NoHolder
<1>5. FileTypes'
    BY <1>1, <1>2, <1>3 DEF SupercallsInv, FileTypes, ksu_create_file_wrapper, Kinds
<1>6. /\ kind'[w] = "wrapper" /\ orig'[w] = f /\ f_count'[w] = 1 /\ f_count'[f] = f_count[f] + 1
      /\ \A g \in Files : g # w => kind'[g] = kind[g] /\ orig'[g] = orig[g]
      /\ \A g \in Files : g # w /\ g # f => f_count'[g] = f_count[g]
      /\ fds'[p] = fds[p] \cup {w} /\ \A q \in Procs : q # p => fds'[q] = fds[q]
    BY <1>1, <1>2, <1>4 DEF SupercallsInv, FileTypes, ksu_create_file_wrapper
<1>7. \A g : Cardinality(TablesOf(fds', g)) =
                Cardinality(TablesOf(fds, g)) + (IF g = w THEN 1 ELSE 0)
    <2>1. Gets(fds, fds', p, w)
        BY <1>4, <1>6 DEF Gets
    <2> QED
        BY <2>1, TableGets
<1>8. \A g : Cardinality(WrapsOf(kind', orig', g)) =
                Cardinality(WrapsOf(kind, orig, g)) + (IF g = f THEN 1 ELSE 0)
    <2>1. Made(kind, orig, kind', orig', w, f)
        BY <1>2, <1>6 DEF Made
    <2> QED
        BY <1>2, <2>1, WrapperMade
<1>9. \A g \in Files : f_count'[g] = Cardinality(TablesOf(fds', g))
                             + Cardinality(WrapsOf(kind', orig', g))
                             + (IF g \in reopened' THEN 1 ELSE 0)
    <2>1. \A g \in Files : f_count'[g] = f_count[g] + T[g] + W[g]
                                + (IF g \in reopened' THEN 1 ELSE 0)
                                - (IF g \in reopened THEN 1 ELSE 0)
        BY <1>2, <1>3, <1>4, <1>6 DEF SupercallsInv, FileTypes
    <2>2. \A g \in Files : Cardinality(TablesOf(fds', g)) =
                                Cardinality(TablesOf(fds, g)) + T[g]
        BY <1>7
    <2>3. \A g \in Files : Cardinality(WrapsOf(kind', orig', g)) =
                                Cardinality(WrapsOf(kind, orig, g)) + W[g]
        BY <1>8
    <2>4. \A g \in Files : T[g] \in Int /\ W[g] \in Int
        OBVIOUS
    <2> HIDE DEF T, W
    <2> QED
        BY <2>1, <2>2, <2>3, <2>4, RefsFollow
<1>10. /\ \A q \in Procs : \A g \in fds'[q] : kind'[g] # "free"
       /\ \A v \in Files : kind'[v] = "wrapper" => orig'[v] \in Files /\ kind'[orig'[v]] # "free"
       /\ \A g \in reopened' : kind'[g] # "free"
    BY <1>2, <1>3, <1>4, <1>6 DEF SupercallsInv, FileTypes
<1>11. /\ \A g, h \in Files : kind'[g] = "reader" /\ kind'[h] = "reader" => g = h
       /\ ksu_sulog_fd_active' <=> \E g \in Files : kind'[g] = "reader"
    BY <1>2, <1>3, <1>6 DEF SupercallsInv
<1> QED
    BY <1>5, <1>9, <1>10, <1>11 DEF SupercallsInv

\* ksu_wrapper_open(): the reopened original keeps a reference for nobody.
LEMMA OpenKeeps ==
    ASSUME SupercallsInv, NEW p \in Procs, NEW w \in Files, ksu_wrapper_open(p, w)
    PROVE  SupercallsInv'
<1>1. PICK f \in Free, v \in Free :
                        /\ f # v
                        /\ kind' = [kind EXCEPT ![f] = "plain", ![v] = "wrapper"]
                        /\ orig' = [orig EXCEPT ![v] = f]
                        /\ f_count' = [f_count EXCEPT ![f] = 2, ![v] = 1]
                        /\ fds' = [fds EXCEPT ![p] = @ \cup {v}]
                        /\ reopened' = reopened \cup {f}
    BY DEF ksu_wrapper_open
<1> DEFINE T == [g \in Files |-> IF g = v THEN 1 ELSE 0]
           W == [g \in Files |-> IF g = f THEN 1 ELSE 0]
<1>2. /\ f \in Files /\ kind[f] = "free" /\ v \in Files /\ kind[v] = "free"
      /\ ksu_sulog_fd_active' = ksu_sulog_fd_active
    BY DEF Free, ksu_wrapper_open
<1>3. /\ f \notin reopened /\ f_count[f] = 0
      /\ \A q \in Procs : f \notin fds[q]
      /\ \A u \in Files : kind[u] = "wrapper" => orig[u] # f
    BY <1>2, NoHolder
<1>4. /\ v \notin reopened /\ f_count[v] = 0
      /\ \A q \in Procs : v \notin fds[q]
      /\ \A u \in Files : kind[u] = "wrapper" => orig[u] # v
    BY <1>2, NoHolder
<1>5. FileTypes'
    BY <1>1, <1>2 DEF SupercallsInv, FileTypes, Kinds
<1>6. /\ f # v /\ kind'[v] = "wrapper" /\ kind'[f] = "plain" /\ orig'[v] = f
      /\ f_count'[f] = 2 /\ f_count'[v] = 1 /\ reopened' = reopened \cup {f}
      /\ \A g \in Files : g # v /\ g # f => kind'[g] = kind[g] /\ f_count'[g] = f_count[g]
      /\ \A g \in Files : g # v => orig'[g] = orig[g]
      /\ fds'[p] = fds[p] \cup {v} /\ \A q \in Procs : q # p => fds'[q] = fds[q]
    BY <1>1, <1>2 DEF SupercallsInv, FileTypes
<1>7. \A g : Cardinality(TablesOf(fds', g)) =
                Cardinality(TablesOf(fds, g)) + (IF g = v THEN 1 ELSE 0)
    <2>1. Gets(fds, fds', p, v)
        BY <1>4, <1>6 DEF Gets
    <2> QED
        BY <2>1, TableGets
<1>8. \A g : Cardinality(WrapsOf(kind', orig', g)) =
                Cardinality(WrapsOf(kind, orig, g)) + (IF g = f THEN 1 ELSE 0)
    <2>1. Made(kind, orig, kind', orig', v, f)
        BY <1>2, <1>6 DEF Made
    <2> QED
        BY <1>2, <2>1, WrapperMade
<1>9. \A g \in Files : f_count'[g] = Cardinality(TablesOf(fds', g))
                             + Cardinality(WrapsOf(kind', orig', g))
                             + (IF g \in reopened' THEN 1 ELSE 0)
    <2>1. \A g \in Files : f_count'[g] = f_count[g] + T[g] + W[g]
                                + (IF g \in reopened' THEN 1 ELSE 0)
                                - (IF g \in reopened THEN 1 ELSE 0)
        BY <1>2, <1>3, <1>4, <1>6 DEF SupercallsInv, FileTypes
    <2>2. \A g \in Files : Cardinality(TablesOf(fds', g)) =
                                Cardinality(TablesOf(fds, g)) + T[g]
        BY <1>7
    <2>3. \A g \in Files : Cardinality(WrapsOf(kind', orig', g)) =
                                Cardinality(WrapsOf(kind, orig, g)) + W[g]
        BY <1>8
    <2>4. \A g \in Files : T[g] \in Int /\ W[g] \in Int
        OBVIOUS
    <2> HIDE DEF T, W
    <2> QED
        BY <2>1, <2>2, <2>3, <2>4, RefsFollow
<1>10. /\ \A q \in Procs : \A g \in fds'[q] : kind'[g] # "free"
       /\ \A u \in Files : kind'[u] = "wrapper" => orig'[u] \in Files /\ kind'[orig'[u]] # "free"
       /\ \A g \in reopened' : kind'[g] # "free"
    BY <1>2, <1>3, <1>4, <1>6 DEF SupercallsInv, FileTypes
<1>11. /\ \A g, h \in Files : kind'[g] = "reader" /\ kind'[h] = "reader" => g = h
       /\ ksu_sulog_fd_active' <=> \E g \in Files : kind'[g] = "reader"
    BY <1>2, <1>6 DEF SupercallsInv
<1> QED
    BY <1>5, <1>9, <1>10, <1>11 DEF SupercallsInv

(* The list of mounts: while somebody walks it, nobody writes it.          *)
WalkInv ==
    /\ mount_list \in Seq(Paths)
    /\ cursor \in [Walkers -> Paths \cup {Nil}]
    /\ WalkSafe

LEMMA AddKeeps ==
    ASSUME WalkInv, umount_add
    PROVE  WalkInv'
<1>1. PICK m \in Paths \ Range(mount_list) : mount_list' = <<m>> \o mount_list
    BY DEF umount_add
<1>2. <<m>> \in Seq(Paths) /\ Len(<<m>>) = 1 /\ <<m>>[1] = m /\ mount_list \in Seq(Paths)
    BY DEF WalkInv
<1>3. /\ mount_list' \in Seq(Paths) /\ Len(mount_list') = 1 + Len(mount_list)
      /\ \A i \in 1 .. 1 + Len(mount_list) :
            mount_list'[i] = IF i <= 1 THEN <<m>>[i] ELSE mount_list[i - 1]
    BY <1>1, <1>2, ConcatProperties
<1>4. Len(mount_list) \in Nat /\ DOMAIN mount_list = 1 .. Len(mount_list)
    BY <1>2, LenProperties
<1>5. DOMAIN mount_list' = 1 .. 1 + Len(mount_list)
    BY <1>3, LenProperties
<1>6. \A i \in DOMAIN mount_list : mount_list[i] # m
    BY DEF Range
<1>7. \A a, b \in DOMAIN mount_list : mount_list[a] = mount_list[b] => a = b
    BY DEF WalkInv, WalkSafe, IsInjective
<1>8. IsInjective(mount_list')
    <2> SUFFICES ASSUME NEW a \in 1 .. 1 + Len(mount_list), NEW b \in 1 .. 1 + Len(mount_list),
                        mount_list'[a] = mount_list'[b]
                 PROVE  a = b
        BY <1>5 DEF IsInjective
    <2>1. mount_list'[a] = IF a = 1 THEN m ELSE mount_list[a - 1]
        BY <1>2, <1>3, <1>4
    <2>2. mount_list'[b] = IF b = 1 THEN m ELSE mount_list[b - 1]
        BY <1>2, <1>3, <1>4
    <2>3. (a # 1 => a - 1 \in DOMAIN mount_list) /\ (b # 1 => b - 1 \in DOMAIN mount_list)
        BY <1>4
    <2>4. CASE a = 1 \/ b = 1
        BY <2>1, <2>2, <2>3, <2>4, <1>6
    <2>5. CASE a # 1 /\ b # 1
        <3>1. a - 1 = b - 1
            BY <2>1, <2>2, <2>3, <2>5, <1>7
        <3> QED
            BY <3>1, <1>4
    <2> QED
        BY <2>4, <2>5
<1> QED
    BY <1>3, <1>8 DEF WalkInv, WalkSafe, umount_add, Writable

LEMMA DelKeeps ==
    ASSUME WalkInv, umount_del
    PROVE  WalkInv'
<1>1. PICK i \in DOMAIN mount_list : mount_list' = RemoveAt(mount_list, i)
    BY DEF umount_del
<1> DEFINE n == Len(mount_list)
<1>2. mount_list \in Seq(Paths) /\ n \in Nat /\ DOMAIN mount_list = 1 .. n
    BY LenProperties DEF WalkInv
<1>3. i \in 1 .. n
    BY <1>2
<1>4. \A j \in 1 .. n : mount_list[j] \in Paths
    BY <1>2, ElementOfSeq
<1> DEFINE s == SubSeq(mount_list, 1, i - 1)
           t == SubSeq(mount_list, i + 1, n)
<1>5. /\ s \in Seq(Paths) /\ Len(s) = i - 1
      /\ \A j \in 1 .. i - 1 : s[j] = mount_list[j]
    <2>1. \A j \in 1 .. i - 1 : mount_list[j] \in Paths
        BY <1>2, <1>3, <1>4
    <2>2. 1 \in Int /\ i - 1 \in Int
        BY <1>2, <1>3
    <2>3. /\ s \in Seq(Paths) /\ Len(s) = IF 1 <= i - 1 THEN i - 1 - 1 + 1 ELSE 0
          /\ \A j \in 1 .. i - 1 - 1 + 1 : s[j] = mount_list[1 + j - 1]
        BY <2>1, <2>2, SubSeqProperties
    <2> HIDE DEF s, t
    <2> QED
        <3>1. i \in Nat /\ i >= 1
            BY <1>2, <1>3
        <3>2. Len(s) = i - 1
            BY <2>3, <3>1
        <3>3. \A j \in 1 .. i - 1 : j \in 1 .. i - 1 - 1 + 1 /\ 1 + j - 1 = j
            BY <3>1
        <3>4. \A j \in 1 .. i - 1 : s[j] = mount_list[j]
            BY <2>3, <3>3
        <3> QED
            BY <2>3, <3>2, <3>4
<1>6. /\ t \in Seq(Paths) /\ Len(t) = n - i
      /\ \A j \in 1 .. n - i : t[j] = mount_list[i + j]
    <2>1. \A j \in i + 1 .. n : mount_list[j] \in Paths
        BY <1>2, <1>3, <1>4
    <2>2. i + 1 \in Int /\ n \in Int
        BY <1>2, <1>3
    <2>3. /\ t \in Seq(Paths) /\ Len(t) = IF i + 1 <= n THEN n - (i + 1) + 1 ELSE 0
          /\ \A j \in 1 .. n - (i + 1) + 1 : t[j] = mount_list[i + 1 + j - 1]
        BY <2>1, <2>2, SubSeqProperties
    <2> HIDE DEF s, t
    <2> QED
        <3>1. i \in Nat /\ n \in Nat /\ i <= n
            BY <1>2, <1>3
        <3>2. Len(t) = n - i
            BY <2>3, <3>1
        <3>3. \A j \in 1 .. n - i : j \in 1 .. n - (i + 1) + 1 /\ i + 1 + j - 1 = i + j
            BY <3>1
        <3>4. \A j \in 1 .. n - i : t[j] = mount_list[i + j]
            BY <2>3, <3>3
        <3> QED
            BY <2>3, <3>2, <3>4
<1>7. mount_list' = s \o t
    BY <1>1 DEF RemoveAt
<1> HIDE DEF s, t, n
<1>8. /\ mount_list' \in Seq(Paths) /\ Len(mount_list') = Len(s) + Len(t)
      /\ \A j \in 1 .. Len(s) + Len(t) :
            mount_list'[j] = IF j <= Len(s) THEN s[j] ELSE t[j - Len(s)]
    BY <1>5, <1>6, <1>7, ConcatProperties
<1>9. DOMAIN mount_list' = 1 .. n - 1
    <2>1. Len(mount_list') = n - 1
        BY <1>2, <1>3, <1>5, <1>6, <1>8
    <2> QED
        BY <1>8, <2>1, LenProperties
<1>10. \A j \in 1 .. n - 1 : mount_list'[j] = IF j < i THEN mount_list[j] ELSE mount_list[j + 1]
    <2> SUFFICES ASSUME NEW j \in 1 .. n - 1
                 PROVE  mount_list'[j] = IF j < i THEN mount_list[j] ELSE mount_list[j + 1]
        OBVIOUS
    <2>1. mount_list'[j] = IF j <= i - 1 THEN s[j] ELSE t[j - (i - 1)]
        BY <1>2, <1>3, <1>5, <1>6, <1>8
    <2>2. CASE j < i
        BY <2>1, <2>2, <1>2, <1>3, <1>5
    <2>3. CASE ~(j < i)
        <3>1. j - (i - 1) \in 1 .. n - i /\ i + (j - (i - 1)) = j + 1
            BY <2>3, <1>2, <1>3
        <3>2. t[j - (i - 1)] = mount_list[i + (j - (i - 1))]
            BY <3>1, <1>6
        <3> QED
            BY <2>1, <2>3, <3>1, <3>2, <1>2, <1>3
    <2> QED
        BY <2>2, <2>3
<1>11. \A a, b \in 1 .. n : mount_list[a] = mount_list[b] => a = b
    BY <1>2 DEF WalkInv, WalkSafe, IsInjective
<1>12. IsInjective(mount_list')
    <2> SUFFICES ASSUME NEW a \in 1 .. n - 1, NEW b \in 1 .. n - 1,
                        mount_list'[a] = mount_list'[b]
                 PROVE  a = b
        BY <1>9 DEF IsInjective
    <2> DEFINE at(j) == IF j < i THEN j ELSE j + 1
    <2>1. at(a) \in 1 .. n /\ at(b) \in 1 .. n
        BY <1>2, <1>3
    <2>2. mount_list[at(a)] = mount_list[at(b)]
        BY <1>10
    <2>3. at(a) = at(b)
        BY <2>1, <2>2, <1>11
    <2> QED
        BY <2>3, <1>2, <1>3
<1> QED
    BY <1>8, <1>12 DEF WalkInv, WalkSafe, umount_del, Writable

LEMMA WipeKeeps ==
    ASSUME WalkInv, umount_wipe
    PROVE  WalkInv'
<1>1. mount_list' = <<>> /\ mount_list' \in Seq(Paths) /\ DOMAIN mount_list' = {}
    BY DEF umount_wipe
<1> QED
    BY <1>1 DEF WalkInv, WalkSafe, IsInjective, umount_wipe, Writable

LEMMA WalkerKeeps ==
    ASSUME WalkInv, NEW w \in Walkers, WalkStarts(w) \/ WalkGoesOn(w)
    PROVE  WalkInv'
<1>1. Len(mount_list) \in Nat /\ DOMAIN mount_list = 1 .. Len(mount_list)
    BY LenProperties DEF WalkInv
<1>2. \A i \in DOMAIN mount_list : mount_list[i] \in Paths /\ mount_list[i] \in Range(mount_list)
    BY <1>1, ElementOfSeq DEF Range, WalkInv
<1>3. \E c \in Range(mount_list) \cup {Nil} : cursor' = [cursor EXCEPT ![w] = c]
    <2>1. CASE WalkStarts(w)
        <3>1. mount_list # <<>> /\ Head(mount_list) = mount_list[1] /\ 1 \in DOMAIN mount_list
            BY <2>1, <1>1 DEF WalkStarts, WalkInv
        <3> QED
            BY <2>1, <3>1, <1>2 DEF WalkStarts
    <2>2. CASE WalkGoesOn(w)
        <3> DEFINE i == CHOOSE k \in DOMAIN mount_list : mount_list[k] = cursor[w]
        <3>1. i \in DOMAIN mount_list
            BY <2>2 DEF WalkGoesOn, Range
        <3>2. i # Len(mount_list) => i + 1 \in DOMAIN mount_list
            BY <1>1, <3>1
        <3>3. cursor' = [cursor EXCEPT ![w] = IF i = Len(mount_list) THEN Nil
                                              ELSE mount_list[i + 1]]
            BY <2>2 DEF WalkGoesOn
        <3> HIDE DEF i
        <3> QED
            BY <3>1, <3>2, <3>3, <1>2
    <2> QED
        BY <2>1, <2>2
<1>4. mount_list' = mount_list
    BY DEF WalkStarts, WalkGoesOn
<1>5. Range(mount_list) \subseteq Paths
    BY <1>2 DEF Range
<1> QED
    BY <1>3, <1>4, <1>5 DEF WalkInv, WalkSafe

SupercallsAlways == SupercallsInv /\ WalkInv

LEMMA SupercallsAlwaysHolds == SupercallsSpec => []SupercallsAlways
<1>1. SupercallsInit => SupercallsAlways
    <2> SUFFICES ASSUME SupercallsInit
                 PROVE  SupercallsAlways
        OBVIOUS
    <2>1. FileTypes
        BY DEF SupercallsInit, FileTypes
    <2>2. \A f \in Files : TablesOf(fds, f) = {} /\ WrapsOf(kind, orig, f) = {}
        BY DEF SupercallsInit, TablesOf, WrapsOf
    <2>3. \A f \in Files : f_count[f] = Cardinality(TablesOf(fds, f))
                                      + Cardinality(WrapsOf(kind, orig, f))
                                      + (IF f \in reopened THEN 1 ELSE 0)
        <3>1. Cardinality({}) = 0
            BY FS_EmptySet
        <3>2. \A f \in Files : f_count[f] = 0 /\ f \notin reopened
            BY DEF SupercallsInit
        <3> QED
            BY <2>2, <3>1, <3>2
    <2>4. SupercallsInv
        BY <2>1, <2>3 DEF SupercallsInit, SupercallsInv
    <2>5. WalkInv
        <3>1. mount_list = <<>> /\ mount_list \in Seq(Paths) /\ DOMAIN mount_list = {}
            BY DEF SupercallsInit
        <3> QED
            BY <3>1 DEF SupercallsInit, WalkInv, WalkSafe, IsInjective
    <2> QED
        BY <2>4, <2>5 DEF SupercallsAlways
<1>2. SupercallsAlways /\ [SupercallsNext]_supercallsVars => SupercallsAlways'
    <2> SUFFICES ASSUME SupercallsInv, WalkInv, [SupercallsNext]_supercallsVars
                 PROVE  SupercallsInv' /\ WalkInv'
        BY DEF SupercallsAlways
    <2> DEFINE Still == UNCHANGED <<mount_list, cursor>> => WalkInv'
    <2>1. Still
        BY DEF WalkInv, WalkSafe
    <2>2. UNCHANGED fileVars => SupercallsInv'
        BY DEF fileVars, SupercallsInv, FileTypes, TablesOf, WrapsOf
    <2>3. ASSUME NEW p \in Procs, ksu_install_fd(p) \/ OpenPlain(p)
          PROVE  SupercallsInv' /\ WalkInv'
        <3>1. PICK f \in Files, k \in {"plain", "driver"} : Install(p, f, k)
            BY <2>3 DEF ksu_install_fd, OpenPlain
        <3>2. UNCHANGED <<orig, ksu_sulog_fd_active, reopened, mount_list, cursor>>
            BY <2>3 DEF ksu_install_fd, OpenPlain
        <3>3. k \in {"plain", "driver", "reader"} /\ k # "reader"
            OBVIOUS
        <3>4. orig' = orig /\ reopened' = reopened /\ ksu_sulog_fd_active' = ksu_sulog_fd_active
            BY <3>2
        <3> QED
            BY <2>1, <3>1, <3>2, <3>3, <3>4, InstallKeeps
    <2>4. ASSUME NEW p \in Procs, ksu_install_sulog_fd(p)
          PROVE  SupercallsInv' /\ WalkInv'
        <3>1. PICK f \in Files : Install(p, f, "reader")
            BY <2>4 DEF ksu_install_sulog_fd
        <3>2. /\ ~ksu_sulog_fd_active /\ ksu_sulog_fd_active' = TRUE
              /\ orig' = orig /\ reopened' = reopened /\ UNCHANGED <<mount_list, cursor>>
            BY <2>4 DEF ksu_install_sulog_fd
        <3> QED
            BY <2>1, <3>1, <3>2, InstallKeeps
    <2>5. ASSUME NEW p \in Procs, NEW f \in Files, Close(p, f)
          PROVE  SupercallsInv' /\ WalkInv'
        BY <2>1, <2>5, CloseKeeps DEF Close
    <2>6. ASSUME NEW p \in Procs, NEW f \in Files, ksu_install_file_wrapper(p, f)
          PROVE  SupercallsInv' /\ WalkInv'
        BY <2>1, <2>6, WrapKeeps DEF ksu_install_file_wrapper
    <2>7. ASSUME NEW p \in Procs, NEW f \in Files, ksu_wrapper_open(p, f)
          PROVE  SupercallsInv' /\ WalkInv'
        BY <2>1, <2>7, OpenKeeps DEF ksu_wrapper_open
    <2>8. ASSUME NEW p \in Procs, NEW q \in Procs, NEW f \in Files, Pass(p, q, f)
          PROVE  SupercallsInv' /\ WalkInv'
        BY <2>1, <2>8, PassKeeps DEF Pass
    <2>9. ASSUME NEW f \in Files, Release(f)
          PROVE  SupercallsInv' /\ WalkInv'
        BY <2>1, <2>9, ReleaseKeeps DEF Release
    <2>10. CASE umount_wipe
        BY <2>2, <2>10, WipeKeeps DEF umount_wipe
    <2>11. CASE umount_add
        BY <2>2, <2>11, AddKeeps DEF umount_add
    <2>12. CASE umount_del
        BY <2>2, <2>12, DelKeeps DEF umount_del
    <2>13. ASSUME NEW w \in Walkers, WalkStarts(w) \/ WalkGoesOn(w)
           PROVE  SupercallsInv' /\ WalkInv'
        BY <2>2, <2>13, WalkerKeeps DEF WalkStarts, WalkGoesOn
    <2>14. CASE UNCHANGED supercallsVars
        BY <2>1, <2>2, <2>14 DEF supercallsVars
    <2> QED
        BY <2>3, <2>4, <2>5, <2>6, <2>7, <2>8, <2>9, <2>10, <2>11, <2>12, <2>13, <2>14
           DEF SupercallsNext
<1> QED
    BY <1>1, <1>2, PTL DEF SupercallsSpec

\* Nothing that a supercall made is freed in use or kept for nobody, there is
\* one reader of the sulog, and no mount that somebody looks at is freed: in
\* whatever order processes open, wrap, pass on, close and unmount.
THEOREM SupercallsCorrect == SupercallsSpec => []SupercallsExact
<1>1. SupercallsAlways => SupercallsExact
    <2> SUFFICES ASSUME SupercallsInv, WalkInv
                 PROVE  SupercallsExact
        BY DEF SupercallsAlways
    <2>1. SupercallsTypeOK
        BY DEF SupercallsTypeOK, SupercallsInv, WalkInv, FileTypes
    <2>2. OneReader
        <3> DEFINE readers == {f \in Files : kind[f] = "reader"}
        <3>1. Cardinality(readers) <= 1
            <4>1. CASE readers = {}
                BY <4>1, FS_EmptySet
            <4>2. CASE readers # {}
                <5>1. PICK f \in Files : readers = {f}
                    BY <4>2 DEF SupercallsInv
                <5>2. Cardinality({f}) = 1
                    BY FS_Singleton
                <5> QED
                    BY <5>1, <5>2
            <4> QED
                BY <4>1, <4>2
        <3>2. ksu_sulog_fd_active <=> readers # {}
            BY DEF SupercallsInv
        <3> QED
            BY <3>1, <3>2 DEF OneReader
    <2>3. RefsExact
        <3> SUFFICES ASSUME NEW f \in Files
                     PROVE  /\ f_count[f] = Holders(f) + (IF f \in reopened THEN 1 ELSE 0)
                            /\ Holders(f) > 0 => kind[f] # "free"
            BY DEF RefsExact
        <3>1. Holders(f) = Cardinality(TablesOf(fds, f)) + Cardinality(WrapsOf(kind, orig, f))
            BY DEF Holders, TablesOf, WrapsOf
        <3>2. f_count[f] = Cardinality(TablesOf(fds, f)) + Cardinality(WrapsOf(kind, orig, f))
                                + (IF f \in reopened THEN 1 ELSE 0)
            BY DEF SupercallsInv
        <3>3. kind[f] = "free" => f_count[f] = 0
            BY NoHolder
        <3>4. Cardinality(TablesOf(fds, f)) \in Nat /\ Cardinality(WrapsOf(kind, orig, f)) \in Nat
            BY TablesFinite, WrapsFinite
        <3> QED
            BY <3>1, <3>2, <3>3, <3>4
    <2> QED
        BY <2>1, <2>2, <2>3 DEF SupercallsExact, FilesExact, WalkInv
<1> QED
    BY <1>1, SupercallsAlwaysHolds, PTL

(***************************************************************************)
(* The settings of ksud.                                                   *)
(***************************************************************************)
Quiet == \A p \in Cmds : cmd[p] = NoCmd
Within(a, b) == DOMAIN a \subseteq DOMAIN b /\ \A f \in DOMAIN a : a[f] = b[f]

ConfigTypes ==
    /\ DOMAIN kernel = Features /\ DOMAIN owner = Features /\ DOMAIN cmd = Cmds
    /\ DOMAIN saved \subseteq Features /\ DOMAIN feature_config.map \subseteq Features
    /\ unowned \subseteq Features
    /\ bootstage \in {"clear", "early", "init", "write", "on"}
    /\ \A p \in Cmds :
          /\ cmd[p].pc = "set" => cmd[p].f \in Features /\ cmd[p].caller \in Mods \cup {"user"}
          /\ cmd[p].pc = "write" => DOMAIN cmd[p].map = Features
          /\ cmd[p].pc = "apply" => DOMAIN cmd[p].map \subseteq Features

(* A feature without a managing module was without one in this boot; so    *)
(* was every feature that a command of the user's, past its check, or      *)
(* init_features() still sets.                                             *)
ManagedInv ==
    /\ bootstage # "clear" => Features \ Managed \subseteq unowned
    /\ bootstage = "clear" => Quiet /\ DOMAIN left = {} /\ \A f \in Features : owner[f] = "default"
    /\ \A p \in Cmds : cmd[p].pc = "set" /\ cmd[p].caller = "user" => cmd[p].f \in unowned
    /\ DOMAIN left \subseteq unowned
    /\ ManagedKept

(* What the kernel has of a map, where nobody set it otherwise.            *)
FitsOf(map, o, k) == \A f \in DOMAIN map : o[f] \in {"default", "file"} => k[f] = map[f]

(* The saved values are in the file; when the file is torn somebody is     *)
(* writing it, or it was lost. While init_features() writes it, they are   *)
(* in what it writes.                                                      *)
SavedInv ==
    /\ feature_config.whole => Within(saved, feature_config.map)
    /\ ~feature_config.whole => \/ DOMAIN saved = {} \/ bootstage = "write"
                                \/ \E p \in Cmds : cmd[p].pc = "write"
    /\ bootstage \in {"init", "write"} => Quiet /\ Within(saved, left)
    /\ \A p \in Cmds : cmd[p].pc = "write" => FitsOf(cmd[p].map, owner, kernel)
    /\ bootstage \in {"write", "on"} => FitsOf(saved, owner, kernel)

ConfigInv == ConfigTypes /\ ManagedInv /\ SavedInv

LEMMA ConfigStarts == ConfigInit => ConfigInv
<1> SUFFICES ASSUME ConfigInit
             PROVE  ConfigInv
    OBVIOUS
<1>1. ConfigTypes
    BY DEF ConfigInit, ConfigTypes, Whole, Empty, NoCmd
<1>2. ManagedInv
    BY DEF ConfigInit, ManagedInv, ManagedKept, Quiet, NoCmd, Empty
<1>3. SavedInv
    BY DEF ConfigInit, SavedInv, FitsOf, Within, Whole, Empty, NoCmd
<1> QED
    BY <1>1, <1>2, <1>3 DEF ConfigInv

\* How the history of unmanaged features grows in a step.
LEMMA Watched ==
    ASSUME ConfigInv, Watch, bootstage' # "clear"
    PROVE  unowned \subseteq unowned' /\ unowned' \subseteq Features
           /\ Features \ Managed' \subseteq unowned'
BY DEF ConfigInv, ConfigTypes, Watch

\* Steps that only modules and their configurations are in: the commands
\* stay what they are, or one that saves a configuration comes or goes.
Apart ==
    /\ UNCHANGED <<kernel, feature_config, bootstage, left, saved, owner>>
    /\ DOMAIN cmd' = Cmds
    /\ bootstage = "clear" => cmd' = cmd
    /\ bootstage \in {"init", "write"} => cmd' = cmd
    /\ \A p \in Cmds : cmd'[p] = cmd[p]
                       \/ (/\ cmd[p].pc # "write" /\ cmd'[p].pc \notin {"set", "write"}
                           /\ cmd'[p].pc = "apply" => DOMAIN cmd'[p].map \subseteq Features)

LEMMA ApartKeeps ==
    ASSUME ConfigInv, Watch, Apart, bootstage # "clear"
    PROVE  ConfigInv'
<1>1. unowned \subseteq unowned' /\ unowned' \subseteq Features /\ Features \ Managed' \subseteq unowned'
    BY Watched DEF Apart
<1>2. ConfigTypes'
    BY <1>1 DEF ConfigInv, ConfigTypes, Apart
<1>3. ManagedInv'
    BY <1>1 DEF ConfigInv, ManagedInv, ManagedKept, Apart, ConfigTypes
<1>4. SavedInv'
    <2>1. UNCHANGED Within(saved, feature_config.map) /\ UNCHANGED Within(saved, left)
        BY DEF Within, Apart
    <2>2. bootstage \in {"init", "write"} => Quiet'
        BY DEF ConfigInv, SavedInv, Apart, Quiet
    <2> QED
        BY <2>1, <2>2 DEF ConfigInv, SavedInv, Apart
<1> QED
    BY <1>2, <1>3, <1>4 DEF ConfigInv

\* Commands of processes run only while none of the boot's own steps does.
LEMMA Running ==
    ASSUME ConfigInv, NEW p \in Cmds, cmd[p].pc # "idle" \/ Starts(p)
    PROVE  bootstage \in {"early", "on"}
BY DEF ConfigInv, ConfigTypes, ManagedInv, SavedInv, Quiet, NoCmd, Starts

LEMMA ApartSteps ==
    ASSUME ConfigInv, Watch,
           \/ \E p \in Cmds :
                 \/ ConfigRenamed(p) \/ load_config_and_apply(p)
                 \/ \E m \in Mods, t \in Types :
                       \/ clear_config(p, m, t)
                       \/ \E k \in Keys : \/ delete_config_value(p, m, t, k)
                                          \/ \E v \in {"true", "false"} : set_config_value(p, m, t, k, v)
           \/ \E m \in Mods : ModuleMarked(m) \/ clear_module_configs(m)
    PROVE  ConfigInv'
<1>1. DOMAIN cmd = Cmds
    BY DEF ConfigInv, ConfigTypes
<1>2. ASSUME NEW p \in Cmds, ConfigRenamed(p)
      PROVE  ConfigInv'
    <2>1. bootstage \in {"early", "on"}
        BY <1>2, Running DEF ConfigRenamed
    <2>2. Apart
        BY <1>1, <1>2, <2>1 DEF Apart, ConfigRenamed, NoCmd
    <2> QED
        BY <2>1, <2>2, ApartKeeps
<1>3. ASSUME NEW p \in Cmds, load_config_and_apply(p)
      PROVE  ConfigInv'
    <2>1. bootstage \in {"early", "on"} /\ cmd[p].pc = "idle"
        BY <1>3 DEF load_config_and_apply, Starts, NoCmd
    <2>2. Apart
        BY <1>1, <1>3, <2>1 DEF Apart, load_config_and_apply, ConfigInv, ConfigTypes
    <2> QED
        BY <2>1, <2>2, ApartKeeps
<1>4. ASSUME NEW p \in Cmds, NEW m, NEW t, NEW map, Starts(p), SaveModule(p, m, t, map)
      PROVE  ConfigInv'
    <2>1. bootstage \in {"early", "on"} /\ cmd[p].pc = "idle"
        BY <1>4 DEF Starts, NoCmd
    <2>2. Apart
        BY <1>1, <1>4, <2>1 DEF Apart, SaveModule
    <2> QED
        BY <2>1, <2>2, ApartKeeps
<1>5. ASSUME NEW p \in Cmds, NEW m, NEW t, NEW k, NEW v, set_config_value(p, m, t, k, v)
      PROVE  ConfigInv'
    <2>1. Starts(p) /\ \E map : SaveModule(p, m, t, map)
        BY <1>5, Zenon DEF set_config_value
    <2> QED
        BY <2>1, <1>4
<1>6. ASSUME NEW p \in Cmds, NEW m, NEW t, NEW k, delete_config_value(p, m, t, k)
      PROVE  ConfigInv'
    <2>1. Starts(p) /\ \E map : SaveModule(p, m, t, map)
        BY <1>6, Zenon DEF delete_config_value
    <2> QED
        BY <2>1, <1>4
<1>7. ASSUME NEW p \in Cmds, NEW m, NEW t, clear_config(p, m, t)
      PROVE  ConfigInv'
    <2>1. bootstage \in {"early", "on"}
        BY <1>7 DEF clear_config, Starts
    <2>2. Apart
        BY <1>1, <1>7, <2>1 DEF Apart, clear_config
    <2> QED
        BY <2>1, <2>2, ApartKeeps
<1>8. ASSUME NEW m, ModuleMarked(m) \/ clear_module_configs(m)
      PROVE  ConfigInv'
    <2>1. bootstage \in {"early", "on"} /\ Apart
        BY <1>1, <1>8 DEF Apart, ModuleMarked, clear_module_configs
    <2> QED
        BY <2>1, ApartKeeps
<1> QED
    BY <1>2, <1>3, <1>5, <1>6, <1>7, <1>8

\* set_feature(): the user passes the check where no module manages.
LEMMA SetKeeps ==
    ASSUME ConfigInv, Watch, NEW p \in Cmds, NEW f \in Features, NEW v \in {0, 1},
           NEW caller \in Mods \cup {"user"}, set_feature(p, f, v, caller)
    PROVE  ConfigInv'
<1>1. bootstage \in {"early", "on"} /\ cmd[p] = NoCmd
    BY DEF set_feature, Starts
<1>2. /\ cmd'[p] = [pc |-> "set", f |-> f, v |-> v, caller |-> caller]
      /\ \A q \in Cmds : q # p => cmd'[q] = cmd[q]
      /\ DOMAIN cmd' = Cmds
      /\ UNCHANGED <<kernel, feature_config, bootstage, left, saved, owner>>
    BY DEF set_feature, ConfigInv, ConfigTypes
<1>3. unowned \subseteq unowned' /\ unowned' \subseteq Features /\ Features \ Managed' \subseteq unowned'
    BY <1>1, <1>2, Watched
<1>4. caller = "user" => f \in unowned
    <2>1. managing_modules(f) # {} => caller \in Mods
        BY DEF set_feature, managing_modules
    <2>2. caller = "user" => caller \notin Mods
        BY KsudConfigAssumption
    <2>3. managing_modules(f) = {} => f \in Features \ Managed
        BY DEF Managed
    <2> QED
        BY <2>1, <2>2, <2>3, <1>1 DEF ConfigInv, ManagedInv
<1>5. ConfigTypes'
    BY <1>2, <1>3 DEF ConfigInv, ConfigTypes
<1>6. ManagedInv'
    BY <1>1, <1>2, <1>3, <1>4 DEF ConfigInv, ManagedInv, ManagedKept
<1>7. SavedInv'
    <2>1. UNCHANGED Within(saved, feature_config.map) /\ UNCHANGED Within(saved, left)
        BY <1>2 DEF Within
    <2>2. \A q \in Cmds : cmd'[q].pc = "write" <=> cmd[q].pc = "write"
        BY <1>1, <1>2 DEF NoCmd
    <2>3. \A q \in Cmds : cmd'[q].pc = "write" => cmd'[q] = cmd[q]
        BY <1>1, <1>2
    <2> QED
        BY <1>1, <1>2, <2>1, <2>2, <2>3 DEF ConfigInv, SavedInv
<1> QED
    BY <1>5, <1>6, <1>7 DEF ConfigInv

\* Whoever sets one feature of the kernel, other than from the file.
LEMMA OneSetKeeps ==
    ASSUME ConfigInv, Watch, NEW p \in Cmds, NEW f \in Features, NEW v, NEW who,
           who \in Mods \cup {"user", "load"}, who = "user" => f \in unowned,
           kernel' = [kernel EXCEPT ![f] = v], owner' = [owner EXCEPT ![f] = who],
           cmd[p].pc \in {"set", "apply"}, cmd'[p].pc \in {"idle", "apply"},
           cmd'[p].pc = "apply" => DOMAIN cmd'[p].map \subseteq Features,
           DOMAIN cmd' = Cmds, \A q \in Cmds : q # p => cmd'[q] = cmd[q],
           UNCHANGED <<feature_config, bootstage, left, saved>>
    PROVE  ConfigInv'
<1>1. bootstage \in {"early", "on"}
    BY Running
<1>2. unowned \subseteq unowned' /\ unowned' \subseteq Features /\ Features \ Managed' \subseteq unowned'
    BY <1>1, Watched
<1>3. who \notin {"default", "file"}
    BY KsudConfigAssumption
<1>4. /\ owner'[f] = who /\ \A g \in Features : g # f => owner'[g] = owner[g] /\ kernel'[g] = kernel[g]
      /\ DOMAIN owner' = Features /\ DOMAIN kernel' = Features
    BY DEF ConfigInv, ConfigTypes
<1>5. ConfigTypes'
    BY <1>2, <1>4 DEF ConfigInv, ConfigTypes
<1>6. ManagedInv'
    BY <1>1, <1>2, <1>3, <1>4 DEF ConfigInv, ManagedInv, ManagedKept
<1>7. SavedInv'
    <2>1. UNCHANGED Within(saved, feature_config.map) /\ UNCHANGED Within(saved, left)
        BY DEF Within
    <2>2. \A q \in Cmds : cmd'[q].pc = "write" <=> cmd[q].pc = "write"
        OBVIOUS
    <2>3. \A q \in Cmds : cmd'[q].pc = "write" => cmd'[q] = cmd[q] /\ DOMAIN cmd[q].map = Features
        BY DEF ConfigInv, ConfigTypes
    <2>4. \A map : DOMAIN map \subseteq Features /\ FitsOf(map, owner, kernel) => FitsOf(map, owner', kernel')
        BY <1>3, <1>4 DEF FitsOf
    <2>5. DOMAIN saved \subseteq Features
        BY DEF ConfigInv, ConfigTypes
    <2> QED
        BY <1>1, <2>1, <2>2, <2>3, <2>4, <2>5 DEF ConfigInv, SavedInv
<1> QED
    BY <1>5, <1>6, <1>7 DEF ConfigInv

\* "feature save" cuts the file, and then writes what it read.
LEMMA SaveKeeps ==
    ASSUME ConfigInv, Watch, NEW p \in Cmds, save_config(p)
    PROVE  ConfigInv'
<1>1. /\ bootstage \in {"early", "on"} /\ cmd[p] = NoCmd
      /\ cmd'[p] = [pc |-> "write", map |-> kernel]
      /\ \A q \in Cmds : q # p => cmd'[q] = cmd[q]
      /\ DOMAIN cmd' = Cmds /\ feature_config' = TornFile
      /\ UNCHANGED <<kernel, bootstage, left, saved, owner>>
    BY DEF save_config, Starts, ConfigInv, ConfigTypes
<1>2. unowned \subseteq unowned' /\ unowned' \subseteq Features /\ Features \ Managed' \subseteq unowned'
    BY <1>1, Watched
<1>3. ConfigTypes'
    BY <1>1, <1>2 DEF ConfigInv, ConfigTypes, TornFile, Empty
<1>4. ManagedInv'
    BY <1>1, <1>2 DEF ConfigInv, ManagedInv, ManagedKept
<1>5. SavedInv'
    <2>1. FitsOf(cmd'[p].map, owner', kernel')
        BY <1>1 DEF FitsOf
    <2>2. cmd'[p].pc = "write" /\ ~feature_config'.whole
        BY <1>1 DEF TornFile
    <2> QED
        BY <1>1, <2>1, <2>2 DEF ConfigInv, SavedInv
<1> QED
    BY <1>3, <1>4, <1>5 DEF ConfigInv

LEMMA WrittenKeeps ==
    ASSUME ConfigInv, Watch, NEW p \in Cmds, FeaturesWritten(p)
    PROVE  ConfigInv'
<1>1. bootstage \in {"early", "on"}
    BY Running DEF FeaturesWritten
<1>2. /\ cmd[p].pc = "write" /\ cmd'[p] = NoCmd
      /\ \A q \in Cmds : q # p => cmd'[q] = cmd[q]
      /\ DOMAIN cmd' = Cmds
      /\ feature_config' = Whole(cmd[p].map) /\ saved' = cmd[p].map
      /\ UNCHANGED <<kernel, bootstage, left, owner>>
    BY DEF FeaturesWritten, ConfigInv, ConfigTypes
<1>3. unowned \subseteq unowned' /\ unowned' \subseteq Features /\ Features \ Managed' \subseteq unowned'
    BY <1>1, <1>2, Watched
<1>4. ConfigTypes'
    BY <1>2, <1>3 DEF ConfigInv, ConfigTypes, Whole, NoCmd
<1>5. ManagedInv'
    BY <1>1, <1>2, <1>3 DEF ConfigInv, ManagedInv, ManagedKept, NoCmd
<1>6. SavedInv'
    <2>1. feature_config'.whole /\ Within(saved', feature_config'.map)
        BY <1>2 DEF Whole, Within
    <2>2. FitsOf(saved', owner', kernel')
        BY <1>2 DEF ConfigInv, SavedInv
    <2> QED
        BY <1>1, <1>2, <2>1, <2>2 DEF ConfigInv, SavedInv, NoCmd
<1> QED
    BY <1>4, <1>5, <1>6 DEF ConfigInv

\* The boot's own steps.
LEMMA PowerKeeps ==
    ASSUME ConfigInv, Watch, PowerCycle
    PROVE  ConfigInv'
<1>1. /\ bootstage' = "clear" /\ DOMAIN left' = {} /\ feature_config' = feature_config
      /\ DOMAIN cmd' = Cmds /\ \A p \in Cmds : cmd'[p] = NoCmd
      /\ DOMAIN owner' = Features /\ DOMAIN kernel' = Features
      /\ \A f \in Features : owner'[f] = "default"
      /\ unowned' = {}
    BY DEF PowerCycle, Watch, Empty
<1>2. (feature_config.whole => saved' = saved) /\ (~feature_config.whole => DOMAIN saved' = {})
    BY DEF PowerCycle, Empty
<1>3. ConfigTypes'
    BY <1>1, <1>2 DEF ConfigInv, ConfigTypes, NoCmd
<1>4. ManagedInv'
    BY <1>1 DEF ManagedInv, ManagedKept, Quiet, NoCmd
<1>5. SavedInv'
    BY <1>1, <1>2 DEF ConfigInv, SavedInv, Within, NoCmd
<1> QED
    BY <1>3, <1>4, <1>5 DEF ConfigInv

LEMMA ClearedKeeps ==
    ASSUME ConfigInv, Watch, clear_all_temp_configs
    PROVE  ConfigInv'
<1>1. /\ bootstage = "clear" /\ bootstage' = "early"
      /\ UNCHANGED <<kernel, feature_config, cmd, left, saved, owner>>
    BY DEF clear_all_temp_configs
<1>2. unowned \subseteq unowned' /\ unowned' \subseteq Features /\ Features \ Managed' \subseteq unowned'
    BY <1>1, Watched
<1>3. ConfigTypes'
    BY <1>1, <1>2 DEF ConfigInv, ConfigTypes
<1>4. ManagedInv'
    BY <1>1, <1>2 DEF ConfigInv, ManagedInv, ManagedKept, Quiet, NoCmd
<1>5. SavedInv'
    BY <1>1 DEF ConfigInv, SavedInv, Within, FitsOf
<1> QED
    BY <1>3, <1>4, <1>5 DEF ConfigInv

LEMMA SafeModeKeeps ==
    ASSUME ConfigInv, Watch, SafeMode
    PROVE  ConfigInv'
<1>1. /\ bootstage = "early" /\ bootstage' = "on" /\ \A p \in Cmds : cmd[p] = NoCmd
      /\ DOMAIN owner' = Features /\ \A f \in Features : owner'[f] = "safe mode"
      /\ UNCHANGED <<kernel, feature_config, cmd, left, saved>>
    BY DEF SafeMode
<1>2. unowned \subseteq unowned' /\ unowned' \subseteq Features /\ Features \ Managed' \subseteq unowned'
    BY <1>1, Watched
<1>3. ConfigTypes'
    BY <1>1, <1>2 DEF ConfigInv, ConfigTypes
<1>4. ManagedInv'
    BY <1>1, <1>2 DEF ConfigInv, ManagedInv, ManagedKept, NoCmd
<1>5. FitsOf(saved', owner', kernel')
    BY <1>1, <1>3 DEF FitsOf, ConfigTypes
<1>6. SavedInv'
    <2>1. UNCHANGED Within(saved, feature_config.map)
        BY <1>1 DEF Within
    <2>2. \A p \in Cmds : cmd'[p].pc # "write" /\ cmd[p].pc # "write"
        <3>1. NoCmd.pc # "write"
            BY DEF NoCmd
        <3> QED
            BY <1>1, <3>1
    <2> QED
        BY <1>1, <1>5, <2>1, <2>2 DEF ConfigInv, SavedInv
<1> QED
    BY <1>3, <1>4, <1>6 DEF ConfigInv

\* What init_features() reads is what is saved, but for what is managed now.
LEMMA InitKeeps ==
    ASSUME ConfigInv, Watch, init_features
    PROVE  ConfigInv'
<1> DEFINE features == Restrict(feature_config.map, DOMAIN feature_config.map \ Managed)
<1>1. /\ bootstage = "early" /\ \A p \in Cmds : cmd[p] = NoCmd
      /\ IF feature_config.whole /\ features # Empty
         THEN bootstage' = "init" /\ left' = features
         ELSE bootstage' = "on" /\ left' = left
      /\ UNCHANGED <<kernel, feature_config, cmd, owner>>
    BY DEF init_features
<1>2. /\ DOMAIN saved' = DOMAIN saved \ Managed
      /\ \A f \in DOMAIN saved \ Managed : saved'[f] = saved[f]
    BY DEF init_features, Restrict
<1>3. /\ DOMAIN features = DOMAIN feature_config.map \ Managed
      /\ \A f \in DOMAIN features : features[f] = feature_config.map[f]
    BY DEF Restrict
<1>4. unowned \subseteq unowned' /\ unowned' \subseteq Features /\ Features \ Managed' \subseteq unowned'
    BY <1>1, Watched
<1>5. features = Empty => DOMAIN features = {}
    BY DEF Empty
<1> HIDE DEF features
<1>6. ConfigTypes'
    BY <1>1, <1>2, <1>4 DEF ConfigInv, ConfigTypes
<1>7. ManagedInv'
    <2>1. DOMAIN features \subseteq unowned
        BY <1>1, <1>3 DEF ConfigInv, ConfigTypes, ManagedInv
    <2> QED
        BY <1>1, <1>4, <2>1 DEF ConfigInv, ManagedInv, ManagedKept, NoCmd
<1>8. feature_config.whole => Within(saved', features) /\ Within(saved', feature_config.map)
    BY <1>2, <1>3 DEF ConfigInv, SavedInv, Within
<1>9. ~feature_config.whole => DOMAIN saved' = {}
    BY <1>1, <1>2 DEF ConfigInv, SavedInv, NoCmd
<1>10. SavedInv'
    <2>1. CASE feature_config.whole /\ features # Empty
        BY <1>1, <1>8, <2>1 DEF SavedInv, Quiet, NoCmd
    <2>2. CASE ~(feature_config.whole /\ features # Empty)
        <3>1. DOMAIN saved' = {}
            BY <1>5, <1>8, <1>9, <2>2 DEF Within
        <3> QED
            BY <1>1, <2>2, <3>1 DEF SavedInv, FitsOf, Within, NoCmd
    <2> QED
        BY <2>1, <2>2
<1> QED
    BY <1>6, <1>7, <1>10 DEF ConfigInv

LEMMA ApplyKeeps ==
    ASSUME ConfigInv, Watch, apply_config
    PROVE  ConfigInv'
<1>1. /\ bootstage = "init" /\ bootstage' = "write" /\ feature_config' = TornFile
      /\ DOMAIN kernel' = Features /\ DOMAIN owner' = Features
      /\ \A f \in DOMAIN left : f \in Features => kernel'[f] = left[f]
      /\ \A f \in Features : owner'[f] = IF f \in DOMAIN left THEN "file" ELSE owner[f]
      /\ UNCHANGED <<cmd, left, saved>>
    BY DEF apply_config
<1>2. unowned \subseteq unowned' /\ unowned' \subseteq Features /\ Features \ Managed' \subseteq unowned'
    BY <1>1, Watched
<1>3. Quiet /\ Within(saved, left) /\ DOMAIN left \subseteq unowned
    BY <1>1 DEF ConfigInv, SavedInv, ManagedInv
<1>4. ConfigTypes'
    BY <1>1, <1>2 DEF ConfigInv, ConfigTypes, TornFile, Empty
<1>5. ManagedInv'
    BY <1>1, <1>2, <1>3 DEF ConfigInv, ManagedInv, ManagedKept
<1>6. FitsOf(saved', owner', kernel')
    BY <1>1, <1>3 DEF FitsOf, Within, ConfigInv, ConfigTypes
<1>7. SavedInv'
    BY <1>1, <1>3, <1>6 DEF SavedInv, Within, Quiet, NoCmd, TornFile
<1> QED
    BY <1>4, <1>5, <1>7 DEF ConfigInv

LEMMA InitWrittenKeeps ==
    ASSUME ConfigInv, Watch, InitWritten
    PROVE  ConfigInv'
<1>1. /\ bootstage = "write" /\ bootstage' = "on" /\ DOMAIN left' = {}
      /\ feature_config' = Whole(left)
      /\ UNCHANGED <<kernel, cmd, saved, owner>>
    BY DEF InitWritten, Empty
<1>2. unowned \subseteq unowned' /\ unowned' \subseteq Features /\ Features \ Managed' \subseteq unowned'
    BY <1>1, Watched
<1>3. Quiet /\ Within(saved, left) /\ DOMAIN left \subseteq unowned /\ FitsOf(saved, owner, kernel)
    BY <1>1 DEF ConfigInv, SavedInv, ManagedInv
<1>4. ConfigTypes'
    BY <1>1, <1>2, <1>3 DEF ConfigInv, ConfigTypes, Whole
<1>5. ManagedInv'
    BY <1>1, <1>2, <1>3 DEF ConfigInv, ManagedInv, ManagedKept
<1>6. SavedInv'
    BY <1>1, <1>3 DEF SavedInv, Within, Quiet, NoCmd, Whole
<1> QED
    BY <1>4, <1>5, <1>6 DEF ConfigInv

LEMMA ConfigInvAlways == ConfigSpec => []ConfigInv
<1>1. ConfigInv /\ [ConfigNext]_configVars => ConfigInv'
    <2> SUFFICES ASSUME ConfigInv, [ConfigNext]_configVars
                 PROVE  ConfigInv'
        OBVIOUS
    <2>1. CASE UNCHANGED configVars
        <3>1. UNCHANGED Managed
            BY <2>1 DEF configVars, Managed, managing_modules, Manages, merge_configs
        <3>2. UNCHANGED <<kernel, feature_config, cmd, bootstage, left, saved, owner, unowned>>
            BY <2>1 DEF configVars
        <3> QED
            BY <3>1, <3>2 DEF ConfigInv, ConfigTypes, ManagedInv, SavedInv, ManagedKept, Quiet,
                              Within, FitsOf
    <2>2. CASE ConfigNext
        <3>1. Watch /\ ConfigStep
            BY <2>2 DEF ConfigNext
        <3>2. ASSUME NEW p \in Cmds, set_kernel_feature(p)
              PROVE  ConfigInv'
            <4>1. /\ cmd[p].f \in Features /\ cmd[p].caller \in Mods \cup {"user"}
                  /\ cmd[p].caller = "user" => cmd[p].f \in unowned
                BY <3>2 DEF ConfigInv, ConfigTypes, ManagedInv, set_kernel_feature
            <4>2. /\ cmd[p].pc = "set" /\ cmd'[p].pc = "idle"
                  /\ DOMAIN cmd' = Cmds /\ \A q \in Cmds : q # p => cmd'[q] = cmd[q]
                BY <3>2 DEF ConfigInv, ConfigTypes, set_kernel_feature, NoCmd
            <4>3. /\ kernel' = [kernel EXCEPT ![cmd[p].f] = cmd[p].v]
                  /\ owner' = [owner EXCEPT ![cmd[p].f] = cmd[p].caller]
                  /\ UNCHANGED <<feature_config, bootstage, left, saved>>
                BY <3>2 DEF set_kernel_feature
            <4> QED
                BY <3>1, <4>1, <4>2, <4>3, OneSetKeeps
        <3>3. ASSUME NEW p \in Cmds, ApplyLoaded(p)
              PROVE  ConfigInv'
            <4>1. PICK f \in DOMAIN cmd[p].map :
                     /\ kernel' = [kernel EXCEPT ![f] = cmd[p].map[f]]
                     /\ owner' = [owner EXCEPT ![f] = "load"]
                     /\ LET rest == Restrict(cmd[p].map, DOMAIN cmd[p].map \ {f})
                        IN  cmd' = [cmd EXCEPT ![p] = IF rest = Empty THEN NoCmd
                                                      ELSE [pc |-> "apply", map |-> rest]]
                BY <3>3 DEF ApplyLoaded
            <4>2. /\ cmd[p].pc = "apply" /\ cmd'[p].pc \in {"idle", "apply"}
                  /\ DOMAIN cmd' = Cmds /\ \A q \in Cmds : q # p => cmd'[q] = cmd[q]
                BY <3>3, <4>1 DEF ConfigInv, ConfigTypes, ApplyLoaded, NoCmd
            <4>3. UNCHANGED <<feature_config, bootstage, left, saved>>
                BY <3>3 DEF ApplyLoaded
            <4>4. f \in Features
                BY <4>2 DEF ConfigInv, ConfigTypes
            <4>5. cmd'[p].pc = "apply" => DOMAIN cmd'[p].map \subseteq Features
                BY <4>1, <4>2 DEF ConfigInv, ConfigTypes, NoCmd, Restrict
            <4>6. "load" \in Mods \cup {"user", "load"} /\ "load" # "user"
                OBVIOUS
            <4>7. /\ kernel' = [kernel EXCEPT ![f] = cmd[p].map[f]]
                  /\ owner' = [owner EXCEPT ![f] = "load"]
                BY <4>1
            <4> QED
                BY <3>1, <4>2, <4>3, <4>4, <4>5, <4>6, <4>7, OneSetKeeps
        <3> QED
            BY <3>1, <3>2, <3>3, ApartSteps, SetKeeps, SaveKeeps, WrittenKeeps, PowerKeeps,
               ClearedKeeps, SafeModeKeeps, InitKeeps, ApplyKeeps, InitWrittenKeeps
               DEF ConfigStep
    <2> QED
        BY <2>1, <2>2
<1> QED
    BY ConfigStarts, <1>1, PTL DEF ConfigSpec

\* A feature that modules manage is set by nobody else, and what the user
\* saved is there after every boot: whatever commands run at the same time,
\* and wherever the power goes.
THEOREM FeaturesCorrect == ConfigSpec => []FeatureSettings
<1>1. ConfigInv => FeatureSettings
    BY DEF ConfigInv, ManagedInv, SavedInv, FeatureSettings, SavedReturns, FitsOf
<1> QED
    BY <1>1, ConfigInvAlways, PTL

-----------------------------------------------------------------------------
(***************************************************************************)
(* The injection into init.rc, for every size of it and of the scripts,    *)
(* every choice of buffer sizes and any number of faults.                  *)
(***************************************************************************)

(* The stream is the first Len(s) bytes.                                   *)
Exact(s) == s \in Seq(Nat) /\ \A i \in 1..Len(s) : s[i] = i

(* The three sources are used up one after the other, and what has been    *)
(* received is determined by the three positions.                          *)
OrderInv ==
    /\ ksu_rc_pos > 0 => fpos = OrigLen
    /\ module_rc_pos > 0 => ksu_rc_pos = RcLen
    /\ Exact(out)
    /\ Len(out) = fpos + ksu_rc_pos + module_rc_pos

(* The modules' buffer is there until its last byte is out.                *)
BufferInv ==
    \/ module_rc_len = mod_size /\ module_rc_pos < mod_size /\ module_rc_buf = TRUE
    \/ module_rc_len = 0 /\ module_rc_pos = mod_size

(* Before the first read nothing has moved; before the load there is no    *)
(* modules' script.                                                        *)
HookInv ==
    /\ hook = "table" => fpos = 0 /\ ksu_rc_pos = 0 /\ module_rc_pos = 0 /\ eof = FALSE
    /\ hook = "proxy" => loaded = TRUE
    /\ loaded = FALSE => mod_size = 0 /\ module_rc_pos = 0 /\ size = -1

EndInv ==
    /\ eof = TRUE => Len(out) = Total
    /\ size # -1 => size = Total
    /\ given <= asked

RcInv == TypeOK /\ OrderInv /\ BufferInv /\ HookInv /\ EndInv

-----------------------------------------------------------------------------
\* Sizes add up to a size.
LEMMA SumOfSizes == \A a, b, c \in Nat : a + b + c \in Nat
OBVIOUS

\* Appending the next n bytes of the stream keeps it exact.
LEMMA ExtendExact ==
    ASSUME NEW s, Exact(s), NEW n \in Nat, NEW k, k = Len(s)
    PROVE  /\ Exact(s \o Bytes(k, n))
           /\ Len(s \o Bytes(k, n)) = Len(s) + n
<1> DEFINE b == Bytes(k, n)
<1>2. s \in Seq(Nat) /\ Len(s) \in Nat /\ \A i \in 1..Len(s) : s[i] = i
    BY DEF Exact
<1>1. b \in Seq(Nat) /\ Len(b) = n /\ \A i \in 1..n : b[i] = Len(s) + i
    BY <1>2 DEF Bytes
<1> HIDE DEF b
<1>3. s \o b \in Seq(Nat) /\ Len(s \o b) = Len(s) + n
    BY <1>1, <1>2, ConcatProperties
<1>4. ASSUME NEW i \in 1..Len(s \o b) PROVE (s \o b)[i] = i
  <2>1. CASE i <= Len(s)
      BY <1>1, <1>2, <1>3, <2>1
  <2>2. CASE i > Len(s)
    <3>1. i - Len(s) \in 1..n
        BY <1>2, <1>3, <2>2
    <3>2. (s \o b)[i] = b[i - Len(s)]
        BY <1>1, <1>2, <1>3, <2>2
    <3> QED
        BY <1>1, <1>2, <3>1, <3>2
  <2> QED
      BY <1>2, <1>3, <2>1, <2>2
<1> QED
    BY <1>3, <1>4 DEF b, Exact

\* Copying nothing appends nothing, whatever the buffer.
LEMMA ExtendNothing ==
    ASSUME NEW s, Exact(s), NEW k
    PROVE  s \o Bytes(k, 0) = s /\ s \o Stale(0) = s
<1>1. Bytes(k, 0) = <<>> /\ Stale(0) = <<>>
    BY DEF Bytes, Stale
<1>2. s \in Seq(Nat)
    BY DEF Exact
<1> QED
    BY <1>1, <1>2, ConcatEmptySeq

-----------------------------------------------------------------------------
\* The initial state.
LEMMA RcInit == Init => RcInv
<1> SUFFICES ASSUME Init PROVE RcInv
    OBVIOUS
<1>1. OrigLen \in Nat /\ RcLen \in Nat /\ MaxFaults \in Nat
    BY RcAssumption
<1>2. out \in Seq(Nat) /\ Len(out) = 0
    BY DEF Init
<1>3. TypeOK
  <2>1. /\ hook \in {"table", "proxy"} /\ iter \in BOOLEAN
        /\ loaded \in BOOLEAN /\ module_rc_buf \in BOOLEAN /\ eof \in BOOLEAN
      BY DEF Init
  <2>2. /\ mod_size \in Nat /\ module_rc_len \in {0, mod_size}
        /\ module_rc_pos \in 0..mod_size
        /\ ksu_rc_pos \in 0..RcLen
        /\ fpos \in 0..OrigLen
        /\ size \in Nat \cup {-1}
        /\ asked \in Nat /\ given \in Nat /\ faults \in 0..MaxFaults
      BY <1>1 DEF Init
  <2> QED
      BY <1>2, <2>1, <2>2 DEF TypeOK
<1>4. OrderInv
    BY <1>1, <1>2 DEF Init, OrderInv, Exact
<1>5. BufferInv /\ HookInv
    BY DEF Init, BufferInv, HookInv
<1>6. EndInv
    BY <1>1, <1>2 DEF Init, EndInv
<1> QED
    BY <1>3, <1>4, <1>5, <1>6 DEF RcInv

\* fstat and the first read load the script of the modules, once.
LEMMA LoadKeeps == RcInv /\ (Fstat \/ FstatFault \/ InstallHook) => RcInv'
<1> SUFFICES ASSUME RcInv, Fstat \/ FstatFault \/ InstallHook PROVE RcInv'
    OBVIOUS
<1>0. OrigLen \in Nat /\ RcLen \in Nat /\ ModSizes \subseteq Nat
    BY RcAssumption
<1>1. /\ hook = "table" /\ iter' = iter /\ module_rc_pos' = module_rc_pos
      /\ ksu_rc_pos' = ksu_rc_pos /\ fpos' = fpos /\ out' = out
      /\ asked' = asked /\ given' = given /\ eof' = eof
      /\ hook' \in {"table", "proxy"}
    BY DEF Fstat, FstatFault, InstallHook, RcInv, TypeOK
<1>10. faults' \in 0..MaxFaults
    BY RcAssumption DEF Fstat, FstatFault, InstallHook, RcInv, TypeOK
<1>2. fpos = 0 /\ ksu_rc_pos = 0 /\ module_rc_pos = 0 /\ eof = FALSE
    BY <1>1 DEF RcInv, HookInv
<1>3. /\ loaded' = TRUE /\ mod_size' \in Nat /\ module_rc_len' = mod_size'
      /\ module_rc_buf' \in BOOLEAN /\ (mod_size' > 0 => module_rc_buf' = TRUE)
      /\ (loaded = TRUE => mod_size' = mod_size)
  <2>1. load_module_rc_once
      BY DEF Fstat, FstatFault, InstallHook
  <2>2. CASE loaded = TRUE /\ UNCHANGED loadVars
      BY <1>2, <2>2 DEF loadVars, RcInv, TypeOK, BufferInv
  <2>3. CASE /\ loaded = FALSE /\ loaded' = TRUE
             /\ \E n \in ModSizes \cup {0} :
                   mod_size' = n /\ module_rc_len' = n /\ module_rc_buf' = (n > 0)
    <3>1. PICK n \in ModSizes \cup {0} :
              mod_size' = n /\ module_rc_len' = n /\ module_rc_buf' = (n > 0)
        BY <2>3
    <3>2. n \in Nat
        BY <1>0
    <3>3. mod_size' \in Nat /\ module_rc_len' = mod_size'
        BY <3>1, <3>2
    <3>4. module_rc_buf' \in BOOLEAN /\ module_rc_buf' = (mod_size' > 0)
        BY <3>1
    <3>5. mod_size' > 0 => module_rc_buf' = TRUE
        BY <3>4
    <3> QED
        BY <2>3, <3>3, <3>4, <3>5
  <2> QED
      BY <2>1, <2>2, <2>3 DEF load_module_rc_once, RcInv, TypeOK
<1>4. size' = OrigLen + RcLen + mod_size' \/ size' = -1 \/ size' = size
    BY <1>3 DEF Fstat, FstatFault, InstallHook
<1>5. size' \in Nat \cup {-1} /\ (size' # -1 => size' = Total')
  <2>1. CASE size' = OrigLen + RcLen + mod_size'
    <3>1. mod_size' \in Nat
        BY <1>3
    <3>2. size' = Total'
        BY <2>1 DEF Total
    <3>3. OrigLen + RcLen + mod_size' \in Nat
      <4>1. OrigLen \in Nat /\ RcLen \in Nat
          BY RcAssumption
      <4> QED
          BY <3>1, <4>1, SumOfSizes
    <3>4. size' \in Nat
        BY <2>1, <3>3
    <3> QED
        BY <3>2, <3>4
  <2>2. CASE size' = -1
      BY <2>2
  <2>3. CASE size' = size
      BY <1>3, <2>3 DEF RcInv, TypeOK, HookInv, EndInv, Total
  <2> QED
      BY <1>4, <2>1, <2>2, <2>3
<1>6. TypeOK'
    BY <1>1, <1>2, <1>3, <1>5, <1>10 DEF RcInv, TypeOK
<1>7. OrderInv'
    BY <1>1 DEF RcInv, OrderInv, Exact
<1>8. BufferInv' /\ HookInv'
    BY <1>1, <1>2, <1>3 DEF BufferInv, HookInv
<1>9. EndInv'
    BY <1>1, <1>2, <1>5 DEF RcInv, EndInv
<1> QED
    BY <1>6, <1>7, <1>8, <1>9 DEF RcInv

\* A read of the file itself.
LEMMA OrigKeeps == ASSUME NEW count \in Counts, RcInv, ReadOrig(count)
                   PROVE  RcInv'
<1>1. count \in Nat /\ OrigLen \in Nat /\ RcLen \in Nat /\ RcLen > 0
    BY RcAssumption
<1>2. PICK n \in 1..Least(count, OrigLen - fpos) :
          /\ Proxied(count, n)
          /\ out' = out \o Bytes(fpos, n)
          /\ fpos' = fpos + n
    BY DEF ReadOrig
<1>3. n \in Nat /\ n <= count /\ n <= OrigLen - fpos /\ fpos \in Nat
    BY <1>1, <1>2 DEF RcInv, TypeOK, Least
<1>4. ksu_rc_pos = 0 /\ module_rc_pos = 0 /\ eof = FALSE
    BY <1>1 DEF RcInv, TypeOK, OrderInv, EndInv, Total, ReadOrig
<1>5. Exact(out') /\ Len(out') = Len(out) + n
  <2>1. Exact(out) /\ fpos = Len(out)
      BY <1>3, <1>4 DEF RcInv, OrderInv
  <2> QED
      BY <1>2, <1>3, <2>1, ExtendExact
<1>6. /\ hook = "proxy" /\ hook' = hook /\ iter' = iter /\ loaded' = loaded
      /\ mod_size' = mod_size /\ size' = size /\ module_rc_buf' = module_rc_buf
      /\ module_rc_len' = module_rc_len /\ module_rc_pos' = module_rc_pos
      /\ ksu_rc_pos' = ksu_rc_pos /\ eof' = eof /\ faults' = faults
      /\ asked' = count /\ given' = n /\ fpos' = fpos + n
    BY <1>2 DEF ReadOrig, Proxied
<1>7. TypeOK'
    BY <1>1, <1>3, <1>5, <1>6 DEF RcInv, TypeOK, Exact
<1>8. OrderInv'
    BY <1>3, <1>4, <1>5, <1>6 DEF RcInv, OrderInv
<1>9. BufferInv' /\ HookInv'
    BY <1>6 DEF RcInv, BufferInv, HookInv
<1>10. EndInv'
    BY <1>3, <1>4, <1>6 DEF RcInv, EndInv, Total
<1> QED
    BY <1>7, <1>8, <1>9, <1>10 DEF RcInv

\* The end of the stream.
LEMMA EndKeeps == ASSUME NEW count \in Counts, RcInv, ReadEnd(count)
                  PROVE  RcInv'
BY RcAssumption
DEF RcInv, TypeOK, OrderInv, BufferInv, HookInv, EndInv, Total, ReadEnd, Proxied, AllDone,
    Exact

\* How much of the scripts one read can take.
LEMMA PartsFact ==
    ASSUME NEW count \in Counts, RcInv, Appending
    PROVE  /\ fpos = OrigLen
           /\ StaticPart(count) \in Nat /\ ModulePart(count) \in Nat
           /\ StaticPart(count) <= RcLen - ksu_rc_pos
           /\ ModulePart(count) <= module_rc_len - module_rc_pos
           /\ StaticPart(count) + ModulePart(count) <= count
           /\ StaticPart(count) + ModulePart(count) > 0
           /\ ModulePart(count) > 0 => StaticPart(count) = RcLen - ksu_rc_pos
           /\ module_rc_len = mod_size
<1>1. count \in Nat /\ count > 0 /\ OrigLen \in Nat /\ RcLen \in Nat /\ RcLen > 0
    BY RcAssumption
<1>2. fpos = OrigLen /\ module_rc_pos <= module_rc_len /\ module_rc_len = mod_size
    BY <1>1 DEF RcInv, TypeOK, OrderInv, BufferInv, Appending, InStatic, InModule, AllDone
<1>3. ksu_rc_pos < RcLen \/ module_rc_pos < module_rc_len
    BY <1>1 DEF RcInv, TypeOK, Appending, InStatic, InModule, AllDone
<1>4. /\ ksu_rc_pos \in Nat /\ ksu_rc_pos <= RcLen
      /\ module_rc_pos \in Nat /\ module_rc_len \in Nat
    BY <1>1 DEF RcInv, TypeOK
<1> QED
    BY <1>1, <1>2, <1>3, <1>4 DEF StaticPart, ModulePart, Least

\* A read of s bytes of KernelSU's script and m of the modules'.
LEMMA DeliverKeeps ==
    ASSUME NEW count \in Counts, RcInv, NEW s \in Nat, NEW m \in Nat,
           Deliver(count, s, m),
           s <= StaticPart(count), m <= ModulePart(count),
           m > 0 => s = StaticPart(count),
           faults' \in 0..MaxFaults, eof' = eof
    PROVE  RcInv'
<1>0. count \in Nat /\ count > 0 /\ OrigLen \in Nat /\ RcLen \in Nat /\ RcLen > 0
    BY RcAssumption
<1>1. Appending
    BY DEF Deliver
<1>2. /\ fpos = OrigLen /\ module_rc_len = mod_size
      /\ s <= RcLen - ksu_rc_pos
      /\ m <= module_rc_len - module_rc_pos
      /\ s + m <= count
      /\ m > 0 => s = RcLen - ksu_rc_pos
  <2> DEFINE sp == StaticPart(count)
             mp == ModulePart(count)
  <2>1. /\ fpos = OrigLen /\ module_rc_len = mod_size
        /\ sp \in Nat /\ mp \in Nat
        /\ sp <= RcLen - ksu_rc_pos
        /\ mp <= module_rc_len - module_rc_pos
        /\ sp + mp <= count
        /\ mp > 0 => sp = RcLen - ksu_rc_pos
      BY <1>1, PartsFact
  <2>2. s <= sp /\ m <= mp /\ (m > 0 => s = sp)
      OBVIOUS
  <2>3. /\ ksu_rc_pos \in Nat /\ module_rc_pos \in Nat /\ module_rc_len \in Nat
      BY <1>0 DEF RcInv, TypeOK
  <2> HIDE DEF sp, mp
  <2> QED
      BY <1>0, <2>1, <2>2, <2>3
<1>3. /\ fpos \in Nat /\ ksu_rc_pos \in Nat /\ module_rc_pos \in Nat /\ mod_size \in Nat
      /\ out \in Seq(Nat) /\ Exact(out)
      /\ Len(out) = fpos + ksu_rc_pos + module_rc_pos
      /\ module_rc_pos > 0 => ksu_rc_pos = RcLen
    BY <1>0 DEF RcInv, TypeOK, OrderInv
<1> DEFINE mid == out \o Bytes(OrigLen + ksu_rc_pos, s)
<1>4. Exact(mid) /\ Len(mid) = Len(out) + s
  <2>1. CASE s = 0
    <3>1. out \o Bytes(OrigLen + ksu_rc_pos, 0) = out
        BY <1>3, ExtendNothing
    <3>2. mid = out
        BY <2>1, <3>1
    <3>3. Len(out) = Len(out) + s
        BY <1>3, <2>1
    <3> HIDE DEF mid
    <3> QED
        BY <1>3, <3>2, <3>3
  <2>2. CASE s > 0
    <3>1. module_rc_pos = 0
        BY <1>0, <1>2, <1>3, <2>2
    <3>2. OrigLen + ksu_rc_pos = Len(out)
        BY <1>0, <1>2, <1>3, <3>1
    <3> QED
        BY <1>3, <3>2, ExtendExact
  <2> QED
      BY <2>1, <2>2
<1> HIDE DEF mid
<1>5. \/ module_rc_buf = TRUE /\ out' = mid \o Bytes(OrigLen + RcLen + module_rc_pos, m)
      \/ module_rc_buf = FALSE /\ out' = mid \o Stale(m)
    BY DEF Deliver, mid, RcInv, TypeOK
<1>6. Exact(out') /\ Len(out') = Len(out) + s + m
  <2>1. CASE m = 0
    <3>1. out' = mid
        BY <1>4, <1>5, <2>1, ExtendNothing
    <3> QED
        BY <1>3, <1>4, <2>1, <3>1
  <2>2. CASE m > 0
    <3>1. module_rc_buf = TRUE
        BY <1>2, <1>3, <2>2 DEF RcInv, BufferInv
    <3>2. OrigLen + RcLen + module_rc_pos = Len(mid)
      <4>1. ksu_rc_pos + s = RcLen
          BY <1>0, <1>2, <1>3, <2>2
      <4> QED
          BY <1>0, <1>2, <1>3, <1>4, <4>1
    <3>3. out' = mid \o Bytes(OrigLen + RcLen + module_rc_pos, m)
        BY <1>5, <3>1
    <3> QED
        BY <1>4, <3>2, <3>3, ExtendExact
  <2> QED
      BY <2>1, <2>2
<1>7. /\ ksu_rc_pos' = ksu_rc_pos + s /\ module_rc_pos' = module_rc_pos + m
      /\ fpos' = fpos /\ hook' = hook /\ hook = "proxy" /\ iter' = iter
      /\ loaded' = loaded /\ mod_size' = mod_size /\ size' = size
      /\ asked' = count /\ given' = s + m
    BY DEF Deliver, Proxied, AdvanceModule
<1>8. BufferInv' /\ module_rc_buf' \in BOOLEAN /\ module_rc_len' \in {0, mod_size}
  <2>1. CASE m = 0
      BY <1>2, <1>3, <1>7, <2>1 DEF RcInv, TypeOK, BufferInv, Deliver, AdvanceModule
  <2>2. CASE m > 0 /\ module_rc_pos + m = mod_size
      BY <1>2, <1>3, <1>7, <2>2 DEF RcInv, TypeOK, BufferInv, Deliver, AdvanceModule
  <2>3. CASE m > 0 /\ module_rc_pos + m # mod_size
      BY <1>2, <1>3, <1>7, <2>3 DEF RcInv, TypeOK, BufferInv, Deliver, AdvanceModule
  <2> QED
      BY <2>1, <2>2, <2>3
<1>9. eof = TRUE => s + m = 0
    BY <1>0, <1>2, <1>3 DEF RcInv, EndInv, Total
<1>10. OrderInv'
    BY <1>0, <1>2, <1>3, <1>6, <1>7 DEF RcInv, OrderInv
<1>11. TypeOK'
    BY <1>0, <1>2, <1>3, <1>6, <1>7, <1>8 DEF RcInv, TypeOK, Exact
<1>12. HookInv'
    BY <1>7 DEF RcInv, HookInv
<1>13. EndInv'
    BY <1>2, <1>3, <1>6, <1>7, <1>9 DEF RcInv, TypeOK, EndInv, Total
<1> QED
    BY <1>8, <1>10, <1>11, <1>12, <1>13 DEF RcInv

\* A read that appends, and one that faults while it appends.
LEMMA AppendKeeps == ASSUME NEW count \in Counts, RcInv, ReadAppend(count)
                     PROVE  RcInv'
<1>1. Appending /\ Deliver(count, StaticPart(count), ModulePart(count))
    BY DEF ReadAppend, Deliver
<1>2. /\ StaticPart(count) \in Nat /\ ModulePart(count) \in Nat
      /\ StaticPart(count) + ModulePart(count) > 0
    BY <1>1, PartsFact
<1>3. eof' = eof
  <2>1. given' # 0
      BY <1>1, <1>2 DEF Deliver, Proxied
  <2> QED
      BY <2>1 DEF ReadAppend, RcInv, TypeOK
<1>4. faults' \in 0..MaxFaults
    BY DEF ReadAppend, RcInv, TypeOK
<1> QED
    BY <1>1, <1>2, <1>3, <1>4, DeliverKeeps

LEMMA FaultKeeps ==
    ASSUME NEW count \in Counts, NEW n \in 0..count, RcInv,
           ReadStaticFault(count, n) \/ ReadModuleFault(count, n)
    PROVE  RcInv'
<1>0. count \in Nat /\ n \in Nat
    BY RcAssumption
<1>1. Appending /\ eof' = eof /\ faults' \in 0..MaxFaults
    BY RcAssumption DEF ReadStaticFault, ReadModuleFault, Deliver, RcInv, TypeOK
<1>2. StaticPart(count) \in Nat /\ ModulePart(count) \in Nat
    BY <1>1, PartsFact
<1>3. CASE ReadStaticFault(count, n)
  <2>1. Deliver(count, n, 0) /\ n <= StaticPart(count)
      BY <1>0, <1>2, <1>3 DEF ReadStaticFault
  <2> QED
      BY <1>0, <1>1, <1>2, <2>1, DeliverKeeps
<1>4. CASE ReadModuleFault(count, n)
  <2>1. Deliver(count, StaticPart(count), n) /\ n <= ModulePart(count)
      BY <1>0, <1>2, <1>4 DEF ReadModuleFault
  <2> QED
      BY <1>0, <1>1, <1>2, <2>1, DeliverKeeps
<1> QED
    BY <1>3, <1>4

-----------------------------------------------------------------------------
\* Every step keeps the invariant.
LEMMA RcStep == RcInv /\ [Next]_vars => RcInv'
<1> SUFFICES ASSUME RcInv, [Next]_vars PROVE RcInv'
    OBVIOUS
<1>1. CASE UNCHANGED vars
    BY <1>1 DEF vars, loadVars, RcInv, TypeOK, OrderInv, BufferInv, HookInv, EndInv, Total,
                Exact
<1>2. ASSUME NEW count \in Counts, ReadNext(count) PROVE RcInv'
    BY <1>2, OrigKeeps, EndKeeps, AppendKeeps, FaultKeeps DEF ReadNext
<1> QED
    BY <1>1, <1>2, LoadKeeps DEF Next

(* The invariant holds in every reachable state.                           *)
THEOREM RcCorrect == Spec => []RcInv
BY RcInit, RcStep, PTL DEF Spec

(* read_proxy() and read_iter_proxy() hand pid 1 init.rc, KernelSU's own   *)
(* script and the modules' script in order, each byte once and none from   *)
(* the released buffer, however the reads are cut and wherever they fault. *)
THEOREM StreamCorrect == Spec => []StreamExact
<1>1. RcInv => StreamExact
    BY RcAssumption DEF RcInv, TypeOK, OrderInv, Exact, StreamExact, Total
<1> QED
    BY <1>1, RcCorrect, PTL

(* A read that does not fault returns 0 only at the end of the stream.     *)
THEOREM EofAtEndCorrect == Spec => []EofAtEnd
<1>1. RcInv => EofAtEnd
    BY DEF RcInv, TypeOK, EndInv, EofAtEnd
<1> QED
    BY <1>1, RcCorrect, PTL

(* What ksu_sys_fstat() reported is the length of the stream.              *)
THEOREM FstatCorrect == Spec => []FstatAgrees
<1>1. RcInv => FstatAgrees
    BY DEF RcInv, TypeOK, EndInv, FstatAgrees
<1> QED
    BY <1>1, RcCorrect, PTL

(* No read returns more than the size of the buffer it was given.          *)
THEOREM BufferCorrect == Spec => []WithinBuffer
<1>1. RcInv => WithinBuffer
    BY DEF RcInv, EndInv, WithinBuffer
<1> QED
    BY <1>1, RcCorrect, PTL

(* pid 1 sees one file of the announced length, whatever the sizes of the  *)
(* scripts, the buffers and the faults.                                    *)
THEOREM InjectionCorrect == Spec => []InjectionExact
<1>1. StreamExact /\ EofAtEnd /\ FstatAgrees /\ WithinBuffer => InjectionExact
    BY DEF InjectionExact
<1> QED
    BY <1>1, StreamCorrect, EofAtEndCorrect, FstatCorrect, BufferCorrect, PTL

(***************************************************************************)
(* The module directories.  A command leaves in modules.rc what the next   *)
(* boot will make of the directories: of a staged update under the marks   *)
(* of the module it replaces, of an installed one under its own.  During   *)
(* post-fs-data that foresight (Foreseen) stays the same, step by step,    *)
(* while the directories change under it.                                  *)
(***************************************************************************)
Marks == {"disable", "remove", "update"}
DirType == [exists : BOOLEAN, rc : Nat, marks : SUBSET Marks]
CurType == [id : Ids \cup {"none"}, marks : SUBSET Marks]
DirOk(d) == d \in DirType /\ (d.exists \/ d = NoDir)

Replacing == {"replace", "rename"}
Working == Replacing \cup {"extract", "prop", "updatemark", "remark", "delete"}
Booting == Replacing \cup {"updates", "remark", "prune", "delete", "rcboot", "load"}

ModulesType ==
    /\ MODULE_DIR \in [Ids -> DirType] /\ MODULE_UPDATE_DIR \in [Ids -> DirType]
    /\ \A m \in Ids : DirOk(MODULE_DIR[m]) /\ DirOk(MODULE_UPDATE_DIR[m])
    /\ stage \in Working \cup Booting \cup Blocking \cup {"off", "on", "rc"}
    /\ cur \in CurType /\ (stage \in Working => cur.id \in Ids)
    /\ used \in [commands : Nat, crashes : Nat, errors : Nat] /\ clean \in BOOLEAN /\ torn \in BOOLEAN

\* What regenerate_preinit_rc() collects of a module, u being its directory in
\* modules_update/ and d the one in modules/.
Take(d, marks) == IF (d.marks \cup marks) \cap Blocking = {} THEN d.rc ELSE 0
Collected(u, d) == IF u.exists THEN Take(u, d.marks) ELSE Take(d, {})

StageInv ==
    /\ stage \in Working \cup Blocking => torn
    /\ ~torn => modules_rc = [m \in Ids |-> Collected(MODULE_UPDATE_DIR[m], MODULE_DIR[m])]
    /\ stage = "extract" => MODULE_UPDATE_DIR[cur.id].exists
    /\ stage = "updatemark" => MODULE_DIR[cur.id].exists
    /\ stage = "updates" => todo \subseteq Staged
    /\ stage \in Replacing => todo \subseteq Staged \ {cur.id} /\ MODULE_UPDATE_DIR[cur.id].exists
    /\ stage = "remark" => todo \subseteq Staged /\ MODULE_DIR[cur.id].exists
    /\ stage = "remark" => ~MODULE_UPDATE_DIR[cur.id].exists
    /\ stage \in Blocking => todo \subseteq Installed
    /\ stage \in {"prune", "delete"} => todo \subseteq Ids

\* Who keeps a module off that the user disabled: its mark, the marks that
\* were read of it, or its removal that this boot has ahead.
KeptOff(m) ==
    IF stage \in Replacing \cup {"remark"} /\ m = cur.id THEN cur.marks \cap Blocking # {}
    ELSE \/ "disable" \in MODULE_DIR[m].marks
         \/ stage = "delete" /\ m = cur.id
         \/ /\ "remove" \in MODULE_DIR[m].marks
            /\ \/ stage \in Replacing \cup {"off", "updates", "remark"}
               \/ stage \in {"disable", "prune", "delete"} /\ m \in todo

OffInv == off \subseteq Ids /\ \A m \in off \ cut : KeptOff(m)

\* What the rest of post-fs-data makes of a module.
Foreseen(m) ==
    IF stage \in Replacing /\ m = cur.id THEN Take(MODULE_UPDATE_DIR[m], cur.marks)
    ELSE IF stage = "remark" /\ m = cur.id THEN Take(MODULE_DIR[m], cur.marks)
    ELSE IF stage = "delete" /\ m = cur.id THEN 0
    ELSE Collected(MODULE_UPDATE_DIR[m], MODULE_DIR[m])

ForesightInv ==
    clean /\ stage \in Booting =>
        /\ injected = [m \in Ids |-> Foreseen(m)]
        /\ \A m \in Ids : MODULE_UPDATE_DIR[m].exists =>
              \/ stage \in Replacing \cup {"updates", "remark"} /\ m \in todo
              \/ stage \in Replacing /\ m = cur.id

ModulesInv == ModulesType /\ StageInv /\ OffInv /\ ForesightInv

-----------------------------------------------------------------------------
LEMMA DirFacts ==
    /\ NoDir \in DirType /\ NewDir \in DirType /\ DirOk(NoDir) /\ DirOk(NewDir)
    /\ NoDir.exists = FALSE /\ NoDir.rc = 0 /\ NoDir.marks = {}
    /\ NewDir.exists = TRUE /\ NewDir.rc = 0 /\ NewDir.marks = {}
BY DEF DirOk, DirType, NoDir, NewDir, Marks

LEMMA CurFacts ==
    /\ NoCur \in CurType
    /\ \A m \in Ids : LET c == [NoCur EXCEPT !.id = m] IN c \in CurType /\ c.id = m /\ c.marks = {}
BY DEF CurType, NoCur, Marks

\* regenerate_preinit_rc() reads both directories of a module, or the only one.
LEMMA CollectsOne ==
    ASSUME NEW u, NEW d, DirOk(u), DirOk(d)
    PROVE  LET found == {e \in {u, d} : e.exists}
           IN  (IF found = {} \/ \E e \in found : e.marks \cap Blocking # {} THEN 0
                ELSE IF u.exists THEN u.rc ELSE d.rc) = Collected(u, d)
<1> DEFINE found == {e \in {u, d} : e.exists}
           Blocks(e) == e.marks \cap Blocking # {}
<1>1. ~d.exists => d.rc = 0 /\ d.marks = {}
    BY DirFacts DEF DirOk
<1>2. found = {} <=> ~u.exists /\ ~d.exists
    OBVIOUS
<1>3. (\E e \in found : Blocks(e)) <=> (u.exists /\ Blocks(u)) \/ (d.exists /\ Blocks(d))
    <2> HIDE DEF Blocks
    <2> QED
        OBVIOUS
<1>4. Take(u, d.marks) = IF Blocks(u) \/ Blocks(d) THEN 0 ELSE u.rc
    BY DEF Take
<1>5. Take(d, {}) = IF Blocks(d) THEN 0 ELSE d.rc
    BY DEF Take
<1>6. ~d.exists => ~Blocks(d)
    BY <1>1
<1> HIDE DEF Blocks, found
<1>7. (IF found = {} \/ \E e \in found : Blocks(e) THEN 0
       ELSE IF u.exists THEN u.rc ELSE d.rc) = Collected(u, d)
    BY <1>1, <1>2, <1>3, <1>4, <1>5, <1>6 DEF Collected
<1> QED
    BY <1>7 DEF Blocks, found

LEMMA CollectIs ==
    ASSUME ModulesType
    PROVE  CollectRc = [m \in Ids |-> Collected(MODULE_UPDATE_DIR[m], MODULE_DIR[m])]
BY CollectsOne DEF CollectRc, ModulesType

LEMMA ModulesStart == ModulesInit => ModulesInv
<1> SUFFICES ASSUME ModulesInit PROVE ModulesInv
    OBVIOUS
<1> USE DEF ModulesInit
<1>1. ModulesType
    BY DirFacts, CurFacts DEF ModulesType, Working, Replacing, Booting, Blocking, Marks
<1>2. StageInv
    <2>1. \A m \in Ids : Collected(MODULE_UPDATE_DIR[m], MODULE_DIR[m]) = 0
        BY DirFacts DEF Collected, Take
    <2> QED
        BY <2>1 DEF StageInv, Working, Replacing, Blocking
<1>3. OffInv /\ ForesightInv
    BY DEF OffInv, ForesightInv, Booting, Replacing
<1> QED
    BY <1>1, <1>2, <1>3 DEF ModulesInv

LEMMA ModulesStill ==
    ASSUME ModulesInv, UNCHANGED moduleVars
    PROVE  ModulesInv'
BY DEF ModulesInv, ModulesType, StageInv, OffInv, KeptOff, ForesightInv, Foreseen, Installed, Staged,
       moduleVars, dirVars, histVars

\* Where nothing has happened to the directories.
LEMMA RegenerateKeeps ==
    ASSUME ModulesInv, RegenerateCommand \/ RegenerateBoot
    PROVE  ModulesInv'
<1> USE DEF dirVars, histVars, RegenerateCommand, RegenerateBoot, regenerate_preinit_rc, ModulesInv
<1>1. ModulesType'
    BY DEF ModulesType, Working, Replacing, Booting, Blocking
<1>2. StageInv'
    BY CollectIs DEF StageInv, Working, Replacing, Booting, Blocking
<1>3. OffInv'
    BY DEF OffInv, KeptOff, Replacing
<1>4. ForesightInv'
    BY DEF ForesightInv, Foreseen, Booting, Replacing
<1> QED
    BY <1>1, <1>2, <1>3, <1>4

\* A command begins, or ends without modules.rc.
LEMMA CommandKeeps ==
    ASSUME ModulesInv, Reboot \/ InstallFails \/ \E mark \in Blocking : MarkAll(mark)
    PROVE  ModulesInv'
<1> USE DEF dirVars, histVars, Reboot, InstallFails, MarkAll, Command, ModulesInv
<1>1. ModulesType'
    <2>1. used' \in [commands : Nat, crashes : Nat, errors : Nat]
        BY DEF ModulesType
    <2>2. cur' \in CurType /\ UNCHANGED dirVars /\ UNCHANGED clean
        BY CurFacts DEF ModulesType
    <2>3. torn' \in BOOLEAN /\ stage' \in Blocking \cup {"off", "on"}
        BY DEF ModulesType
    <2> QED
        BY <2>1, <2>2, <2>3 DEF ModulesType, Working, Replacing, Blocking
<1>2. StageInv'
    BY DEF StageInv, Working, Replacing, Booting, Blocking, Installed, Staged
<1>3. OffInv'
    BY DEF OffInv, KeptOff, Replacing, Blocking
<1>4. ForesightInv'
    BY DEF ForesightInv, Foreseen, Booting, Replacing, Blocking
<1> QED
    BY <1>1, <1>2, <1>3, <1>4

LEMMA BootKeeps ==
    ASSUME ModulesInv, Boot \/ BootSafe
    PROVE  ModulesInv'
<1> USE DEF dirVars, histVars, Boot, BootSafe, ModulesInv
<1>1. ModulesType'
    BY DEF ModulesType, Working, Replacing, Booting, Blocking
<1>2. StageInv'
    BY DEF StageInv, Working, Replacing, Booting, Blocking, Installed, Staged
<1>3. OffInv'
    <2>1. \A m \in off : "remove" \in MODULE_DIR[m].marks => m \in Installed
        BY DirFacts DEF ModulesType, OffInv, DirOk, Installed
    <2> QED
        BY <2>1 DEF OffInv, KeptOff, Replacing
<1>4. ForesightInv'
    BY DEF ForesightInv, Foreseen, Booting, Replacing, StageInv, Staged, ModulesType
<1> QED
    BY <1>1, <1>2, <1>3, <1>4

LEMMA PhaseKeeps ==
    ASSUME ModulesInv, UpdatesDone \/ PruneNext \/ PruneDone \/ LoadActive
    PROVE  ModulesInv'
<1> USE DEF dirVars, histVars, UpdatesDone, PruneNext, PruneDone, LoadActive, ModulesInv
<1>1. ModulesType'
    <2>1. ASSUME PruneNext PROVE cur' \in CurType /\ (stage' \in Working => cur'.id \in Ids)
        <3> PICK m \in todo : /\ todo' = todo \ {m}
                              /\ IF "remove" \in MODULE_DIR[m].marks
                                 THEN stage' = "delete" /\ cur' = [NoCur EXCEPT !.id = m] /\ torn' = TRUE
                                 ELSE UNCHANGED <<stage, cur, torn>>
            BY <2>1
        <3>1. m \in Ids
            BY <2>1 DEF StageInv
        <3> QED
            <4>1. CASE "remove" \in MODULE_DIR[m].marks
                <5>1. cur' = [NoCur EXCEPT !.id = m]
                    BY <4>1
                <5>2. cur' \in CurType /\ cur'.id = m
                    BY <3>1, <5>1, CurFacts
                <5> QED
                    BY <3>1, <5>2
            <4>2. CASE "remove" \notin MODULE_DIR[m].marks
                BY <4>2 DEF ModulesType
            <4> QED
                BY <4>1, <4>2
    <2> QED
        BY <2>1, CurFacts DEF ModulesType, Working, Replacing, Booting, Blocking
<1>2. StageInv'
    BY DEF StageInv, Working, Replacing, Booting, Blocking, Installed, Staged
<1>3. OffInv'
    <2>1. \A m \in off : "remove" \in MODULE_DIR[m].marks => m \in Installed
        BY DirFacts DEF ModulesType, OffInv, DirOk, Installed
    <2> QED
        BY <2>1 DEF OffInv, KeptOff, Replacing, NoCur
<1>4. ForesightInv'
    <2>1. CASE UpdatesDone
        BY <2>1 DEF ForesightInv, Foreseen, Booting, Replacing
    <2>2. CASE PruneNext
        <3> PICK m \in todo : /\ todo' = todo \ {m}
                              /\ IF "remove" \in MODULE_DIR[m].marks
                                 THEN stage' = "delete" /\ cur' = [NoCur EXCEPT !.id = m] /\ torn' = TRUE
                                 ELSE UNCHANGED <<stage, cur, torn>>
            BY <2>2
        <3> SUFFICES ASSUME clean
                     PROVE  ForesightInv'
            BY <2>2 DEF ForesightInv
        <3>1. /\ injected = [n \in Ids |-> Collected(MODULE_UPDATE_DIR[n], MODULE_DIR[n])]
              /\ \A n \in Ids : ~MODULE_UPDATE_DIR[n].exists
            BY <2>2 DEF ForesightInv, Foreseen, Booting, Replacing
        <3>2. CASE "remove" \in MODULE_DIR[m].marks
            <4>1. m \in Ids /\ cur'.id = m /\ stage' = "delete"
                BY <2>2, <3>2, CurFacts DEF StageInv
            <4>2. Collected(MODULE_UPDATE_DIR[m], MODULE_DIR[m]) = 0
                BY <3>1, <3>2, <4>1 DEF Collected, Take, Blocking
            <4> QED
                BY <2>2, <3>1, <4>1, <4>2 DEF ForesightInv, Foreseen, Booting, Replacing
        <3>3. CASE "remove" \notin MODULE_DIR[m].marks
            BY <2>2, <3>1, <3>3 DEF ForesightInv, Foreseen, Booting, Replacing
        <3> QED
            BY <3>2, <3>3
    <2>3. CASE PruneDone \/ LoadActive
        BY <2>3 DEF ForesightInv, Foreseen, Booting, Replacing
    <2> QED
        BY <2>1, <2>2, <2>3
<1> QED
    BY <1>1, <1>2, <1>3, <1>4

\* A file operation or the power fails: what is worked on counts as cut short.
LEMMA FailureKeeps ==
    ASSUME ModulesInv, Error \/ PowerFails
    PROVE  ModulesInv'
<1> USE DEF dirVars, histVars, ModulesInv
<1>0. /\ UNCHANGED <<dirVars, modules_rc, torn, injected, off>>
      /\ cur' = NoCur /\ cut \subseteq cut'
      /\ used' \in [commands : Nat, crashes : Nat, errors : Nat]
    BY DEF Error, PowerFails, ModulesType
<1>1. ModulesType'
    <2>1. stage' \in {"off", "prune", "updates", "on", "load"} /\ clean' \in BOOLEAN
        BY DEF Error, PowerFails, ModulesType
    <2> QED
        BY <1>0, <2>1, CurFacts DEF ModulesType, Working, Replacing, Booting, Blocking
<1>2. StageInv'
    BY <1>0 DEF StageInv, Error, PowerFails, Working, Replacing, Booting, Blocking, Installed, Staged
<1>3. OffInv'
    <2>1. \A m \in off : "remove" \in MODULE_DIR[m].marks => m \in Installed
        BY DirFacts DEF ModulesType, OffInv, DirOk, Installed
    <2>2. CASE Error
        BY <1>0, <2>1, <2>2 DEF OffInv, KeptOff, Error, Replacing
    <2>3. CASE PowerFails
        BY <1>0, <2>1, <2>3 DEF OffInv, KeptOff, PowerFails, Replacing
    <2> QED
        BY <2>2, <2>3
<1>4. ForesightInv'
    BY DEF ForesightInv, Error, PowerFails, Booting, Replacing
<1> QED
    BY <1>1, <1>2, <1>3, <1>4

\* handle_updated_modules() turns to a module: its marks are known.
LEMMA UpdateNextKeeps ==
    ASSUME ModulesInv, UpdateNext
    PROVE  ModulesInv'
<1> USE DEF dirVars, histVars, ModulesInv
<1>0. UNCHANGED <<dirVars, modules_rc, active, used, histVars>> /\ stage = "updates" /\ torn' = TRUE
    BY DEF UpdateNext
<1> PICK m \in todo :
          /\ cur' = [id |-> m, marks |-> MODULE_DIR[m].marks] /\ todo' = todo \ {m}
          /\ stage' = IF MODULE_DIR[m].exists THEN "replace" ELSE "rename"
    BY DEF UpdateNext
<1>1. m \in Ids /\ MODULE_UPDATE_DIR[m].exists /\ todo \subseteq Staged
    BY <1>0 DEF StageInv, Staged
<1>2. cur'.id = m /\ cur'.marks = MODULE_DIR[m].marks /\ stage' \in Replacing
    BY DEF Replacing
<1>3. MODULE_DIR[m] \in DirType /\ cur' \in CurType
    BY <1>1 DEF ModulesType, DirType, CurType
<1>4. ModulesType'
    BY <1>0, <1>1, <1>2, <1>3 DEF ModulesType, Working, Replacing
<1>5. StageInv'
    BY <1>0, <1>1, <1>2 DEF StageInv, Working, Replacing, Blocking, Staged
<1>6. OffInv'
    <2> SUFFICES ASSUME NEW n \in off \ cut
                 PROVE  KeptOff(n)'
        BY <1>0 DEF OffInv
    <2>1. "disable" \in MODULE_DIR[n].marks \/ "remove" \in MODULE_DIR[n].marks
        BY <1>0 DEF OffInv, KeptOff, Replacing
    <2>2. CASE n = m
        <3>1. cur'.marks \cap Blocking # {}
            BY <1>2, <2>1, <2>2 DEF Blocking
        <3> QED
            BY <1>2, <2>2, <3>1 DEF KeptOff
    <2>3. CASE n # m
        BY <1>0, <1>2, <2>1, <2>3 DEF KeptOff
    <2> QED
        BY <2>2, <2>3
<1>7. ForesightInv'
    <2> SUFFICES ASSUME clean
                 PROVE  ForesightInv'
        BY <1>0 DEF ForesightInv
    <2>1. /\ injected = [n \in Ids |-> Collected(MODULE_UPDATE_DIR[n], MODULE_DIR[n])]
          /\ \A n \in Ids : MODULE_UPDATE_DIR[n].exists => n \in todo
        BY <1>0 DEF ForesightInv, Foreseen, Booting, Replacing
    <2>2. \A n \in Ids : Foreseen(n)' = Collected(MODULE_UPDATE_DIR[n], MODULE_DIR[n])
        BY <1>0, <1>1, <1>2 DEF Foreseen, Collected, Replacing
    <2> QED
        BY <1>0, <1>2, <2>1, <2>2 DEF ForesightInv
<1> QED
    BY <1>4, <1>5, <1>6, <1>7

\* A mark is set or taken away by a command.
LEMMA SetMarkKeeps ==
    ASSUME ModulesInv, NEW m \in Ids, NEW mark \in {"disable", "remove"}, NEW set \in BOOLEAN,
           SetMark(m, mark, set)
    PROVE  ModulesInv'
<1> USE DEF dirVars, histVars, ModulesInv
<1>0. /\ stage = "on" /\ stage' = "rc" /\ torn' = TRUE /\ MODULE_DIR[m].exists
      /\ UNCHANGED <<MODULE_UPDATE_DIR, modules_rc, cur, todo, active, injected, clean>>
      /\ used' \in [commands : Nat, crashes : Nat, errors : Nat]
      /\ off' = IF mark # "disable" THEN off ELSE IF set THEN off \cup {m} ELSE off \ {m}
      /\ cut' = IF mark # "disable" THEN cut ELSE cut \ {m}
    BY DEF SetMark, Command, ModulesType
<1> DEFINE marks == IF set THEN MODULE_DIR[m].marks \cup {mark} ELSE MODULE_DIR[m].marks \ {mark}
           d == [MODULE_DIR[m] EXCEPT !.marks = marks]
<1>1. MODULE_DIR' = [MODULE_DIR EXCEPT ![m] = d]
    BY DEF SetMark
<1>2. d \in DirType /\ d.exists /\ d.marks = marks
    BY <1>0 DEF ModulesType, DirType, Marks
<1> HIDE DEF d
<1>3. /\ MODULE_DIR' \in [Ids -> DirType] /\ MODULE_DIR'[m] = d
      /\ \A n \in Ids : n # m => MODULE_DIR'[n] = MODULE_DIR[n]
    BY <1>1, <1>2 DEF ModulesType
<1>4. \A n \in Ids : DirOk(MODULE_DIR'[n])
    BY <1>2, <1>3 DEF ModulesType, DirOk
<1>5. ModulesType'
    BY <1>0, <1>3, <1>4 DEF ModulesType, Working, Replacing
<1>6. StageInv'
    BY <1>0 DEF StageInv, Working, Replacing, Blocking
<1>7. OffInv'
    <2>1. \A n \in off \ cut : "disable" \in MODULE_DIR[n].marks
        BY <1>0 DEF OffInv, KeptOff, Replacing
    <2>2. off' \subseteq Ids /\ \A n \in off' \ cut' : n # m => n \in off \ cut
        BY <1>0 DEF OffInv
    <2>3. m \in off' \ cut' => "disable" \in MODULE_DIR'[m].marks
        BY <1>0, <1>2, <1>3, <2>1
    <2> QED
        BY <1>0, <1>3, <2>1, <2>2, <2>3 DEF OffInv, KeptOff, Replacing
<1>8. ForesightInv'
    BY <1>0 DEF ForesightInv, Booting, Replacing
<1> QED
    BY <1>5, <1>6, <1>7, <1>8

\* A step of an install, by which no module is turned on or off.
LEMMA InstallStep ==
    ASSUME ModulesInv, stage' \in {"extract", "prop", "updatemark", "rc"}, torn', cur' \in CurType,
           stage \in {"on", "extract", "prop", "updatemark"},
           stage' \in Working => cur'.id \in Ids, UNCHANGED <<todo, clean, off, cut>>,
           used' \in [commands : Nat, crashes : Nat, errors : Nat],
           MODULE_DIR' \in [Ids -> DirType], MODULE_UPDATE_DIR' \in [Ids -> DirType],
           \A n \in Ids : DirOk(MODULE_DIR'[n]) /\ DirOk(MODULE_UPDATE_DIR'[n]),
           \A n \in Ids : MODULE_DIR[n].marks \subseteq MODULE_DIR'[n].marks,
           torn' \in BOOLEAN, stage' = "extract" => MODULE_UPDATE_DIR'[cur'.id].exists,
           stage' = "updatemark" => MODULE_DIR'[cur'.id].exists
    PROVE  ModulesInv'
<1> USE DEF ModulesInv
<1>1. ModulesType'
    BY DEF ModulesType, Working, Replacing
<1>2. StageInv'
    BY DEF StageInv, Working, Replacing, Blocking
<1>3. OffInv'
    BY DEF OffInv, KeptOff, Replacing
<1>4. ForesightInv'
    BY DEF ForesightInv, Booting, Replacing
<1> QED
    BY <1>1, <1>2, <1>3, <1>4

LEMMA InstallCleanKeeps ==
    ASSUME ModulesInv, NEW m \in Ids, InstallClean(m)
    PROVE  ModulesInv'
<1>1. /\ stage = "on" /\ stage' = "extract" /\ cur' = [NoCur EXCEPT !.id = m] /\ torn' = TRUE
      /\ MODULE_UPDATE_DIR' = [MODULE_UPDATE_DIR EXCEPT ![m] = NewDir]
      /\ UNCHANGED <<MODULE_DIR, todo, clean, off, cut>>
      /\ used' \in [commands : Nat, crashes : Nat, errors : Nat]
    BY DEF InstallClean, Command, histVars, ModulesInv, ModulesType
<1>2. cur' \in CurType /\ cur'.id \in Ids /\ cur'.id = m
    BY <1>1, CurFacts
<1>3. /\ MODULE_UPDATE_DIR'[m].exists
      /\ MODULE_UPDATE_DIR' \in [Ids -> DirType]
      /\ \A n \in Ids : DirOk(MODULE_DIR'[n]) /\ DirOk(MODULE_UPDATE_DIR'[n])
    BY <1>1, DirFacts DEF ModulesInv, ModulesType
<1> QED
    BY <1>1, <1>2, <1>3, InstallStep DEF ModulesInv, ModulesType

LEMMA InstallExtractKeeps ==
    ASSUME ModulesInv, InstallExtract
    PROVE  ModulesInv'
<1>1. /\ stage = "extract" /\ stage' = "prop"
      /\ UNCHANGED <<MODULE_DIR, cur, used, torn, todo, clean, off, cut>>
    BY DEF InstallExtract, histVars
<1>2. /\ torn /\ cur.id \in Ids /\ cur \in CurType /\ used \in [commands : Nat, crashes : Nat, errors : Nat]
      /\ torn \in BOOLEAN
    BY <1>1 DEF ModulesInv, ModulesType, StageInv, Working
<1> PICK marks \in {{}, {"disable"}} :
          MODULE_UPDATE_DIR' = [MODULE_UPDATE_DIR EXCEPT ![cur.id].rc = used.commands, ![cur.id].marks = marks]
    BY DEF InstallExtract
<1> DEFINE d == [[MODULE_UPDATE_DIR[cur.id] EXCEPT !.rc = used.commands] EXCEPT !.marks = marks]
<1>3. MODULE_UPDATE_DIR' = [MODULE_UPDATE_DIR EXCEPT ![cur.id] = d]
    BY <1>2 DEF ModulesInv, ModulesType
<1>4. d \in DirType /\ d.exists = MODULE_UPDATE_DIR[cur.id].exists
    BY <1>2 DEF ModulesInv, ModulesType, DirType, Marks
<1> HIDE DEF d
<1>5. /\ MODULE_UPDATE_DIR' \in [Ids -> DirType]
      /\ \A n \in Ids : DirOk(MODULE_DIR'[n]) /\ DirOk(MODULE_UPDATE_DIR'[n])
    <2>1. MODULE_UPDATE_DIR[cur.id].exists
        BY <1>1 DEF ModulesInv, StageInv
    <2> QED
        BY <1>1, <1>2, <1>3, <1>4, <2>1 DEF ModulesInv, ModulesType, DirOk
<1> QED
    BY <1>1, <1>2, <1>5, InstallStep DEF ModulesInv, ModulesType

LEMMA InstallPropKeeps ==
    ASSUME ModulesInv, InstallProp
    PROVE  ModulesInv'
<1> DEFINE d == [MODULE_DIR[cur.id] EXCEPT !.exists = TRUE]
<1>1. /\ stage = "prop" /\ stage' = "updatemark"
      /\ UNCHANGED <<MODULE_UPDATE_DIR, cur, used, torn, todo, clean, off, cut>>
      /\ MODULE_DIR' = [MODULE_DIR EXCEPT ![cur.id] = d]
    BY DEF InstallProp, histVars
<1>2. /\ torn /\ cur.id \in Ids /\ cur \in CurType /\ used \in [commands : Nat, crashes : Nat, errors : Nat]
      /\ torn \in BOOLEAN
    BY <1>1 DEF ModulesInv, ModulesType, StageInv, Working
<1>3. d \in DirType /\ d.exists /\ d.marks = MODULE_DIR[cur.id].marks
    BY <1>2 DEF ModulesInv, ModulesType, DirType
<1> HIDE DEF d
<1>4. /\ MODULE_DIR' \in [Ids -> DirType] /\ MODULE_DIR'[cur.id].exists
      /\ \A n \in Ids : DirOk(MODULE_DIR'[n]) /\ DirOk(MODULE_UPDATE_DIR'[n])
      /\ \A n \in Ids : MODULE_DIR[n].marks \subseteq MODULE_DIR'[n].marks
    BY <1>1, <1>2, <1>3 DEF ModulesInv, ModulesType, DirOk
<1> QED
    BY <1>1, <1>2, <1>4, InstallStep DEF ModulesInv, ModulesType

LEMMA InstallMarkKeeps ==
    ASSUME ModulesInv, InstallMark
    PROVE  ModulesInv'
<1> DEFINE d == [MODULE_DIR[cur.id] EXCEPT !.marks = @ \cup {"update"}]
<1>1. /\ stage = "updatemark" /\ stage' = "rc" /\ cur' = NoCur
      /\ UNCHANGED <<MODULE_UPDATE_DIR, used, torn, todo, clean, off, cut>>
      /\ MODULE_DIR' = [MODULE_DIR EXCEPT ![cur.id] = d]
    BY DEF InstallMark, histVars
<1>2. /\ torn /\ cur.id \in Ids /\ used \in [commands : Nat, crashes : Nat, errors : Nat]
      /\ torn \in BOOLEAN /\ MODULE_DIR[cur.id].exists
    BY <1>1 DEF ModulesInv, ModulesType, StageInv, Working
<1>3. d \in DirType /\ d.exists /\ MODULE_DIR[cur.id].marks \subseteq d.marks
    BY <1>2 DEF ModulesInv, ModulesType, DirType, Marks
<1> HIDE DEF d
<1>4. /\ MODULE_DIR' \in [Ids -> DirType]
      /\ \A n \in Ids : DirOk(MODULE_DIR'[n]) /\ DirOk(MODULE_UPDATE_DIR'[n])
      /\ \A n \in Ids : MODULE_DIR[n].marks \subseteq MODULE_DIR'[n].marks
    BY <1>1, <1>2, <1>3 DEF ModulesInv, ModulesType, DirOk
<1> QED
    BY <1>1, <1>2, <1>4, CurFacts, InstallStep DEF ModulesInv, ModulesType, Working, Replacing

\* One module more has the mark; the last one goes on to modules.rc.
LEMMA MarkAllKeeps ==
    ASSUME ModulesInv, mark_all_modules
    PROVE  ModulesInv'
<1> USE DEF ModulesInv
<1>1. /\ stage \in Blocking /\ torn
      /\ UNCHANGED <<MODULE_UPDATE_DIR, modules_rc, cur, active, used, torn, injected, clean, cut>>
    BY DEF mark_all_modules, StageInv
<1>2. CASE todo = {}
    <2>1. stage' = "rc" /\ UNCHANGED <<MODULE_DIR, todo, off>>
        BY <1>2 DEF mark_all_modules
    <2>2. ModulesType'
        BY <1>1, <2>1 DEF ModulesType, Working, Replacing
    <2>3. StageInv'
        BY <1>1, <2>1 DEF StageInv, Working, Replacing, Blocking
    <2>4. OffInv' /\ ForesightInv'
        BY <1>1, <1>2, <2>1 DEF OffInv, KeptOff, ForesightInv, Booting, Replacing, Blocking
    <2> QED
        BY <2>2, <2>3, <2>4
<1>3. CASE todo # {}
    <2> PICK m \in todo :
               /\ MODULE_DIR' = [MODULE_DIR EXCEPT ![m].marks = @ \cup {stage}]
               /\ todo' = todo \ {m} /\ off' = IF stage = "disable" THEN off \cup {m} ELSE off
               /\ UNCHANGED stage
        BY <1>3 DEF mark_all_modules
    <2> DEFINE d == [MODULE_DIR[m] EXCEPT !.marks = @ \cup {stage}]
    <2>1. m \in Ids /\ MODULE_DIR[m].exists /\ todo \subseteq Installed
        BY <1>1 DEF StageInv, Installed
    <2>2. d \in DirType /\ d.exists /\ d.marks = MODULE_DIR[m].marks \cup {stage}
        BY <1>1, <2>1 DEF ModulesType, DirType, Marks, Blocking
    <2>3. MODULE_DIR' = [MODULE_DIR EXCEPT ![m] = d]
        OBVIOUS
    <2> HIDE DEF d
    <2>4. /\ MODULE_DIR' \in [Ids -> DirType] /\ MODULE_DIR'[m] = d
          /\ \A n \in Ids : n # m => MODULE_DIR'[n] = MODULE_DIR[n]
          /\ \A n \in Ids : DirOk(MODULE_DIR'[n])
          /\ \A n \in Ids : MODULE_DIR'[n].exists = MODULE_DIR[n].exists
        <3>1. /\ MODULE_DIR' \in [Ids -> DirType] /\ MODULE_DIR'[m] = d
              /\ \A n \in Ids : n # m => MODULE_DIR'[n] = MODULE_DIR[n]
            BY <2>1, <2>2, <2>3 DEF ModulesType
        <3>2. DirOk(d) /\ \A n \in Ids : DirOk(MODULE_DIR[n])
            BY <2>2 DEF DirOk, ModulesType
        <3> QED
            BY <2>1, <2>2, <3>1, <3>2
    <2>5. ModulesType'
        BY <1>1, <2>4 DEF ModulesType
    <2>6. StageInv'
        BY <1>1, <2>1, <2>4 DEF StageInv, Working, Replacing, Blocking, Installed
    <2>7. OffInv'
        <3> SUFFICES ASSUME NEW n \in off' \ cut'
                     PROVE  KeptOff(n)'
            BY <2>1 DEF OffInv
        <3>1. CASE n = m
            BY <1>1, <2>1, <2>2, <2>4, <3>1 DEF OffInv, KeptOff, Blocking, Replacing
        <3>2. CASE n # m
            BY <1>1, <2>1, <2>4, <3>2 DEF OffInv, KeptOff, Blocking, Replacing
        <3> QED
            BY <3>1, <3>2
    <2>8. ForesightInv'
        BY <1>1 DEF ForesightInv, Booting, Replacing, Blocking
    <2> QED
        BY <2>5, <2>6, <2>7, <2>8
<1> QED
    BY <1>2, <1>3

\* remove_dir_all() of the directory of a module that counts as being removed
\* or replaced: one entry less, or the directory itself.
LEMMA RemoveEntryIs ==
    ASSUME ModulesInv, NEW next, RemoveEntry(next), stage \in {"replace", "delete"}
    PROVE  /\ cur.id \in Ids /\ MODULE_DIR' \in [Ids -> DirType]
           /\ \A n \in Ids : DirOk(MODULE_DIR'[n]) /\ (n # cur.id => MODULE_DIR'[n] = MODULE_DIR[n])
           /\ stage' = stage \/ (stage' = next /\ MODULE_DIR'[cur.id] = NoDir)
           /\ UNCHANGED <<MODULE_UPDATE_DIR, modules_rc, cur, todo, active, used, torn, injected, clean, cut>>
<1> DEFINE d == MODULE_DIR[cur.id]
<1>1. cur.id \in Ids /\ DirOk(d) /\ d \in DirType
    BY DEF ModulesInv, ModulesType, Working, Replacing
<1>2. UNCHANGED <<MODULE_UPDATE_DIR, modules_rc, cur, todo, active, used, torn, injected, clean, cut>>
    BY DEF RemoveEntry
<1>3. PICK e : /\ DirOk(e) /\ MODULE_DIR' = [MODULE_DIR EXCEPT ![cur.id] = e]
               /\ stage' = stage \/ (stage' = next /\ e = NoDir)
    <2>1. ASSUME NEW k \in d.marks, stage' = stage,
                 MODULE_DIR' = [MODULE_DIR EXCEPT ![cur.id].marks = @ \ {k}]
          PROVE  \E e : /\ DirOk(e) /\ MODULE_DIR' = [MODULE_DIR EXCEPT ![cur.id] = e]
                        /\ stage' = stage \/ (stage' = next /\ e = NoDir)
        <3> DEFINE e == [d EXCEPT !.marks = @ \ {k}]
        <3>1. d.exists
            BY <1>1, <2>1, DirFacts DEF DirOk
        <3>2. DirOk(e)
            BY <1>1, <3>1 DEF DirOk, DirType
        <3>3. MODULE_DIR' = [MODULE_DIR EXCEPT ![cur.id] = e]
            BY <2>1
        <3> QED
            BY <2>1, <3>2, <3>3
    <2>2. ASSUME d.rc # 0, stage' = stage, MODULE_DIR' = [MODULE_DIR EXCEPT ![cur.id].rc = 0]
          PROVE  \E e : /\ DirOk(e) /\ MODULE_DIR' = [MODULE_DIR EXCEPT ![cur.id] = e]
                        /\ stage' = stage \/ (stage' = next /\ e = NoDir)
        <3> DEFINE e == [d EXCEPT !.rc = 0]
        <3>1. d.exists
            BY <1>1, <2>2, DirFacts DEF DirOk
        <3>2. DirOk(e)
            BY <1>1, <3>1 DEF DirOk, DirType
        <3>3. MODULE_DIR' = [MODULE_DIR EXCEPT ![cur.id] = e]
            BY <2>2
        <3> QED
            BY <2>2, <3>2, <3>3
    <2>3. ASSUME MODULE_DIR' = [MODULE_DIR EXCEPT ![cur.id] = NoDir], stage' = next
          PROVE  \E e : /\ DirOk(e) /\ MODULE_DIR' = [MODULE_DIR EXCEPT ![cur.id] = e]
                        /\ stage' = stage \/ (stage' = next /\ e = NoDir)
        BY <2>3, DirFacts
    <2> QED
        BY <2>1, <2>2, <2>3 DEF RemoveEntry
<1>4. MODULE_DIR \in [Ids -> DirType] /\ \A n \in Ids : DirOk(MODULE_DIR[n])
    BY DEF ModulesInv, ModulesType
<1>5. e \in DirType
    BY <1>3 DEF DirOk
<1> QED
    BY <1>1, <1>2, <1>3, <1>4, <1>5

LEMMA UpdateRemoveKeeps ==
    ASSUME ModulesInv, UpdateRemove
    PROVE  ModulesInv'
<1> USE DEF ModulesInv
<1>1. stage = "replace" /\ RemoveEntry("rename") /\ UNCHANGED off
    BY DEF UpdateRemove
<1>2. /\ cur.id \in Ids /\ MODULE_DIR' \in [Ids -> DirType]
      /\ \A n \in Ids : DirOk(MODULE_DIR'[n]) /\ (n # cur.id => MODULE_DIR'[n] = MODULE_DIR[n])
      /\ stage' \in Replacing
      /\ UNCHANGED <<MODULE_UPDATE_DIR, modules_rc, cur, todo, active, used, torn, injected, clean, cut>>
    BY <1>1, RemoveEntryIs DEF Replacing
<1>3. ModulesType'
    BY <1>2 DEF ModulesType, Working, Replacing
<1>4. StageInv'
    BY <1>1, <1>2 DEF StageInv, Working, Replacing, Blocking, Staged
<1>5. OffInv'
    <2> SUFFICES ASSUME NEW n \in off \ cut
                 PROVE  KeptOff(n)'
        BY <1>1, <1>2 DEF OffInv
    <2>0. n \in Ids /\ KeptOff(n)
        BY DEF OffInv
    <2>1. CASE n = cur.id
        BY <1>1, <1>2, <2>0, <2>1 DEF KeptOff, Replacing
    <2>2. CASE n # cur.id
        BY <1>1, <1>2, <2>0, <2>2 DEF KeptOff, Replacing
    <2> QED
        BY <2>1, <2>2
<1>6. ForesightInv'
    <2>1. \A n \in Ids : Foreseen(n)' = Foreseen(n)
        BY <1>1, <1>2 DEF Foreseen, Replacing
    <2> QED
        BY <1>1, <1>2, <2>1 DEF ForesightInv, Replacing, Booting
<1> QED
    BY <1>3, <1>4, <1>5, <1>6

LEMMA PruneRemoveKeeps ==
    ASSUME ModulesInv, PruneRemove
    PROVE  ModulesInv'
<1> USE DEF ModulesInv
<1>1. /\ stage = "delete" /\ RemoveEntry("prune")
      /\ off' = IF stage' = "prune" THEN off \ {cur.id} ELSE off
    BY DEF PruneRemove
<1>2. /\ cur.id \in Ids /\ MODULE_DIR' \in [Ids -> DirType]
      /\ \A n \in Ids : DirOk(MODULE_DIR'[n]) /\ (n # cur.id => MODULE_DIR'[n] = MODULE_DIR[n])
      /\ stage' = "delete" \/ (stage' = "prune" /\ MODULE_DIR'[cur.id] = NoDir)
      /\ UNCHANGED <<MODULE_UPDATE_DIR, modules_rc, cur, todo, active, used, torn, injected, clean, cut>>
    BY <1>1, RemoveEntryIs
<1>3. ModulesType'
    BY <1>2 DEF ModulesType, Working, Booting, Replacing
<1>4. StageInv'
    BY <1>1, <1>2 DEF StageInv, Working, Replacing, Blocking
<1>5. OffInv'
    <2>1. off' \subseteq off /\ off \subseteq Ids
        BY <1>1 DEF OffInv
    <2> SUFFICES ASSUME NEW n \in off' \ cut'
                 PROVE  KeptOff(n)'
        BY <2>1 DEF OffInv
    <2>2. n \in Ids /\ n \in off \ cut /\ KeptOff(n)
        BY <1>2, <2>1 DEF OffInv
    <2>3. CASE n = cur.id
        BY <1>1, <1>2, <2>3 DEF KeptOff, Replacing
    <2>4. CASE n # cur.id
        BY <1>1, <1>2, <2>2, <2>4 DEF KeptOff, Replacing
    <2> QED
        BY <2>3, <2>4
<1>6. ForesightInv'
    <2> SUFFICES ASSUME clean
                 PROVE  ForesightInv'
        BY <1>2 DEF ForesightInv
    <2>1. injected = [n \in Ids |-> Foreseen(n)] /\ \A n \in Ids : ~MODULE_UPDATE_DIR[n].exists
        BY <1>1 DEF ForesightInv, Booting, Replacing
    <2>2. CASE stage' = "delete"
        <3>1. \A n \in Ids : Foreseen(n)' = Foreseen(n)
            BY <1>1, <1>2, <2>2 DEF Foreseen, Replacing
        <3> QED
            BY <1>2, <2>1, <3>1 DEF ForesightInv
    <2>3. CASE stage' = "prune" /\ MODULE_DIR'[cur.id] = NoDir
        <3>1. \A n \in Ids : n # cur.id => Foreseen(n)' = Foreseen(n)
            BY <1>1, <1>2, <2>3 DEF Foreseen, Replacing
        <3>2. Foreseen(cur.id) = 0
            BY <1>1 DEF Foreseen, Replacing
        <3>3. Foreseen(cur.id)' = 0
            BY <1>2, <2>1, <2>3 DEF Foreseen, Collected, Take, NoDir, Replacing
        <3>4. \A n \in Ids : Foreseen(n)' = Foreseen(n)
            BY <1>2, <3>1, <3>2, <3>3
        <3> QED
            BY <1>2, <2>1, <3>4 DEF ForesightInv
    <2> QED
        BY <1>2, <2>2, <2>3
<1> QED
    BY <1>3, <1>4, <1>5, <1>6

\* The new directory takes the place of the old one, which is gone.
LEMMA UpdateRenameKeeps ==
    ASSUME ModulesInv, UpdateRename
    PROVE  ModulesInv'
<1> USE DEF ModulesInv, histVars
<1>0. PICK m \in Ids : m = cur.id
    BY DEF UpdateRename, ModulesType, Working, Replacing
<1>a. PICK u : u = MODULE_UPDATE_DIR[m]
    OBVIOUS
<1>1. /\ stage = "rename" /\ stage' = "remark"
      /\ MODULE_DIR' = [MODULE_DIR EXCEPT ![m] = u]
      /\ MODULE_UPDATE_DIR' = [MODULE_UPDATE_DIR EXCEPT ![m] = NoDir]
      /\ UNCHANGED <<modules_rc, cur, todo, active, used, torn, injected, clean, off, cut>>
    BY <1>0, <1>a DEF UpdateRename
<1>2. m \in Ids /\ u \in DirType /\ DirOk(u) /\ u.exists
    BY <1>0, <1>a, <1>1 DEF ModulesType, StageInv, Working, Replacing
<1>3. /\ MODULE_DIR' \in [Ids -> DirType] /\ MODULE_UPDATE_DIR' \in [Ids -> DirType]
      /\ MODULE_DIR'[m] = u /\ MODULE_UPDATE_DIR'[m] = NoDir
      /\ \A n \in Ids : n # m => MODULE_DIR'[n] = MODULE_DIR[n] /\ MODULE_UPDATE_DIR'[n] = MODULE_UPDATE_DIR[n]
    BY <1>1, <1>2, DirFacts DEF ModulesType
<1>4. /\ cur' = cur /\ cur'.id = m /\ stage' = "remark" /\ todo' = todo /\ torn' = torn
      /\ injected' = injected /\ clean' = clean /\ off' = off /\ cut' = cut
    BY <1>0, <1>1
<1>5. ModulesType'
    <2>1. \A n \in Ids : DirOk(MODULE_DIR'[n]) /\ DirOk(MODULE_UPDATE_DIR'[n])
        BY <1>2, <1>3, DirFacts DEF ModulesType
    <2> QED
        BY <1>1, <1>2, <1>3, <1>4, <2>1 DEF ModulesType, Working, Replacing
<1>6. StageInv'
    <2>1. torn
        BY <1>1 DEF StageInv, Working, Replacing
    <2>2. todo \subseteq Staged' /\ ~MODULE_UPDATE_DIR'[m].exists
        BY <1>0, <1>1, <1>3, <1>4 DEF StageInv, Replacing, Staged, NoDir
    <2> QED
        BY <1>2, <1>3, <1>4, <2>1, <2>2 DEF StageInv, Working, Replacing, Blocking
<1>7. OffInv'
    <2> SUFFICES ASSUME NEW n \in off \ cut
                 PROVE  KeptOff(n)'
        BY <1>4 DEF OffInv
    <2>1. n \in Ids /\ KeptOff(n)
        BY DEF OffInv
    <2> QED
        BY <1>0, <1>1, <1>3, <1>4, <2>1 DEF KeptOff, Replacing
<1>8. ForesightInv'
    <2> SUFFICES ASSUME clean
                 PROVE  ForesightInv'
        BY <1>4 DEF ForesightInv
    <2>1. /\ injected = [n \in Ids |-> Foreseen(n)]
          /\ \A n \in Ids : MODULE_UPDATE_DIR[n].exists => n \in todo \/ n = m
        BY <1>0, <1>1 DEF ForesightInv, Booting, Replacing
    <2>2. Foreseen(m) = Take(u, cur.marks)
        BY <1>0, <1>a, <1>1 DEF Foreseen, Replacing
    <2>3. Foreseen(m)' = Take(u, cur.marks)
        BY <1>3, <1>4 DEF Foreseen, Replacing
    <2>4. \A n \in Ids : n # m => Foreseen(n)' = Foreseen(n)
        BY <1>0, <1>1, <1>3, <1>4 DEF Foreseen, Replacing
    <2>5. \A n \in Ids : Foreseen(n)' = Foreseen(n)
        BY <2>2, <2>3, <2>4
    <2>6. \A n \in Ids : MODULE_UPDATE_DIR'[n].exists => n \in todo'
        BY <1>3, <1>4, <2>1 DEF NoDir
    <2> QED
        BY <1>4, <2>1, <2>5, <2>6 DEF ForesightInv
<1> QED
    BY <1>5, <1>6, <1>7, <1>8

\* The marks that were read of the old directory are made on the new one.
LEMMA UpdateRemarkKeeps ==
    ASSUME ModulesInv, UpdateRemark
    PROVE  ModulesInv'
<1> USE DEF ModulesInv, histVars
<1>0. PICK m \in Ids : m = cur.id
    BY DEF UpdateRemark, ModulesType, Working, Replacing
<1> DEFINE carried == IF "remove" \in cur.marks THEN {"remove"} ELSE cur.marks \cap {"disable"}
           d == [MODULE_DIR[m] EXCEPT !.marks = @ \cup carried]
<1>1. /\ stage = "remark" /\ stage' = "updates" /\ cur' = NoCur
      /\ MODULE_DIR' = [MODULE_DIR EXCEPT ![m] = d]
      /\ UNCHANGED <<MODULE_UPDATE_DIR, modules_rc, todo, active, used, torn, injected, clean, off, cut>>
    BY <1>0 DEF UpdateRemark
<1>2. MODULE_DIR[m] \in DirType /\ MODULE_DIR[m].exists /\ ~MODULE_UPDATE_DIR[m].exists
    BY <1>0, <1>1 DEF ModulesType, StageInv, Working, Replacing
<1>3. d \in DirType /\ d.exists /\ d.marks = MODULE_DIR[m].marks \cup carried /\ d.rc = MODULE_DIR[m].rc
    BY <1>2 DEF DirType, Marks
<1> HIDE DEF d
<1>4. /\ MODULE_DIR' \in [Ids -> DirType] /\ MODULE_DIR'[m] = d
      /\ \A n \in Ids : n # m => MODULE_DIR'[n] = MODULE_DIR[n]
    BY <1>1, <1>2, <1>3 DEF ModulesType
<1>5. cur' \in CurType
    BY <1>1, CurFacts
<1>6. carried \cap Blocking = {} <=> cur.marks \cap Blocking = {}
    BY DEF Blocking
<1> HIDE DEF carried
<1>7. ModulesType'
    <2>1. \A n \in Ids : DirOk(MODULE_DIR'[n])
        BY <1>3, <1>4 DEF ModulesType, DirOk
    <2> QED
        BY <1>1, <1>4, <1>5, <2>1 DEF ModulesType, Working, Booting, Replacing
<1>8. StageInv'
    BY <1>1 DEF StageInv, Working, Replacing, Blocking, Staged
<1>9. OffInv'
    <2> SUFFICES ASSUME NEW n \in off \ cut
                 PROVE  KeptOff(n)'
        BY <1>1 DEF OffInv
    <2>1. n \in Ids /\ KeptOff(n)
        BY DEF OffInv
    <2>2. CASE n = m
        <3>1. carried \cap Blocking # {}
            BY <1>0, <1>1, <1>6, <2>1, <2>2 DEF KeptOff
        <3>2. "disable" \in MODULE_DIR'[n].marks \/ "remove" \in MODULE_DIR'[n].marks
            BY <1>3, <1>4, <2>2, <3>1 DEF Blocking
        <3> QED
            BY <1>1, <3>2 DEF KeptOff, Replacing
    <2>3. CASE n # m
        BY <1>0, <1>1, <1>4, <2>1, <2>3 DEF KeptOff, Replacing
    <2> QED
        BY <2>2, <2>3
<1>10. ForesightInv'
    <2> SUFFICES ASSUME clean
                 PROVE  ForesightInv'
        BY <1>1 DEF ForesightInv
    <2>1. /\ injected = [n \in Ids |-> Foreseen(n)]
          /\ \A n \in Ids : MODULE_UPDATE_DIR[n].exists => n \in todo
        BY <1>1 DEF ForesightInv, Booting, Replacing
    <2>2. Foreseen(m) = Take(MODULE_DIR[m], cur.marks)
        BY <1>0, <1>1 DEF Foreseen, Replacing
    <2>3. Foreseen(m)' = Take(d, {})
        BY <1>1, <1>2, <1>4 DEF Foreseen, Collected, Replacing
    <2>4. Take(d, {}) = Take(MODULE_DIR[m], cur.marks)
        <3>1. d.marks \cap Blocking = {} <=> (MODULE_DIR[m].marks \cup cur.marks) \cap Blocking = {}
            BY <1>3, <1>6
        <3> QED
            BY <1>3, <3>1 DEF Take
    <2>5. \A n \in Ids : n # m => Foreseen(n)' = Foreseen(n)
        BY <1>0, <1>1, <1>4 DEF Foreseen, Replacing
    <2>6. \A n \in Ids : Foreseen(n)' = Foreseen(n)
        BY <2>2, <2>3, <2>4, <2>5
    <2> QED
        BY <1>1, <2>1, <2>6 DEF ForesightInv
<1> QED
    BY <1>7, <1>8, <1>9, <1>10

\* Every step of the commands, of a boot and of a failure keeps the invariant.
LEMMA ModulesStep ==
    ASSUME ModulesInv, [ModulesNext]_moduleVars
    PROVE  ModulesInv'
<1>1. ASSUME NEW m \in Ids, \/ InstallClean(m) \/ enable_module(m) \/ disable_module(m)
                            \/ uninstall_module(m) \/ undo_uninstall_module(m)
      PROVE  ModulesInv'
    BY <1>1, InstallCleanKeeps, SetMarkKeeps
       DEF enable_module, disable_module, uninstall_module, undo_uninstall_module
<1>2. CASE InstallExtract \/ InstallProp \/ InstallMark
    BY <1>2, InstallExtractKeeps, InstallPropKeeps, InstallMarkKeeps
<1>3. CASE Reboot \/ InstallFails \/ \E mark \in Blocking : MarkAll(mark)
    BY <1>3, CommandKeeps
<1>4. CASE mark_all_modules
    BY <1>4, MarkAllKeeps
<1>5. CASE RegenerateCommand \/ RegenerateBoot
    BY <1>5, RegenerateKeeps
<1>6. CASE Boot \/ BootSafe
    BY <1>6, BootKeeps
<1>7. CASE UpdateNext \/ UpdateRemove \/ UpdateRename \/ UpdateRemark
    BY <1>7, UpdateNextKeeps, UpdateRemoveKeeps, UpdateRenameKeeps, UpdateRemarkKeeps
<1>8. CASE UpdatesDone \/ PruneNext \/ PruneDone \/ LoadActive
    BY <1>8, PhaseKeeps
<1>9. CASE PruneRemove
    BY <1>9, PruneRemoveKeeps
<1>10. CASE Error \/ PowerFails
    BY <1>10, FailureKeeps
<1>11. CASE UNCHANGED moduleVars
    BY <1>11, ModulesStill
<1> QED
    BY <1>1, <1>2, <1>3, <1>4, <1>5, <1>6, <1>7, <1>8, <1>9, <1>10, <1>11 DEF ModulesNext

\* What LoadActive activates is what was foreseen, and nothing that the user
\* disabled.
LEMMA BootEnds ==
    ASSUME ModulesInv, [ModulesNext]_moduleVars
    PROVE  RcMatchesBoot /\ DisabledStaysOff
<1> SUFFICES ASSUME PostFsDataEnds
             PROVE  (clean => active' = injected) /\ \A m \in off \ cut : active'[m] = 0
    BY DEF RcMatchesBoot, DisabledStaysOff
<1>1. stage = "load" /\ stage' = "on"
    BY DEF PostFsDataEnds
<1>2. LoadActive
    <2>1. CASE \E m \in Ids : \/ InstallClean(m) \/ enable_module(m) \/ disable_module(m)
                              \/ uninstall_module(m) \/ undo_uninstall_module(m)
        BY <1>1, <2>1 DEF InstallClean, enable_module, disable_module, uninstall_module,
                          undo_uninstall_module, SetMark, Command
    <2>2. CASE \/ InstallExtract \/ InstallFails \/ InstallProp \/ InstallMark
               \/ (\E mark \in Blocking : MarkAll(mark)) \/ mark_all_modules
               \/ RegenerateCommand \/ RegenerateBoot
        BY <1>1, <2>2 DEF InstallExtract, InstallFails, InstallProp, InstallMark, MarkAll, Command,
                          mark_all_modules, RegenerateCommand, RegenerateBoot, Blocking
    <2>3. CASE \/ Reboot \/ BootSafe \/ Boot \/ UpdateNext \/ UpdateRemove \/ UpdateRename
               \/ UpdateRemark \/ UpdatesDone \/ PruneNext \/ PruneRemove \/ PruneDone
        BY <1>1, <2>3 DEF Reboot, BootSafe, Boot, UpdateNext, UpdateRemove, UpdateRename,
                          UpdateRemark, UpdatesDone, PruneNext, PruneRemove, PruneDone
    <2>4. CASE Error \/ PowerFails
        BY <1>1, <2>4 DEF Error, PowerFails
    <2>5. CASE UNCHANGED moduleVars
        BY <1>1, <2>5 DEF moduleVars
    <2> QED
        BY <2>1, <2>2, <2>3, <2>4, <2>5 DEF ModulesNext
<1>3. active' = [m \in Ids |-> IF MODULE_DIR[m].exists /\ MODULE_DIR[m].marks \cap Blocking = {}
                                THEN MODULE_DIR[m].rc ELSE 0]
    BY <1>2 DEF LoadActive
<1>4. ASSUME clean
      PROVE  active' = injected
    <2>1. /\ injected = [m \in Ids |-> Foreseen(m)]
          /\ \A m \in Ids : ~MODULE_UPDATE_DIR[m].exists
        BY <1>1, <1>4 DEF ModulesInv, ForesightInv, Booting, Replacing
    <2>2. ASSUME NEW m \in Ids
          PROVE  Foreseen(m) = IF MODULE_DIR[m].exists /\ MODULE_DIR[m].marks \cap Blocking = {}
                               THEN MODULE_DIR[m].rc ELSE 0
        <3>1. Foreseen(m) = Take(MODULE_DIR[m], {})
            BY <1>1, <2>1 DEF Foreseen, Collected, Replacing
        <3>2. DirOk(MODULE_DIR[m])
            BY DEF ModulesInv, ModulesType
        <3> QED
            BY <3>1, <3>2 DEF Take, DirOk, NoDir
    <2> QED
        BY <1>3, <2>1, <2>2
<1>5. ASSUME NEW m \in off \ cut
      PROVE  active'[m] = 0
    <2>1. m \in Ids /\ KeptOff(m)
        BY DEF ModulesInv, OffInv
    <2>2. "disable" \in MODULE_DIR[m].marks
        BY <1>1, <2>1 DEF KeptOff, Replacing
    <2> QED
        BY <1>3, <2>1, <2>2 DEF Blocking
<1> QED
    BY <1>4, <1>5

\* A boot activates what the kernel injected for it, whatever the commands and
\* boots before it did, unless something failed in it; and it activates nothing
\* that the user disabled, over installs, updates, removals, errors and power
\* failures (regenerate_preinit_rc(), handle_updated_modules()).
THEOREM BootCorrect == ModulesSpec => BootAsForeseen
<1>1. ModulesSpec => []ModulesInv
    BY ModulesStart, ModulesStep, PTL DEF ModulesSpec
<1>2. ModulesInv /\ [ModulesNext]_moduleVars => [RcMatchesBoot /\ DisabledStaysOff]_moduleVars
    BY BootEnds
<1> QED
    BY <1>1, <1>2, PTL DEF ModulesSpec, BootAsForeseen

-----------------------------------------------------------------------------
(***************************************************************************)
(* The log of sulogd. An event is in the queue, in the buffer of the       *)
(* session that read it, written, or dropped and said so; a session writes *)
(* to the end of the log.                                                  *)
(***************************************************************************)

LineKinds == {"event", "dropped", "marker", "part", "glued"}
LineType == [kind : LineKinds, set : SUBSET Nat]
DaemonType ==
    [pc : {"dead", "lock", "open", "sleep", "marker", "wait", "write"}, buf : Seq(LineType), at : Nat \X Nat,
     size : Nat]

\* Files are of days up to this one, and their indices are bounded.
FilesOk(fs) ==
    /\ DOMAIN fs \subseteq Nat \X Nat /\ \A f \in DOMAIN fs : f[1] <= today /\ fs[f] \in Seq(LineType)
    /\ \E b \in Nat : \A f \in DOMAIN fs : f[2] <= b
    /\ \A p \in EventLines(fs) : \E s \in Nat : LineAt(fs, p).set = {s}

\* The reader's file belongs to the daemon in whose session it was opened.
LogTypes ==
    /\ today \in Nat /\ seq \in Nat /\ queue \in Seq(Nat)
    /\ dropped \subseteq Nat /\ reported \subseteq Nat /\ unsaid \subseteq Nat
    /\ FilesOk(files) /\ daemon \in [Daemons -> DaemonType] /\ sulog_fd \in Daemons \cup {Nobody}
    /\ \A d \in Daemons : daemon[d].pc \in {"marker", "wait", "write"} <=> sulog_fd = d
    /\ \A d \in Daemons : daemon[d].buf # <<>> <=> daemon[d].pc = "write"

\* A session writes to the end of the log.
LastFile(fs, f) == f \in DOMAIN fs /\ \A g \in DOMAIN fs : g = f \/ FileBefore(g, f)

WriterInv ==
    /\ \A f \in DOMAIN files : Len(files[f]) <= MaxFileSize
    /\ \A d \in Daemons : sulog_fd = d =>
          LastFile(files, daemon[d].at) /\ Len(files[daemon[d].at]) <= daemon[d].size

\* What was read and is not written: at most one report, and events in order.
Numbers(buf) == {Number(buf[i]) : i \in {j \in DOMAIN buf : buf[j].kind = "event"}}
Reports(buf) == UNION {line.set : line \in {l \in Range(buf) : l.kind = "dropped"}}
Buf == IF sulog_fd \in Daemons THEN daemon[sulog_fd].buf ELSE <<>>
InBuf == Numbers(Buf)
DroppedInBuf == Reports(Buf)
InQueue == {queue[i] : i \in DOMAIN queue}
Ahead == InBuf \cup InQueue
Said == reported \cup unsaid \cup dropped \cup DroppedInBuf

BufOk(buf) ==
    /\ \A i \in DOMAIN buf : \/ buf[i].kind = "event" /\ \E s \in Nat : buf[i].set = {s}
                             \/ buf[i].kind = "dropped" /\ i = 1
    /\ \A i, j \in DOMAIN buf : i < j /\ buf[i].kind = "event" => Number(buf[i]) < Number(buf[j])

\* Events are on their way in the order of their numbers, and behind the first
\* of them none is missing but those that the kernel dropped.
FlowInv ==
    /\ BufOk(Buf)
    /\ \A i, j \in DOMAIN queue : i < j => queue[i] < queue[j]
    /\ \A a \in InBuf, b \in InQueue : a < b
    /\ \A a \in Ahead \cup dropped : a <= seq
    /\ \A s \in dropped : \A a \in Ahead : a < s
    /\ dropped # {} => Len(queue) >= QueueLimit
    /\ \A a \in Ahead, s \in Nat : a < s /\ s <= seq => s \in Ahead \cup Said

\* The log ends where the way begins: while a session writes, no event is
\* missing behind the last one that only reports follow.
LastEvent(fs, p) ==
    p \in EventLines(fs) /\ \A r \in Positions(fs) : LineBefore(p, r) => LineAt(fs, r).kind = "dropped"

EventsBehind ==
    \A p \in EventLines(files) :
       Number(LineAt(files, p)) <= seq /\ \A a \in Ahead : Number(LineAt(files, p)) < a

NoneMissing ==
    \A p \in EventLines(files) : LastEvent(files, p) =>
       \A s \in Nat : Number(LineAt(files, p)) < s /\ s <= seq => s \in Ahead \cup Said

Writing(d) == sulog_fd = d /\ daemon[d].pc \in {"wait", "write"}
LogEndInv == EventsBehind /\ \A d \in Daemons : Writing(d) => NoneMissing

LogInv ==
    /\ LogTypes /\ WriterInv /\ FlowInv /\ LogEndInv
    /\ InOrder(files) /\ Gapless(files, reported \cup unsaid)

LEMMA PositionIs ==
    ASSUME NEW fs, NEW p
    PROVE  p \in Positions(fs) <=> \E f \in DOMAIN fs : \E i \in DOMAIN fs[f] : p = <<f, i>>
BY DEF Positions

LEMMA PositionHas ==
    ASSUME NEW fs, NEW p \in Positions(fs)
    PROVE  p[1] \in DOMAIN fs /\ p[2] \in DOMAIN fs[p[1]] /\ p = <<p[1], p[2]>>
BY PositionIs

LEMMA NumberIs ==
    ASSUME NEW line, NEW s, line.set = {s}
    PROVE  Number(line) = s
BY DEF Number

\* Two logs that have a part in common: fs2 has it and one line behind it,
\* which was added, or took the place of a part of a line.
Extends(fs, fs2, n, line) ==
    /\ n \in Positions(fs2) /\ LineAt(fs2, n) \in {line, Line("glued", {})}
    /\ \A q \in Positions(fs2) : q # n =>
          q \in Positions(fs) /\ LineAt(fs2, q) = LineAt(fs, q) /\ LineBefore(q, n) /\ ~LineBefore(n, q)
    /\ ~LineBefore(n, n)
    /\ \A q \in Positions(fs2), r \in Positions(fs) : q # n /\ LineBefore(q, r) => r \in Positions(fs2)
    /\ n \in Positions(fs) => LineAt(fs2, n) = Line("glued", {})

\* fs2 is a stretch of fs.
Trims(fs, fs2) ==
    /\ \A q \in Positions(fs2) : q \in Positions(fs) /\ LineAt(fs2, q) = LineAt(fs, q)
    /\ \A p, q \in Positions(fs2), r \in Positions(fs) :
          LineBefore(p, r) /\ LineBefore(r, q) => r \in Positions(fs2)

LEMMA TrimsKeeps ==
    ASSUME NEW fs, NEW fs2, Trims(fs, fs2), NEW told, InOrder(fs), Gapless(fs, told)
    PROVE  InOrder(fs2) /\ Gapless(fs2, told)
<1>1. \A p \in EventLines(fs2) : p \in EventLines(fs) /\ p \in Positions(fs2) /\ LineAt(fs2, p) = LineAt(fs, p)
    BY DEF Trims, EventLines
<1>2. InOrder(fs2)
    BY <1>1 DEF InOrder
<1>3. Gapless(fs2, told)
    <2> SUFFICES ASSUME NEW p \in EventLines(fs2), NEW q \in EventLines(fs2), LineBefore(p, q),
                        \A r \in Positions(fs2) :
                           LineBefore(p, r) /\ LineBefore(r, q) => LineAt(fs2, r).kind = "dropped"
                 PROVE  \A s \in (Number(LineAt(fs2, p)) + 1)..(Number(LineAt(fs2, q)) - 1) : s \in told
        BY DEF Gapless
    <2>1. \A r \in Positions(fs) : LineBefore(p, r) /\ LineBefore(r, q) => LineAt(fs, r).kind = "dropped"
        BY <1>1 DEF Trims
    <2>2. \A s \in (Number(LineAt(fs, p)) + 1)..(Number(LineAt(fs, q)) - 1) : s \in told
        BY <1>1, <2>1 DEF Gapless
    <2> QED
        BY <1>1, <2>2
<1> QED
    BY <1>2, <1>3

LEMMA MoreTold ==
    ASSUME NEW fs, NEW told, NEW more, told \subseteq more, Gapless(fs, told)
    PROVE  Gapless(fs, more)
BY DEF Gapless

LEMMA ExtendsEvents ==
    ASSUME NEW fs, NEW fs2, NEW n, NEW line, Extends(fs, fs2, n, line)
    PROVE  /\ \A p \in EventLines(fs2) : p # n => p \in EventLines(fs) /\ LineAt(fs2, p) = LineAt(fs, p)
           /\ n \in EventLines(fs2) => line.kind = "event" /\ LineAt(fs2, n) = line
           /\ \A p : LastEvent(fs2, p) =>
                 \/ p = n /\ line.kind = "event"
                 \/ p # n /\ line.kind = "dropped" /\ LastEvent(fs, p)
<1>0. Line("glued", {}).kind = "glued"
    BY DEF Line
<1>1. \A p \in EventLines(fs2) : p # n => p \in EventLines(fs) /\ LineAt(fs2, p) = LineAt(fs, p)
    BY DEF EventLines, Extends
<1>2. n \in EventLines(fs2) => line.kind = "event" /\ LineAt(fs2, n) = line
    BY <1>0 DEF EventLines, Extends
<1>3. ASSUME NEW p, LastEvent(fs2, p), p # n
      PROVE  line.kind = "dropped" /\ LastEvent(fs, p)
    <2>1. p \in EventLines(fs2) /\ p \in Positions(fs2) /\ p \in EventLines(fs)
        BY <1>1, <1>3 DEF LastEvent, EventLines
    <2>2. LineAt(fs2, n).kind = "dropped" /\ LineAt(fs2, n) = line
        BY <1>0, <1>3, <2>1 DEF LastEvent, Extends
    <2>3. n \notin Positions(fs)
        BY <1>0, <2>2 DEF Extends
    <2>4. \A r \in Positions(fs) : LineBefore(p, r) => LineAt(fs, r).kind = "dropped"
        BY <1>3, <2>1, <2>3 DEF LastEvent, Extends
    <2> QED
        BY <2>1, <2>2, <2>4 DEF LastEvent
<1> QED
    BY <1>1, <1>2, <1>3 DEF LastEvent

LEMMA ExtendsKeeps ==
    ASSUME NEW fs, NEW fs2, NEW n, NEW line, Extends(fs, fs2, n, line),
           NEW told, InOrder(fs), Gapless(fs, told),
           line.kind = "event" =>
              \A p \in EventLines(fs) :
                 /\ Number(LineAt(fs, p)) < Number(line)
                 /\ LastEvent(fs, p) =>
                       \A s \in (Number(LineAt(fs, p)) + 1)..(Number(line) - 1) : s \in told
    PROVE  InOrder(fs2) /\ Gapless(fs2, told)
<1>1. /\ \A p \in EventLines(fs2) : p # n => p \in EventLines(fs) /\ LineAt(fs2, p) = LineAt(fs, p)
      /\ n \in EventLines(fs2) => line.kind = "event" /\ LineAt(fs2, n) = line
    BY ExtendsEvents
<1>2. \A p \in EventLines(fs2) : p \in Positions(fs2) /\ ~LineBefore(n, p)
    BY DEF EventLines, Extends
<1>3. InOrder(fs2)
    <2> SUFFICES ASSUME NEW p \in EventLines(fs2), NEW q \in EventLines(fs2), LineBefore(p, q)
                 PROVE  Number(LineAt(fs2, p)) < Number(LineAt(fs2, q))
        BY DEF InOrder
    <2>1. p # n /\ p \in EventLines(fs) /\ LineAt(fs2, p) = LineAt(fs, p)
        BY <1>1, <1>2
    <2>2. CASE q = n
        BY <1>1, <2>1, <2>2
    <2>3. CASE q # n
        BY <1>1, <2>1, <2>3 DEF InOrder
    <2> QED
        BY <2>2, <2>3
<1>4. Gapless(fs2, told)
    <2> SUFFICES ASSUME NEW p \in EventLines(fs2), NEW q \in EventLines(fs2), LineBefore(p, q),
                        \A r \in Positions(fs2) :
                           LineBefore(p, r) /\ LineBefore(r, q) => LineAt(fs2, r).kind = "dropped"
                 PROVE  \A s \in (Number(LineAt(fs2, p)) + 1)..(Number(LineAt(fs2, q)) - 1) : s \in told
        BY DEF Gapless
    <2>1. p # n /\ p \in EventLines(fs) /\ LineAt(fs2, p) = LineAt(fs, p) /\ p \in Positions(fs2)
        BY <1>1, <1>2
    <2>2. CASE q = n
        <3>1. line.kind = "event" /\ LineAt(fs2, n) = line
            BY <1>1, <2>2
        <3>2. n \notin Positions(fs)
            BY <3>1 DEF Extends, Line
        <3>3. \A r \in Positions(fs) : LineBefore(p, r) => LineAt(fs, r).kind = "dropped"
            BY <2>1, <2>2, <3>2 DEF Extends
        <3>4. LastEvent(fs, p)
            BY <2>1, <3>3 DEF LastEvent
        <3> QED
            BY <2>1, <2>2, <3>1, <3>4
    <2>3. CASE q # n
        <3>1. q \in EventLines(fs) /\ LineAt(fs2, q) = LineAt(fs, q)
            BY <1>1, <2>3
        <3>2. ASSUME NEW r \in Positions(fs), LineBefore(p, r), LineBefore(r, q)
              PROVE  LineAt(fs, r).kind = "dropped"
            <4>1. r \in Positions(fs2)
                BY <2>1, <3>2 DEF Extends
            <4>2. r # n
                BY <1>2, <3>2
            <4> QED
                BY <3>2, <4>1, <4>2 DEF Extends
        <3>3. \A s \in (Number(LineAt(fs, p)) + 1)..(Number(LineAt(fs, q)) - 1) : s \in told
            BY <2>1, <3>1, <3>2 DEF Gapless
        <3> QED
            BY <2>1, <3>1, <3>3
    <2> QED
        BY <2>2, <2>3
<1> QED
    BY <1>3, <1>4

-----------------------------------------------------------------------------
(* The files.                                                              *)

LEMMA LeastNumber ==
    ASSUME NEW T, T \subseteq Nat, T # {}
    PROVE  \E x \in T : \A y \in T : x <= y
<1> DEFINE R == {ss \in Nat \X Nat : ss[1] < ss[2]}
<1>1. IsWellFoundedOn(R, Nat)
    BY NatLessThanWellFounded DEF OpToRel
<1> HIDE DEF R
<1>2. PICK x \in T : \A y \in T : ~(<<y, x>> \in R)
    BY <1>1, WFMin
<1>3. \A y \in T : <<y, x>> \in R <=> y < x
    BY <1>2 DEF R
<1>4. \A y \in T : ~(y < x)
    BY <1>2, <1>3, Zenon
<1>5. \A y \in T : x <= y
    BY <1>4
<1> QED
    BY <1>5

LEMMA MaxIs ==
    ASSUME NEW S, S \subseteq Nat, S # {}, NEW b \in Nat, \A x \in S : x <= b
    PROVE  Max(S) \in S /\ \A x \in S : x <= Max(S)
<1> DEFINE U == {u \in Nat : \A x \in S : x <= u}
<1>1. U \subseteq Nat /\ b \in U
    OBVIOUS
<1>2. PICK u \in U : \A v \in U : u <= v
    <2> HIDE DEF U
    <2> QED
        BY <1>1, LeastNumber
<1>3. u \in Nat /\ \A x \in S : x <= u
    BY <1>2
<1>4. u \in S
    <2> SUFFICES ASSUME u \notin S
                 PROVE  FALSE
        OBVIOUS
    <2>1. \A x \in S : x \in Nat /\ x < u
        BY <1>3
    <2>a. PICK x \in S : TRUE
        OBVIOUS
    <2>b. u - 1 \in Nat
        BY <1>3, <2>1, <2>a
    <2>c. \A y \in S : y <= u - 1
        BY <1>3, <2>1
    <2>2. u - 1 \in Nat /\ \A y \in S : y <= u - 1
        BY <2>b, <2>c
    <2>3. u - 1 \in U
        BY <2>2
    <2> QED
        BY <1>2, <1>3, <2>3
<1>5. \E x \in S : \A y \in S : x >= y
    BY <1>3, <1>4
<1> QED
    BY <1>5 DEF Max

LEMMA LastReplaced ==
    ASSUME NEW T, NEW l \in Seq(T), l # <<>>, NEW g \in T
    PROVE  LET l2 == [l EXCEPT ![Len(l)] = g]
           IN  /\ Len(l) \in Nat \ {0} /\ l2 \in Seq(T) /\ Len(l2) = Len(l) /\ l2[Len(l)] = g
               /\ \A i \in 1..Len(l) : i < Len(l) => i \in DOMAIN l /\ l2[i] = l[i]
<1> DEFINE l2 == [l EXCEPT ![Len(l)] = g]
<1>0. Len(l) \in Nat /\ Len(l) # 0
    OBVIOUS
<1>1. Len(l) \in Nat /\ Len(l) # 0 /\ DOMAIN l = 1..Len(l)
    OBVIOUS
<1>2. DOMAIN l2 = 1..Len(l) /\ l2[Len(l)] = g
    BY <1>1
<1>3. l2 \in Seq(T)
    BY <1>1
<1>4. Len(l2) = Len(l)
    BY <1>1
<1>5. \A i \in 1..Len(l) : i < Len(l) => i \in DOMAIN l
    BY <1>1
<1>6. \A i \in 1..Len(l) : i # Len(l) => l2[i] = l[i]
    BY <1>1
<1>7. \A i \in 1..Len(l) : i < Len(l) => l2[i] = l[i]
    <2> SUFFICES ASSUME NEW i \in 1..Len(l), i < Len(l)
                 PROVE  l2[i] = l[i]
        OBVIOUS
    <2>1. i # Len(l)
        BY <1>0
    <2> QED
        BY <1>6, <2>1
<1> QED
    BY <1>1, <1>2, <1>3, <1>4, <1>5, <1>7

LEMMA AppendedIs ==
    ASSUME NEW l \in Seq(LineType), NEW line \in LineType, line.kind # "glued"
    PROVE  \E k \in Nat \ {0} :
              LET l2 == Appended(l, line)
              IN  /\ l2 \in Seq(LineType) /\ Len(l2) = k /\ k <= Len(l) + 1 /\ Len(l) <= k
                  /\ l2[k] \in {line, Line("glued", {})}
                  /\ \A i \in 1..k : i < k => i \in DOMAIN l /\ l2[i] = l[i]
                  /\ k <= Len(l) => l2[k] = Line("glued", {})
<1> DEFINE g == Line("glued", {})
<1>1. g \in LineType
    BY DEF Line, LineType, LineKinds
<1>2. CASE l # <<>> /\ Last(l).kind = "part"
    <2> DEFINE l2 == [l EXCEPT ![Len(l)] = g]
    <2>1. Appended(l, line) = l2
        BY <1>2 DEF Appended
    <2> HIDE DEF g
    <2>2. Len(l) \in Nat \ {0} /\ l2 \in Seq(LineType) /\ Len(l2) = Len(l) /\ l2[Len(l)] = g
        BY <1>1, <1>2, LastReplaced
    <2>3. \A i \in 1..Len(l) : i < Len(l) => i \in DOMAIN l /\ l2[i] = l[i]
        BY <1>1, <1>2, LastReplaced
    <2> HIDE DEF l2
    <2> QED
        BY <2>1, <2>2, <2>3 DEF g
<1>3. CASE ~(l # <<>> /\ Last(l).kind = "part")
    <2> DEFINE l2 == Append(l, line)
    <2>1. Appended(l, line) = l2
        BY <1>3 DEF Appended
    <2>2. Len(l) \in Nat /\ DOMAIN l = 1..Len(l)
        OBVIOUS
    <2>3. l2 \in Seq(LineType) /\ Len(l2) = Len(l) + 1 /\ l2[Len(l) + 1] = line
          /\ \A i \in 1..Len(l) : l2[i] = l[i]
        OBVIOUS
    <2> HIDE DEF l2
    <2>4. \A i \in 1..(Len(l) + 1) : i < Len(l) + 1 => i \in DOMAIN l /\ l2[i] = l[i]
        BY <2>2, <2>3
    <2> QED
        BY <2>1, <2>2, <2>3, <2>4
<1> QED
    BY <1>2, <1>3

LEMMA FileOrder ==
    ASSUME NEW f \in Nat \X Nat, NEW g \in Nat \X Nat
    PROVE  /\ ~FileBefore(f, f) /\ ~(FileBefore(f, g) /\ FileBefore(g, f))
           /\ FileBefore(f, g) \/ FileBefore(g, f) \/ f = g
           /\ \A h \in Nat \X Nat : FileBefore(f, g) /\ FileBefore(g, h) => FileBefore(f, h)
BY DEF FileBefore

\* One more line in the last file.
LEMMA Appends ==
    ASSUME NEW fs, FilesOk(fs), NEW at, LastFile(fs, at), NEW line \in LineType, line.kind # "glued",
           line.kind = "event" => \E s \in Nat : line.set = {s}
    PROVE  LET fs2 == [fs EXCEPT ![at] = Appended(@, line)]
           IN  /\ Extends(fs, fs2, <<at, Len(fs2[at])>>, line)
               /\ FilesOk(fs2) /\ LastFile(fs2, at) /\ DOMAIN fs2 = DOMAIN fs
               /\ Len(fs2[at]) <= Len(fs[at]) + 1 /\ \A f \in DOMAIN fs : f # at => fs2[f] = fs[f]
<1> DEFINE fs2 == [fs EXCEPT ![at] = Appended(@, line)]
           l == fs[at]
           l2 == Appended(l, line)
           glued == Line("glued", {})
<1>1. at \in DOMAIN fs /\ l \in Seq(LineType) /\ at \in Nat \X Nat /\ DOMAIN fs \subseteq Nat \X Nat
      /\ \A f \in DOMAIN fs : fs[f] \in Seq(LineType)
    BY DEF LastFile, FilesOk
<1>2. PICK k \in Nat \ {0} :
          /\ l2 \in Seq(LineType) /\ Len(l2) = k /\ k <= Len(l) + 1 /\ Len(l) <= k
          /\ l2[k] \in {line, glued}
          /\ \A i \in 1..k : i < k => i \in DOMAIN l /\ l2[i] = l[i]
          /\ k <= Len(l) => l2[k] = glued
    BY <1>1, AppendedIs
<1>3. DOMAIN fs2 = DOMAIN fs /\ fs2[at] = l2 /\ \A f \in DOMAIN fs : f # at => fs2[f] = fs[f]
    BY <1>1
<1>4. DOMAIN l2 = 1..k /\ DOMAIN l = 1..Len(l) /\ Len(l) \in Nat
    BY <1>1, <1>2
<1> DEFINE n == <<at, k>>
<1> HIDE DEF fs2, l2, l, glued
<1>5. \A q \in Positions(fs2) : q # n =>
          q \in Positions(fs) /\ LineAt(fs2, q) = LineAt(fs, q) /\ LineBefore(q, n) /\ ~LineBefore(n, q)
    <2> SUFFICES ASSUME NEW f \in DOMAIN fs2, NEW i \in DOMAIN fs2[f], <<f, i>> # n
                 PROVE  /\ <<f, i>> \in Positions(fs) /\ LineAt(fs2, <<f, i>>) = LineAt(fs, <<f, i>>)
                        /\ LineBefore(<<f, i>>, n) /\ ~LineBefore(n, <<f, i>>)
        BY PositionIs
    <2>1. CASE f # at
        <3>1. fs2[f] = fs[f] /\ f \in Nat \X Nat /\ FileBefore(f, at) /\ ~FileBefore(at, f)
            BY <1>1, <1>3, <2>1, FileOrder DEF LastFile
        <3> QED
            BY <1>3, <2>1, <3>1, PositionIs DEF LineAt, LineBefore
    <2>2. CASE f = at
        <3>1. i \in 1..k /\ i < k
            BY <1>3, <1>4, <2>2
        <3>2. i \in DOMAIN l /\ l2[i] = l[i]
            BY <1>2, <3>1
        <3>3. ~FileBefore(at, at)
            BY <1>1, FileOrder
        <3> QED
            BY <1>1, <1>3, <2>2, <3>1, <3>2, <3>3, PositionIs DEF LineAt, LineBefore, l
    <2> QED
        BY <2>1, <2>2
<1>6. n \in Positions(fs2) /\ LineAt(fs2, n) = l2[k]
    BY <1>1, <1>3, <1>4, PositionIs DEF LineAt
<1>7. ~LineBefore(n, n)
    BY <1>1, FileOrder DEF LineBefore
<1>8. \A r \in Positions(fs) : r \in Positions(fs2)
    <2> SUFFICES ASSUME NEW f \in DOMAIN fs, NEW i \in DOMAIN fs[f]
                 PROVE  <<f, i>> \in Positions(fs2)
        BY PositionIs
    <2>1. f \in DOMAIN fs2 /\ i \in DOMAIN fs2[f]
        BY <1>2, <1>3, <1>4 DEF l
    <2> QED
        BY <2>1, PositionIs
<1>9. n \in Positions(fs) => l2[k] = glued
    <2>1. n \in Positions(fs) => k \in DOMAIN l
        BY PositionIs DEF l
    <2> QED
        BY <1>2, <1>4, <2>1
<1>10. Extends(fs, fs2, n, line)
    BY <1>2, <1>5, <1>6, <1>7, <1>8, <1>9 DEF Extends, glued
<1>11. FilesOk(fs2)
    <2>1. \A p \in EventLines(fs2) : \E s \in Nat : LineAt(fs2, p).set = {s}
        BY <1>10, ExtendsEvents DEF FilesOk
    <2>2. \A f \in DOMAIN fs2 : f[1] <= today /\ fs2[f] \in Seq(LineType)
        BY <1>2, <1>3 DEF FilesOk
    <2> QED
        BY <1>3, <2>1, <2>2 DEF FilesOk
<1>12. LastFile(fs2, at)
    BY <1>3 DEF LastFile
<1>13. Len(fs2[at]) = k
    BY <1>2, <1>3
<1> QED
    BY <1>2, <1>3, <1>10, <1>11, <1>12, <1>13 DEF fs2, l

-----------------------------------------------------------------------------
(* Rotation. The writer's files are an end of the log, and perhaps a new   *)
(* file behind it.                                                         *)

Suffix(fs, fs2, at) ==
    /\ \A f \in DOMAIN fs2 : (f \in DOMAIN fs /\ fs2[f] = fs[f]) \/ fs2[f] = <<>>
    /\ \A f \in DOMAIN fs2, g \in DOMAIN fs :
          f \in DOMAIN fs /\ (FileBefore(f, g) \/ f = g) => g \in DOMAIN fs2 /\ fs2[g] = fs[g]
    /\ at \in DOMAIN fs => fs2[at] = fs[at]

WriterReady(fs, wr) ==
    /\ FilesOk(wr.files) /\ LastFile(wr.files, wr.at) /\ Suffix(fs, wr.files, wr.at)
    /\ wr.size \in Nat /\ wr.size < MaxFileSize /\ Len(wr.files[wr.at]) <= wr.size
    /\ \A f \in DOMAIN wr.files : Len(wr.files[f]) <= MaxFileSize

LEMMA SuffixPositions ==
    ASSUME NEW fs, NEW fs2, NEW at, Suffix(fs, fs2, at)
    PROVE  /\ \A q \in Positions(fs2) : q \in Positions(fs) /\ LineAt(fs2, q) = LineAt(fs, q)
           /\ \A q \in Positions(fs2), r \in Positions(fs) : LineBefore(q, r) => r \in Positions(fs2)
<1>0. DOMAIN <<>> = {}
    OBVIOUS
<1>1. ASSUME NEW q \in Positions(fs2)
      PROVE  q[1] \in DOMAIN fs2 /\ q[1] \in DOMAIN fs /\ fs2[q[1]] = fs[q[1]] /\ q[2] \in DOMAIN fs2[q[1]]
             /\ q = <<q[1], q[2]>>
    <2>1. q[1] \in DOMAIN fs2 /\ q[2] \in DOMAIN fs2[q[1]] /\ q = <<q[1], q[2]>>
        BY PositionHas
    <2>2. fs2[q[1]] # <<>>
        BY <1>0, <2>1
    <2> QED
        BY <2>1, <2>2 DEF Suffix
<1>2. \A q \in Positions(fs2) : q \in Positions(fs) /\ LineAt(fs2, q) = LineAt(fs, q)
    BY <1>1, PositionIs DEF LineAt
<1>3. ASSUME NEW q \in Positions(fs2), NEW r \in Positions(fs), LineBefore(q, r)
      PROVE  r \in Positions(fs2)
    <2>1. r[1] \in DOMAIN fs /\ r[2] \in DOMAIN fs[r[1]] /\ r = <<r[1], r[2]>>
        BY PositionHas
    <2>2. FileBefore(q[1], r[1]) \/ q[1] = r[1]
        BY <1>3 DEF LineBefore
    <2>3. r[1] \in DOMAIN fs2 /\ fs2[r[1]] = fs[r[1]]
        BY <1>1, <2>1, <2>2 DEF Suffix
    <2> QED
        BY <2>1, <2>3, PositionIs
<1> QED
    BY <1>2, <1>3

LEMMA SuffixTrims ==
    ASSUME NEW fs, NEW fs2, NEW at, Suffix(fs, fs2, at)
    PROVE  Trims(fs, fs2)
BY SuffixPositions DEF Trims

LEMMA SuffixExtends ==
    ASSUME NEW fs, NEW fs1, NEW fs2, NEW at, NEW k, NEW line, Suffix(fs, fs1, at), at \in DOMAIN fs1,
           Extends(fs1, fs2, <<at, k>>, line)
    PROVE  Extends(fs, fs2, <<at, k>>, line)
<1> DEFINE n == <<at, k>>
<1>1. n \in Positions(fs) => n \in Positions(fs1)
    <2>1. n \in Positions(fs) => at \in DOMAIN fs /\ k \in DOMAIN fs[at]
        BY PositionIs
    <2>2. n \in Positions(fs) => k \in DOMAIN fs1[at]
        BY <2>1 DEF Suffix
    <2> QED
        BY <2>2, PositionIs
<1> HIDE DEF n
<1>2. Extends(fs1, fs2, n, line)
    BY DEF n
<1>3. \A q \in Positions(fs2) : q # n =>
          q \in Positions(fs) /\ LineAt(fs2, q) = LineAt(fs, q) /\ LineBefore(q, n) /\ ~LineBefore(n, q)
    BY <1>2, SuffixPositions DEF Extends
<1>4. \A q \in Positions(fs2), r \in Positions(fs) : q # n /\ LineBefore(q, r) => r \in Positions(fs2)
    <2> SUFFICES ASSUME NEW q \in Positions(fs2), NEW r \in Positions(fs), q # n, LineBefore(q, r)
                 PROVE  r \in Positions(fs2)
        OBVIOUS
    <2>1. q \in Positions(fs1)
        BY <1>2 DEF Extends
    <2>2. r \in Positions(fs1)
        BY <2>1, SuffixPositions
    <2> QED
        BY <1>2, <2>2 DEF Extends
<1>5. Extends(fs, fs2, n, line)
    BY <1>1, <1>2, <1>3, <1>4 DEF Extends
<1> QED
    BY <1>5 DEF n

LEMMA FilesStayOk ==
    ASSUME NEW fs, FilesOk(fs), NEW fs2, NEW at, Suffix(fs, fs2, at), DOMAIN fs2 \subseteq Nat \X Nat,
           \A f \in DOMAIN fs2 : f[1] <= today, NEW b \in Nat, \A f \in DOMAIN fs2 : f[2] <= b
    PROVE  FilesOk(fs2)
<1>0. \A f \in DOMAIN fs : fs[f] \in Seq(LineType)
    BY DEF FilesOk
<1>a. <<>> \in Seq(LineType)
    OBVIOUS
<1>1. \A f \in DOMAIN fs2 : fs2[f] \in Seq(LineType)
    BY <1>0, <1>a DEF Suffix
<1>2. \A p \in EventLines(fs2) : \E s \in Nat : LineAt(fs2, p).set = {s}
    BY SuffixPositions DEF FilesOk, EventLines
<1> QED
    BY <1>1, <1>2 DEF FilesOk

LEMMA CleanupIs ==
    ASSUME NEW fs, FilesOk(fs), today \in Nat
    PROVE  LET fs1 == cleanup_expired_logs(fs)
           IN  /\ DOMAIN fs1 \subseteq DOMAIN fs /\ \A f \in DOMAIN fs1 : fs1[f] = fs[f]
               /\ \A f \in DOMAIN fs1, g \in DOMAIN fs : FileBefore(f, g) => g \in DOMAIN fs1
               /\ \A g \in DOMAIN fs : g[1] = today => g \in DOMAIN fs1
<1>1. RetentionDays \in Nat /\ RetentionDays >= 1
    BY KsudLogAssumption
<1>2. \A f \in DOMAIN fs : f[1] \in Nat /\ f[2] \in Nat
    BY DEF FilesOk
<1>3. /\ DOMAIN cleanup_expired_logs(fs) = {g \in DOMAIN fs : g[1] >= today - (RetentionDays - 1)}
      /\ \A f \in DOMAIN cleanup_expired_logs(fs) : cleanup_expired_logs(fs)[f] = fs[f]
    BY DEF cleanup_expired_logs
<1>4. \A f \in DOMAIN cleanup_expired_logs(fs), g \in DOMAIN fs :
          FileBefore(f, g) => g \in DOMAIN cleanup_expired_logs(fs)
    BY <1>1, <1>2, <1>3 DEF FileBefore
<1>5. \A g \in DOMAIN fs : g[1] = today => g \in DOMAIN cleanup_expired_logs(fs)
    BY <1>1, <1>3
<1> QED
    BY <1>3, <1>4, <1>5

LEMMA OpenedIs ==
    ASSUME NEW fs, NEW f
    PROVE  /\ DOMAIN Opened(fs, f) = DOMAIN fs \cup {f}
           /\ \A g \in DOMAIN fs : Opened(fs, f)[g] = fs[g]
           /\ f \notin DOMAIN fs => Opened(fs, f)[f] = <<>>
BY DEF Opened

\* The last file of today, or one behind it: it has room.
LEMMA PicksLast ==
    ASSUME NEW fs, DOMAIN fs \subseteq Nat \X Nat, today \in Nat, NEW b \in Nat,
           \A f \in DOMAIN fs : f[2] <= b /\ Len(fs[f]) \in Nat
    PROVE  \E h \in Nat :
              /\ open_log_writer_for_day(fs) = [files |-> Opened(fs, <<today, h>>), at |-> <<today, h>>,
                                                size |-> SizeOf(fs, <<today, h>>)]
              /\ \A g \in DOMAIN fs : g[1] = today => g[2] <= h
              /\ SizeOf(fs, <<today, h>>) \in Nat /\ SizeOf(fs, <<today, h>>) < MaxFileSize
<1> DEFINE found == {f[2] : f \in {g \in DOMAIN fs : g[1] = today}}
           highest == IF found = {} THEN 0 ELSE Max(found)
           full == SizeOf(fs, <<today, highest>>) >= MaxFileSize
           h == IF full THEN highest + 1 ELSE highest
<1>1. open_log_writer_for_day(fs) = [files |-> Opened(fs, <<today, h>>), at |-> <<today, h>>,
                                     size |-> SizeOf(fs, <<today, h>>)]
    BY DEF open_log_writer_for_day
<1>2. found \subseteq Nat /\ \A x \in found : x <= b
    OBVIOUS
<1>3. \A g \in DOMAIN fs : g[1] = today => g[2] \in found
    OBVIOUS
<1>4. \A x \in Nat : <<today, x>> \in DOMAIN fs => x \in found
    <2> SUFFICES ASSUME NEW x \in Nat, <<today, x>> \in DOMAIN fs
                 PROVE  x \in found
        OBVIOUS
    <2>1. <<today, x>>[1] = today /\ <<today, x>>[2] = x
        OBVIOUS
    <2> QED
        BY <1>3, <2>1
<1>5. MaxFileSize \in Nat /\ MaxFileSize > 0
    BY KsudLogAssumption
<1> HIDE DEF found
<1>6. highest \in Nat /\ \A x \in found : x <= highest
    BY <1>2, MaxIs
<1>7. SizeOf(fs, <<today, highest>>) \in Nat
    BY DEF SizeOf
<1> HIDE DEF highest
<1>8. CASE full
    <2>1. h = highest + 1
        BY <1>8
    <2>2. h \in Nat /\ h \notin found /\ \A x \in found : x <= h
        <3> HIDE DEF h
        <3>1. highest + 1 \in Nat /\ \A x \in found : x \in Nat /\ x <= highest + 1 /\ x # highest + 1
            BY <1>2, <1>6
        <3> QED
            BY <2>1, <3>1
    <2> HIDE DEF h
    <2>3. SizeOf(fs, <<today, h>>) = 0
        BY <1>4, <2>2 DEF SizeOf
    <2>4. SizeOf(fs, <<today, h>>) \in Nat /\ SizeOf(fs, <<today, h>>) < MaxFileSize
        BY <1>5, <2>3
    <2>5. h \in Nat /\ \A g \in DOMAIN fs : g[1] = today => g[2] <= h
        BY <1>3, <2>2
    <2> QED
        BY <1>1, <2>4, <2>5
<1>9. CASE ~full
    <2>1. h = highest
        BY <1>9
    <2>2. SizeOf(fs, <<today, highest>>) < MaxFileSize
        BY <1>5, <1>7, <1>9
    <2> HIDE DEF h
    <2> QED
        BY <1>1, <1>3, <1>6, <1>7, <2>1, <2>2
<1> QED
    BY <1>8, <1>9

LEMMA OpensLast ==
    ASSUME FilesOk(files), today \in Nat, \A f \in DOMAIN files : Len(files[f]) <= MaxFileSize
    PROVE  WriterReady(files, OpenWriter(files))
<1> DEFINE fs == cleanup_expired_logs(files)
<1>1. /\ DOMAIN fs \subseteq DOMAIN files /\ \A f \in DOMAIN fs : fs[f] = files[f]
      /\ \A f \in DOMAIN fs, g \in DOMAIN files : FileBefore(f, g) => g \in DOMAIN fs
      /\ \A g \in DOMAIN files : g[1] = today => g \in DOMAIN fs
    BY CleanupIs
<1>2. /\ DOMAIN files \subseteq Nat \X Nat /\ \A f \in DOMAIN files : f[1] <= today /\ files[f] \in Seq(LineType)
      /\ \A f \in DOMAIN files : Len(files[f]) \in Nat
    BY DEF FilesOk
<1>3. PICK b \in Nat : \A f \in DOMAIN files : f[2] <= b
    BY DEF FilesOk
<1>4. OpenWriter(files) = open_log_writer_for_day(fs)
    BY DEF OpenWriter
<1> HIDE DEF fs
<1>5. DOMAIN fs \subseteq Nat \X Nat /\ \A f \in DOMAIN fs : f[2] <= b /\ Len(fs[f]) \in Nat
    BY <1>1, <1>2, <1>3
<1>6. PICK h \in Nat :
          /\ open_log_writer_for_day(fs) = [files |-> Opened(fs, <<today, h>>), at |-> <<today, h>>,
                                            size |-> SizeOf(fs, <<today, h>>)]
          /\ \A g \in DOMAIN fs : g[1] = today => g[2] <= h
          /\ SizeOf(fs, <<today, h>>) \in Nat /\ SizeOf(fs, <<today, h>>) < MaxFileSize
    BY <1>5, PicksLast
<1> DEFINE at == <<today, h>>
           fs2 == Opened(fs, at)
<1>7. at \in Nat \X Nat /\ at[1] = today /\ at[2] = h
    OBVIOUS
<1>8. OpenWriter(files).files = fs2 /\ OpenWriter(files).at = at /\ OpenWriter(files).size = SizeOf(fs, at)
    BY <1>4, <1>6
<1>9. SizeOf(fs, at) \in Nat /\ SizeOf(fs, at) < MaxFileSize
    BY <1>6
<1> HIDE DEF at
<1>10. /\ DOMAIN fs2 = DOMAIN fs \cup {at} /\ \A g \in DOMAIN fs : fs2[g] = fs[g]
       /\ at \notin DOMAIN fs => fs2[at] = <<>>
    <2> HIDE DEF fs2
    <2> QED
        BY OpenedIs DEF fs2
<1> HIDE DEF fs2
<1>11. \A g \in DOMAIN fs : g = at \/ FileBefore(g, at)
    <2> SUFFICES ASSUME NEW g \in DOMAIN fs
                 PROVE  g = at \/ FileBefore(g, at)
        OBVIOUS
    <2>1. g \in Nat \X Nat /\ g[1] \in Nat /\ g[2] \in Nat /\ g[1] <= today
        BY <1>1, <1>2
    <2>2. g[1] = today => g[2] <= h
        BY <1>6
    <2>3. g[1] = at[1] /\ g[2] = at[2] => g = at
        BY <1>7, <2>1
    <2> QED
        BY <1>7, <2>1, <2>2, <2>3 DEF FileBefore
<1>12. at \in DOMAIN files => at \in DOMAIN fs
    BY <1>1, <1>7
<1>13. Suffix(files, fs2, at)
    BY <1>1, <1>10, <1>12 DEF Suffix
<1>14. LastFile(fs2, at)
    BY <1>10, <1>11 DEF LastFile
<1>15. FilesOk(fs2)
    <2>1. DOMAIN fs2 \subseteq Nat \X Nat /\ \A f \in DOMAIN fs2 : f[1] <= today
        BY <1>1, <1>2, <1>7, <1>10
    <2>2. \A f \in DOMAIN fs2 : f[2] <= b + h
        BY <1>2, <1>3, <1>1, <1>7, <1>10
    <2>3. b + h \in Nat
        OBVIOUS
    <2> QED
        BY <1>13, <2>1, <2>2, <2>3, FilesStayOk
<1>16. Len(fs2[at]) = SizeOf(fs, at)
    BY <1>10 DEF SizeOf
<1>17. \A f \in DOMAIN fs2 : Len(fs2[f]) <= MaxFileSize
    <2>1. \A f \in DOMAIN fs : Len(fs2[f]) <= MaxFileSize
        BY <1>1, <1>10
    <2>2. MaxFileSize \in Nat
        BY KsudLogAssumption
    <2>3. Len(fs2[at]) <= MaxFileSize
        BY <1>9, <1>16, <2>2
    <2> QED
        BY <1>10, <2>1, <2>3
<1>18. SizeOf(fs, at) <= SizeOf(fs, at)
    BY <1>9
<1> QED
    BY <1>8, <1>9, <1>13, <1>14, <1>15, <1>16, <1>17, <1>18 DEF WriterReady

LEMMA Rotates ==
    ASSUME LogTypes, WriterInv, NEW d \in Daemons, sulog_fd = d
    PROVE  WriterReady(files, rotate_if_needed(d))
<1> DEFINE w == daemon[d]
           next == <<w.at[1], w.at[2] + 1>>
<1>1. w \in DaemonType /\ w.at \in Nat \X Nat /\ w.size \in Nat
    BY DEF LogTypes, DaemonType
<1>2. LastFile(files, w.at) /\ Len(files[w.at]) <= w.size /\ FilesOk(files) /\ today \in Nat
      /\ \A f \in DOMAIN files : Len(files[f]) <= MaxFileSize
    BY DEF LogTypes, WriterInv
<1>3. DOMAIN files \subseteq Nat \X Nat /\ \A f \in DOMAIN files : f[1] <= today /\ Len(files[f]) \in Nat
    BY <1>2 DEF FilesOk
<1>4. MaxFileSize \in Nat /\ MaxFileSize > 0
    BY KsudLogAssumption
<1>5. CASE w.at[1] # today
    <2>1. rotate_if_needed(d) = OpenWriter(files)
        BY <1>5 DEF rotate_if_needed
    <2> QED
        BY <1>2, <2>1, OpensLast
<1>6. CASE w.at[1] = today /\ w.size > 0 /\ w.size + 1 > MaxFileSize
    <2>1. rotate_if_needed(d) = [files |-> Opened(files, next), at |-> next, size |-> 0]
        BY <1>6 DEF rotate_if_needed
    <2>2. next \in Nat \X Nat /\ next[1] = today /\ next[2] = w.at[2] + 1
        BY <1>1, <1>6
    <2> HIDE DEF next
    <2>3. \A f \in DOMAIN files : f = w.at \/ FileBefore(f, w.at)
        BY <1>2 DEF LastFile
    <2>4. \A f \in DOMAIN files : FileBefore(f, next)
        BY <1>1, <1>3, <1>6, <2>2, <2>3 DEF FileBefore
    <2>5. next \notin DOMAIN files
        BY <2>2, <2>4, FileOrder
    <2> DEFINE fs2 == Opened(files, next)
    <2>6. /\ DOMAIN fs2 = DOMAIN files \cup {next} /\ \A g \in DOMAIN files : fs2[g] = files[g]
          /\ fs2[next] = <<>>
        BY <2>5, OpenedIs
    <2> HIDE DEF fs2
    <2>7. Suffix(files, fs2, next)
        <3>1. \A g \in DOMAIN files : g \in DOMAIN fs2
            BY <2>6
        <3> QED
            BY <2>5, <2>6, <3>1 DEF Suffix
    <2>8. LastFile(fs2, next)
        BY <2>4, <2>6 DEF LastFile
    <2>9. FilesOk(fs2)
        <3>1. PICK b \in Nat : \A f \in DOMAIN files : f[2] <= b
            BY <1>2 DEF FilesOk
        <3>2. DOMAIN fs2 \subseteq Nat \X Nat /\ \A f \in DOMAIN fs2 : f[1] <= today
            BY <1>2, <1>3, <2>2, <2>6
        <3>3. next[2] \in Nat
            BY <2>2
        <3>4. b + next[2] \in Nat /\ next[2] <= b + next[2] /\ \A x \in Nat : x <= b => x <= b + next[2]
            BY <3>3
        <3>5. \A f \in DOMAIN files : f[2] \in Nat
            BY <1>3
        <3>6. \A f \in DOMAIN fs2 : f[2] <= b + next[2]
            BY <2>6, <3>1, <3>4, <3>5
        <3> QED
            BY <1>2, <2>7, <3>2, <3>4, <3>6, FilesStayOk
    <2>10. Len(fs2[next]) = 0 /\ \A f \in DOMAIN fs2 : Len(fs2[f]) <= MaxFileSize
        BY <1>2, <1>4, <2>6
    <2>11. /\ rotate_if_needed(d).files = fs2 /\ rotate_if_needed(d).at = next
           /\ rotate_if_needed(d).size = 0
        BY <2>1 DEF fs2
    <2> QED
        BY <1>4, <2>7, <2>8, <2>9, <2>10, <2>11 DEF WriterReady
<1>7. CASE w.at[1] = today /\ ~(w.size > 0 /\ w.size + 1 > MaxFileSize)
    <2>1. rotate_if_needed(d) = [files |-> files, at |-> w.at, size |-> w.size]
        BY <1>7 DEF rotate_if_needed
    <2>2. w.size < MaxFileSize
        BY <1>1, <1>4, <1>7
    <2>3. Suffix(files, files, w.at)
        BY DEF Suffix
    <2> QED
        BY <1>1, <1>2, <2>1, <2>2, <2>3 DEF WriterReady
<1> QED
    BY <1>5, <1>6, <1>7

LEMMA Writes ==
    ASSUME LogTypes, WriterInv, NEW d \in Daemons, sulog_fd = d, NEW line \in LineType, line.kind # "glued",
           line.kind = "event" => \E s \in Nat : line.set = {s},
           NEW next, write_log_line(d, line, next)
    PROVE  \E at \in Nat \X Nat, length \in Nat :
              /\ FilesOk(files') /\ LastFile(files', at) /\ Len(files'[at]) <= length + 1
              /\ \A f \in DOMAIN files' : Len(files'[f]) <= MaxFileSize
              /\ daemon' = [daemon EXCEPT ![d] = [next EXCEPT !.at = at, !.size = length + 1]]
              /\ \E n : Extends(files, files', n, line)
<1> DEFINE wr == rotate_if_needed(d)
           fs == wr.files
           at == wr.at
           fs2 == [fs EXCEPT ![at] = Appended(@, line)]
<1>1. WriterReady(files, wr)
    BY Rotates
<1>2. files' = fs2 /\ daemon' = [daemon EXCEPT ![d] = [next EXCEPT !.at = at, !.size = wr.size + 1]]
    BY DEF write_log_line
<1> HIDE DEF wr
<1>3. FilesOk(fs) /\ LastFile(fs, at) /\ Suffix(files, fs, at) /\ wr.size \in Nat /\ wr.size < MaxFileSize
      /\ Len(fs[at]) <= wr.size /\ \A f \in DOMAIN fs : Len(fs[f]) <= MaxFileSize
    BY <1>1 DEF WriterReady
<1>4. at \in DOMAIN fs /\ at \in Nat \X Nat /\ Len(fs[at]) \in Nat
    BY <1>3 DEF LastFile, FilesOk
<1> HIDE DEF fs, at
<1>5. /\ Extends(fs, fs2, <<at, Len(fs2[at])>>, line)
      /\ FilesOk(fs2) /\ LastFile(fs2, at) /\ DOMAIN fs2 = DOMAIN fs
      /\ Len(fs2[at]) <= Len(fs[at]) + 1 /\ \A f \in DOMAIN fs : f # at => fs2[f] = fs[f]
    BY <1>3, Appends
<1> HIDE DEF fs2
<1>6. Extends(files, fs2, <<at, Len(fs2[at])>>, line)
    BY <1>3, <1>4, <1>5, SuffixExtends
<1>7. Len(fs2[at]) \in Nat
    BY <1>5, <1>4 DEF FilesOk
<1>8. Len(fs2[at]) <= wr.size + 1 /\ Len(fs2[at]) <= MaxFileSize
    <2>1. MaxFileSize \in Nat
        BY KsudLogAssumption
    <2> QED
        BY <1>3, <1>4, <1>5, <1>7, <2>1
<1>9. \A f \in DOMAIN fs2 : Len(fs2[f]) <= MaxFileSize
    BY <1>3, <1>5, <1>8
<1>10. /\ FilesOk(files') /\ LastFile(files', at) /\ Len(files'[at]) <= wr.size + 1
       /\ \A f \in DOMAIN files' : Len(files'[f]) <= MaxFileSize
       /\ \E n : Extends(files, files', n, line)
    BY <1>2, <1>5, <1>6, <1>8, <1>9
<1> QED
    BY <1>2, <1>3, <1>4, <1>10

-----------------------------------------------------------------------------
(* The way of an event from the queue to the files.                        *)

LEMMA EmptyBuf == Numbers(<<>>) = {} /\ Reports(<<>>) = {} /\ BufOk(<<>>) /\ <<>> \in Seq(LineType)
<1>1. DOMAIN <<>> = {}
    OBVIOUS
<1> QED
    BY <1>1 DEF Numbers, Reports, BufOk, Range

LEMMA ReportsOf ==
    ASSUME NEW buf
    PROVE  /\ \A i \in DOMAIN buf : buf[i].kind = "dropped" => buf[i].set \subseteq Reports(buf)
           /\ \A x \in Reports(buf) : \E i \in DOMAIN buf : buf[i].kind = "dropped" /\ x \in buf[i].set
BY DEF Reports, Range

LEMMA NumbersOf ==
    ASSUME NEW buf
    PROVE  /\ \A i \in DOMAIN buf : buf[i].kind = "event" => Number(buf[i]) \in Numbers(buf)
           /\ \A x \in Numbers(buf) : \E i \in DOMAIN buf : buf[i].kind = "event" /\ x = Number(buf[i])
BY DEF Numbers

LEMMA NumbersNat ==
    ASSUME NEW buf, BufOk(buf)
    PROVE  Numbers(buf) \subseteq Nat
<1> SUFFICES ASSUME NEW i \in DOMAIN buf, buf[i].kind = "event"
             PROVE  Number(buf[i]) \in Nat
    BY NumbersOf
<1>1. PICK s \in Nat : buf[i].set = {s}
    BY DEF BufOk
<1> QED
    BY <1>1, NumberIs

\* The first record of the buffer is written.
LEMMA Takes ==
    ASSUME NEW buf \in Seq(LineType), buf # <<>>, BufOk(buf)
    PROVE  /\ Head(buf) \in LineType /\ Tail(buf) \in Seq(LineType) /\ BufOk(Tail(buf))
           /\ Reports(Tail(buf)) = {}
           /\ \/ /\ Head(buf).kind = "event" /\ \E s \in Nat : Head(buf).set = {s}
                 /\ Numbers(buf) = Numbers(Tail(buf)) \cup {Number(Head(buf))} /\ Reports(buf) = {}
                 /\ \A x \in Numbers(Tail(buf)) : Number(Head(buf)) < x
              \/ /\ Head(buf).kind = "dropped"
                 /\ Numbers(buf) = Numbers(Tail(buf)) /\ Reports(buf) = Head(buf).set
<1> DEFINE hd == Head(buf)
           tl == Tail(buf)
<1>1. hd \in LineType /\ hd = buf[1] /\ 1 \in DOMAIN buf /\ tl \in Seq(LineType)
    OBVIOUS
<1>2. Len(buf) \in Nat /\ Len(buf) >= 1 /\ Len(tl) = Len(buf) - 1
    OBVIOUS
<1>3. DOMAIN buf = 1..Len(buf) /\ DOMAIN tl = 1..Len(tl)
    BY <1>1
<1>4. \A i \in 1..(Len(buf) - 1) : tl[i] = buf[i + 1]
    OBVIOUS
<1> HIDE DEF hd, tl
<1>a. \A i \in DOMAIN buf : i \in Nat /\ i >= 1
    BY <1>2, <1>3
<1>5. \A i \in DOMAIN tl : i \in Nat /\ i + 1 \in DOMAIN buf /\ i + 1 # 1 /\ tl[i] = buf[i + 1]
    BY <1>2, <1>3, <1>4
<1>6. \A i \in DOMAIN buf : i = 1 \/ \E j \in DOMAIN tl : i = j + 1
    <2> SUFFICES ASSUME NEW i \in DOMAIN buf, i # 1
                 PROVE  i - 1 \in DOMAIN tl /\ i = (i - 1) + 1
        OBVIOUS
    <2> QED
        BY <1>2, <1>3
<1>7. \A i \in DOMAIN tl : tl[i].kind = "event" /\ \E s \in Nat : tl[i].set = {s}
    BY <1>5 DEF BufOk
<1>8. BufOk(tl)
    <2>1. \A i, j \in DOMAIN tl : i < j => i + 1 < j + 1
        BY <1>5
    <2>2. \A i, j \in DOMAIN tl : i < j => Number(tl[i]) < Number(tl[j])
        BY <1>5, <1>7, <2>1 DEF BufOk
    <2> QED
        BY <1>7, <2>2 DEF BufOk
<1>9. Reports(tl) = {}
    BY <1>7, ReportsOf
<1>10. \A i \in DOMAIN buf : i # 1 => buf[i].kind = "event"
    BY <1>5, <1>6, <1>7
<1>11. Numbers(tl) \subseteq Numbers(buf)
    BY <1>5, NumbersOf
<1>12. \A x \in Numbers(buf) : x \in Numbers(tl) \/ (hd.kind = "event" /\ x = Number(hd))
    BY <1>1, <1>5, <1>6, NumbersOf
<1>13. CASE hd.kind = "event"
    <2>1. Numbers(buf) = Numbers(tl) \cup {Number(hd)}
        BY <1>1, <1>11, <1>12, <1>13, NumbersOf
    <2>2. Reports(buf) = {}
        BY <1>1, <1>10, <1>13, ReportsOf
    <2>3. \A j \in DOMAIN tl : 1 < j + 1
        BY <1>2, <1>3
    <2>4. \A j \in DOMAIN tl : Number(hd) < Number(tl[j])
        BY <1>1, <1>5, <1>13, <2>3 DEF BufOk
    <2>5. \A x \in Numbers(tl) : Number(hd) < x
        BY <2>4, NumbersOf
    <2>6. \E s \in Nat : hd.set = {s}
        BY <1>1, <1>13 DEF BufOk
    <2> QED
        BY <1>1, <1>8, <1>9, <1>13, <2>1, <2>2, <2>5, <2>6 DEF hd, tl
<1>14. CASE hd.kind # "event"
    <2>1. hd.kind = "dropped"
        BY <1>1, <1>14 DEF BufOk
    <2>2. Numbers(buf) = Numbers(tl)
        BY <1>11, <1>12, <1>14
    <2>3. Reports(buf) = hd.set
        BY <1>1, <1>10, <2>1, ReportsOf
    <2> QED
        BY <1>1, <1>8, <1>9, <2>1, <2>2, <2>3 DEF hd, tl
<1> QED
    BY <1>13, <1>14

LEMMA ConcatIs ==
    ASSUME NEW T, NEW s \in Seq(T), NEW t \in Seq(T)
    PROVE  Len(s \o t) = Len(s) + Len(t) /\ \A i \in 1..(Len(s) + Len(t)) :
              (s \o t)[i] = IF i <= Len(s) THEN s[i] ELSE t[i - Len(s)]
OBVIOUS

LEMMA RestIs ==
    ASSUME NEW T, NEW s \in Seq(T), NEW k \in Nat, k <= Len(s)
    PROVE  /\ SubSeq(s, k + 1, Len(s)) \in Seq(T) /\ Len(SubSeq(s, k + 1, Len(s))) = Len(s) - k
           /\ \A i \in 1..(Len(s) - k) : SubSeq(s, k + 1, Len(s))[i] = s[k + i]
<1>1. Len(s) \in Nat
    OBVIOUS
<1>2. \A i \in (k + 1)..Len(s) : i \in 1..Len(s)
    BY <1>1
<1>3. SubSeq(s, k + 1, Len(s)) \in Seq(T)
    BY <1>2
<1>4. Len(SubSeq(s, k + 1, Len(s))) = Len(s) - k
    BY <1>1
<1>5. \A i \in 1..(Len(s) - k) : i \in 1..(Len(s) - (k + 1) + 1) /\ (k + 1) + i - 1 = k + i
    BY <1>1
<1>6. \A i \in 1..(Len(s) - (k + 1) + 1) : SubSeq(s, k + 1, Len(s))[i] = s[(k + 1) + i - 1]
    BY <1>1
<1> QED
    BY <1>3, <1>4, <1>5, <1>6

\* A read takes the report and the first events out of the kernel.
LEMMA Reads ==
    ASSUME NEW q \in Seq(Nat), \A i, j \in DOMAIN q : i < j => q[i] < q[j],
           NEW dr \in SUBSET Nat, q # <<>> \/ dr # {}
    PROVE  LET records == (IF dr = {} THEN <<>> ELSE <<Line("dropped", dr)>>)
                          \o [i \in DOMAIN q |-> Line("event", {q[i]})]
               n == IF Len(records) < ReadLimit THEN Len(records) ELSE ReadLimit
               taken == IF dr = {} THEN n ELSE n - 1
               buf == SubSeq(records, 1, n)
               rest == SubSeq(q, taken + 1, Len(q))
               others == {rest[i] : i \in DOMAIN rest}
           IN  /\ buf \in Seq(LineType) /\ buf # <<>> /\ BufOk(buf) /\ Reports(buf) = dr
               /\ rest \in Seq(Nat) /\ \A i, j \in DOMAIN rest : i < j => rest[i] < rest[j]
               /\ Numbers(buf) \cup others = {q[i] : i \in DOMAIN q}
               /\ \A a \in Numbers(buf), b \in others : a < b
<1> DEFINE head == IF dr = {} THEN <<>> ELSE <<Line("dropped", dr)>>
           lines == [i \in DOMAIN q |-> Line("event", {q[i]})]
           records == head \o lines
           n == IF Len(records) < ReadLimit THEN Len(records) ELSE ReadLimit
           taken == IF dr = {} THEN n ELSE n - 1
           buf == SubSeq(records, 1, n)
           rest == SubSeq(q, taken + 1, Len(q))
           others == {rest[i] : i \in DOMAIN rest}
           first == IF dr = {} THEN 0 ELSE 1
           len == Len(q)
<1>1. len \in Nat /\ DOMAIN q = 1..len /\ \A i \in 1..len : q[i] \in Nat
    OBVIOUS
<1>2. q = <<>> => len = 0
    OBVIOUS
<1>3. len = 0 => q = <<>>
    OBVIOUS
<1>4. Line("dropped", dr) \in LineType /\ \A s \in Nat : Line("event", {s}) \in LineType
    BY DEF Line, LineType, LineKinds
<1>5. head \in Seq(LineType) /\ Len(head) = first /\ (first = 1 => head[1] = Line("dropped", dr))
    BY <1>4
<1>6. lines \in Seq(LineType) /\ Len(lines) = len /\ \A i \in 1..len : lines[i] = Line("event", {q[i]})
    <2>1. DOMAIN lines = 1..len /\ \A i \in 1..len : lines[i] = Line("event", {q[i]})
        BY <1>1
    <2>2. lines \in [1..len -> LineType]
        BY <1>1, <1>4
    <2>3. lines \in Seq(LineType)
        BY <1>1, <2>2
    <2> HIDE DEF lines
    <2>4. Len(lines) \in Nat /\ DOMAIN lines = 1..Len(lines)
        BY <2>3
    <2>5. Len(lines) = len
        BY <1>1, <2>1, <2>4
    <2> QED
        BY <2>1, <2>3, <2>5
<1> HIDE DEF head, lines
<1>7. first \in {0, 1} /\ (first = 1 <=> dr # {})
    <2>1. CASE dr = {}
        <3>1. first = 0
            BY <2>1
        <3> HIDE DEF first
        <3> QED
            BY <2>1, <3>1
    <2>2. CASE dr # {}
        <3>1. first = 1
            BY <2>2
        <3> HIDE DEF first
        <3> QED
            BY <2>2, <3>1
    <2> QED
        BY <2>1, <2>2
<1>8. records \in Seq(LineType)
    BY <1>5, <1>6
<1>9. Len(records) = first + len /\ \A i \in 1..(first + len) :
          records[i] = IF i <= first THEN head[i] ELSE lines[i - first]
    <2>1. Len(records) = Len(head) + Len(lines) /\ \A i \in 1..(Len(head) + Len(lines)) :
             records[i] = IF i <= Len(head) THEN head[i] ELSE lines[i - Len(head)]
        BY <1>5, <1>6, ConcatIs DEF records
    <2> QED
        BY <1>5, <1>6, <2>1
<1> HIDE DEF records
<1>10. ReadLimit \in Nat /\ ReadLimit >= 1
    BY KsudLogAssumption
<1>a. taken = n - first
    <2>1. n \in Nat
        BY <1>1, <1>7, <1>9, <1>10
    <2> HIDE DEF n
    <2> QED
        BY <2>1
<1> HIDE DEF first, len
<1>11. len # 0 \/ first = 1
    BY <1>1, <1>3, <1>7
<1>12. n \in Nat /\ n >= 1 /\ n >= first /\ n <= first + len
    BY <1>1, <1>7, <1>9, <1>10, <1>11
<1> HIDE DEF n, taken
<1>13. taken \in Nat /\ n = taken + first /\ taken <= len
    BY <1>1, <1>7, <1>12, <1>a
<1>14. buf \in Seq(LineType) /\ Len(buf) = n /\ DOMAIN buf = 1..n /\ \A i \in 1..n : buf[i] = records[i]
    <2>1. n <= Len(records)
        BY <1>9, <1>12
    <2>2. \A i \in 1..n : i \in 1..Len(records)
        BY <1>1, <1>7, <1>9, <1>12
    <2>3. buf \in Seq(LineType)
        BY <1>8, <1>12, <2>2
    <2>4. Len(buf) = n /\ \A i \in 1..n : buf[i] = records[i]
        BY <1>8, <1>12, <2>1
    <2> HIDE DEF buf
    <2> QED
        BY <2>3, <2>4
<1>15. rest \in Seq(Nat) /\ DOMAIN rest = 1..(len - taken) /\ \A i \in 1..(len - taken) : rest[i] = q[taken + i]
    <2>1. len = Len(q) /\ taken <= Len(q)
        BY <1>13 DEF len
    <2>2. rest \in Seq(Nat)
        BY <1>13, <2>1, RestIs
    <2>3. Len(rest) = len - taken /\ \A i \in 1..(len - taken) : rest[i] = q[taken + i]
        BY <1>13, <2>1, RestIs
    <2> HIDE DEF rest
    <2> QED
        BY <2>2, <2>3
<1> HIDE DEF buf, rest
<1>16. buf # <<>>
    BY <1>12, <1>14
<1>17. \A i \in 1..n : (i <= first /\ i = 1 /\ first = 1) \/ (i - first \in 1..taken /\ first < i)
    BY <1>7, <1>13
<1>18. ASSUME NEW i \in 1..n, i <= first, i = 1, first = 1
       PROVE  buf[i] = Line("dropped", dr)
    <2>1. i \in 1..(first + len)
        BY <1>1, <1>18
    <2>2. records[i] = head[i]
        BY <1>9, <1>18, <2>1
    <2> QED
        BY <1>5, <1>14, <1>18, <2>2
<1>19. ASSUME NEW i \in 1..n, i - first \in 1..taken, first < i
       PROVE  buf[i] = Line("event", {q[i - first]}) /\ q[i - first] \in Nat
    <2>1. i - first \in 1..len /\ i \in 1..(first + len) /\ ~(i <= first)
        BY <1>1, <1>7, <1>13, <1>19
    <2> QED
        BY <1>1, <1>6, <1>9, <1>14, <2>1
<1>20. /\ \A i \in 1..n : i <= first => i = 1 /\ first = 1 /\ buf[i].kind = "dropped" /\ buf[i].set = dr
       /\ \A i \in 1..n : first < i => /\ i - first \in 1..taken /\ buf[i].kind = "event"
                                     /\ q[i - first] \in Nat /\ buf[i].set = {q[i - first]}
       /\ \A i \in 1..n : i <= first \/ first < i
    <2>1. \A i \in 1..n : i <= first => i = 1 /\ first = 1
        BY <1>7, <1>17
    <2>2. \A i \in 1..n : first < i => i - first \in 1..taken
        BY <1>7, <1>17
    <2>3. \A i \in 1..n : i <= first \/ first < i
        BY <1>7
    <2>4. \A i \in 1..n : i <= first => buf[i] = Line("dropped", dr)
        BY <1>18, <2>1
    <2>5. \A i \in 1..n : first < i => buf[i] = Line("event", {q[i - first]}) /\ q[i - first] \in Nat
        BY <1>19, <2>2
    <2>6. Line("dropped", dr).kind = "dropped" /\ Line("dropped", dr).set = dr
        BY DEF Line
    <2>7. \A x \in Nat : Line("event", {x}).kind = "event" /\ Line("event", {x}).set = {x}
        BY DEF Line
    <2>8. \A i \in 1..n : i <= first => i = 1 /\ first = 1 /\ buf[i].kind = "dropped" /\ buf[i].set = dr
        BY <2>1, <2>4, <2>6
    <2>9. \A i \in 1..n : first < i => /\ i - first \in 1..taken /\ buf[i].kind = "event"
                                     /\ q[i - first] \in Nat /\ buf[i].set = {q[i - first]}
        <3> SUFFICES ASSUME NEW i \in 1..n, first < i
                     PROVE  /\ i - first \in 1..taken /\ buf[i].kind = "event"
                            /\ q[i - first] \in Nat /\ buf[i].set = {q[i - first]}
            OBVIOUS
        <3>1. i - first \in 1..taken /\ buf[i] = Line("event", {q[i - first]}) /\ q[i - first] \in Nat
            BY <2>2, <2>5
        <3> DEFINE x == q[i - first]
        <3> HIDE DEF x
        <3>2. buf[i] = Line("event", {x}) /\ x \in Nat
            BY <3>1 DEF x
        <3>3. buf[i].kind = "event" /\ buf[i].set = {x}
            BY <2>7, <3>2
        <3> QED
            BY <3>1, <3>3 DEF x
    <2> QED
        BY <2>3, <2>8, <2>9
<1>21. \A i \in 1..n : first < i => Number(buf[i]) = q[i - first]
    <2> SUFFICES ASSUME NEW i \in 1..n, first < i
                 PROVE  Number(buf[i]) = q[i - first]
        OBVIOUS
    <2>1. buf[i].set = {q[i - first]}
        BY <1>20
    <2> QED
        BY <2>1, NumberIs
<1>22. BufOk(buf)
    <2>1. \A i \in DOMAIN buf : \/ buf[i].kind = "event" /\ \E s \in Nat : buf[i].set = {s}
                                \/ buf[i].kind = "dropped" /\ i = 1
        BY <1>14, <1>20
    <2>2. ASSUME NEW i \in 1..n, NEW j \in 1..n, i < j, buf[i].kind = "event"
          PROVE  Number(buf[i]) < Number(buf[j])
        <3>1. first < i
            BY <1>20, <2>2
        <3>2. first < j /\ i - first < j - first
            BY <1>7, <2>2, <3>1
        <3>3. i - first \in 1..len /\ j - first \in 1..len
            BY <1>1, <1>13, <1>20, <3>1, <3>2
        <3> QED
            BY <1>1, <1>21, <3>1, <3>2, <3>3
    <2> QED
        BY <1>14, <2>1, <2>2 DEF BufOk
<1>23. Reports(buf) = dr
    <2>1. CASE first = 1
        <3>1. 1 \in DOMAIN buf /\ 1 <= first
            BY <1>12, <1>14, <2>1
        <3>2. buf[1].kind = "dropped" /\ buf[1].set = dr
            BY <1>14, <1>20, <3>1
        <3>3. \A i \in DOMAIN buf : buf[i].kind = "dropped" => i <= first
            BY <1>14, <1>20
        <3>4. \A i \in DOMAIN buf : buf[i].kind = "dropped" => buf[i].set = dr
            BY <1>14, <1>20, <3>3
        <3> HIDE DEF first
        <3>5. dr \subseteq Reports(buf)
            BY <3>1, <3>2, ReportsOf
        <3>6. \A x \in Reports(buf) : x \in dr
            BY <3>4, ReportsOf
        <3> QED
            BY <3>5, <3>6
    <2>2. CASE first = 0
        <3>1. dr = {}
            BY <1>7, <2>2
        <3>2. \A i \in DOMAIN buf : buf[i].kind = "event"
            BY <1>14, <1>20, <2>2
        <3> QED
            BY <3>1, <3>2, ReportsOf
    <2> QED
        BY <1>7, <2>1, <2>2
<1>24. \A i, j \in DOMAIN rest : i < j => rest[i] < rest[j]
    <2> SUFFICES ASSUME NEW i \in 1..(len - taken), NEW j \in 1..(len - taken), i < j
                 PROVE  rest[i] < rest[j]
        BY <1>15
    <2>1. taken + i \in 1..len /\ taken + j \in 1..len /\ taken + i < taken + j
        BY <1>1, <1>13
    <2> QED
        BY <1>1, <1>15, <2>1
<1>25. \A x \in Numbers(buf) : \E k \in 1..taken : x = q[k]
    BY <1>14, <1>20, <1>21, NumbersOf
<1>26. \A k \in 1..taken : q[k] \in Numbers(buf)
    <2> SUFFICES ASSUME NEW k \in 1..taken
                 PROVE  q[k] \in Numbers(buf)
        OBVIOUS
    <2>1. k + first \in 1..n /\ first < k + first /\ (k + first) - first = k
        BY <1>7, <1>13
    <2> QED
        BY <1>14, <1>20, <1>21, <2>1, NumbersOf
<1>27. others = {q[k] : k \in (taken + 1)..len}
    <2>1. \A i \in 1..(len - taken) : taken + i \in (taken + 1)..len
        BY <1>1, <1>13
    <2>2. \A k \in (taken + 1)..len : k - taken \in 1..(len - taken) /\ taken + (k - taken) = k
        BY <1>1, <1>13
    <2> QED
        BY <1>15, <2>1, <2>2
<1> HIDE DEF others
<1>28. \A k \in 1..len : k \in 1..taken \/ k \in (taken + 1)..len
    BY <1>1, <1>13
<1>29. (\A k \in 1..taken : k \in 1..len) /\ (\A k \in (taken + 1)..len : k \in 1..len)
    BY <1>1, <1>13
<1>30. Numbers(buf) \cup others = {q[i] : i \in DOMAIN q}
    BY <1>1, <1>25, <1>26, <1>27, <1>28, <1>29
<1>31. \A a \in Numbers(buf), b \in others : a < b
    <2>1. \A k \in 1..taken, m \in (taken + 1)..len : k < m
        BY <1>1, <1>13
    <2> QED
        BY <1>1, <1>25, <1>27, <1>29, <2>1
<1> QED
    BY <1>14, <1>15, <1>16, <1>22, <1>23, <1>24, <1>30, <1>31
       DEF head, lines, records, n, taken, buf, rest, others

LEMMA BufIs ==
    ASSUME LogTypes
    PROVE  /\ Nobody \notin Daemons /\ Buf \in Seq(LineType) /\ (sulog_fd = Nobody => Buf = <<>>)
           /\ \A d \in Daemons : IF sulog_fd = d THEN Buf = daemon[d].buf ELSE daemon[d].buf = <<>>
           /\ DroppedInBuf \subseteq Nat
<1>1. Nobody \notin Daemons
    BY KsudLogAssumption DEF Nobody
<1>2. \A d \in Daemons : daemon[d].buf \in Seq(LineType)
    BY DEF LogTypes, DaemonType
<1>3. Buf \in Seq(LineType) /\ (sulog_fd = Nobody => Buf = <<>>)
    BY <1>1, <1>2 DEF Buf
<1>4. \A d \in Daemons : IF sulog_fd = d THEN Buf = daemon[d].buf ELSE daemon[d].buf = <<>>
    BY DEF LogTypes, Buf
<1>5. \A i \in DOMAIN Buf : Buf[i] \in LineType
    BY <1>3
<1>6. DroppedInBuf \subseteq Nat
    BY <1>5, ReportsOf DEF DroppedInBuf, LineType
<1> QED
    BY <1>1, <1>3, <1>4, <1>6

\* What the steps that write no record leave as it was, but for reports that
\* are gone with a session.
FlowSame == Buf' = Buf /\ queue' = queue /\ dropped' = dropped /\ seq' = seq /\ reported' = reported

LEMMA FlowStays ==
    ASSUME FlowInv, FlowSame, unsaid \subseteq unsaid'
    PROVE  FlowInv' /\ Ahead' = Ahead /\ Said \subseteq Said'
<1>1. InBuf' = InBuf /\ DroppedInBuf' = DroppedInBuf
    BY DEF InBuf, DroppedInBuf, FlowSame
<1>2. InQueue' = InQueue
    BY DEF InQueue, FlowSame
<1>3. Ahead' = Ahead /\ Said \subseteq Said'
    BY <1>1, <1>2 DEF Ahead, Said, FlowSame
<1> QED
    BY <1>1, <1>2, <1>3 DEF FlowInv, FlowSame

\* The buffer is gone with its session, which says what was dropped.
LEMMA BufGone ==
    ASSUME LogTypes, FlowInv, Buf' = <<>>, queue' = queue, dropped' = dropped, seq' = seq, reported' = reported,
           unsaid' = unsaid \cup DroppedInBuf
    PROVE  FlowInv' /\ Ahead' \subseteq Ahead
<1>1. InBuf' = {} /\ DroppedInBuf' = {} /\ BufOk(Buf')
    BY EmptyBuf DEF InBuf, DroppedInBuf
<1>2. InQueue' = InQueue
    BY DEF InQueue
<1>3. Ahead' = InQueue /\ Said' = Said
    BY <1>1, <1>2 DEF Ahead, Said
<1>4. InBuf \subseteq Nat /\ InQueue \subseteq Nat
    BY NumbersNat DEF FlowInv, InBuf, InQueue, LogTypes
<1>5. \A a \in InQueue, s \in InBuf : ~(a < s)
    BY <1>4 DEF FlowInv
<1>6. \A a \in InQueue, s \in Nat : a < s /\ s <= seq => s \in InQueue \cup Said
    BY <1>5 DEF FlowInv, Ahead
<1>7. BufOk(Buf)'
    BY <1>1 DEF BufOk
<1> QED
    BY <1>1, <1>2, <1>3, <1>6, <1>7 DEF FlowInv, Ahead

LEMMA QueueGone ==
    ASSUME Buf' = <<>>, queue' = <<>>, dropped' = {}
    PROVE  FlowInv' /\ Ahead' = {}
<1>1. InBuf' = {} /\ DroppedInBuf' = {} /\ BufOk(Buf')
    BY EmptyBuf DEF InBuf, DroppedInBuf
<1>2. DOMAIN queue' = {}
    OBVIOUS
<1>3. InQueue' = {}
    BY <1>2 DEF InQueue
<1>4. Ahead' = {}
    BY <1>1, <1>3 DEF Ahead
<1>5. BufOk(Buf)'
    BY <1>1 DEF BufOk
<1> QED
    BY <1>1, <1>2, <1>3, <1>4, <1>5 DEF FlowInv

LEMMA AheadNat ==
    ASSUME LogTypes, FlowInv
    PROVE  Ahead \subseteq Nat /\ InQueue \subseteq Nat /\ InBuf \subseteq Nat /\ seq \in Nat /\ dropped \subseteq Nat
BY NumbersNat DEF FlowInv, InBuf, InQueue, Ahead, LogTypes

\* An event comes in behind all others.
LEMMA FlowEvent ==
    ASSUME LogTypes, FlowInv, Event, Buf' = Buf
    PROVE  /\ FlowInv' /\ seq' = seq + 1 /\ Ahead' \subseteq Ahead \cup {seq'} /\ queue' \in Seq(Nat)
           /\ Ahead \cup Said \cup {seq'} \subseteq Ahead' \cup Said'
<1>1. seq' = seq + 1 /\ reported' = reported /\ unsaid' = unsaid
    BY DEF Event
<1>2. Ahead \subseteq Nat /\ InQueue \subseteq Nat /\ InBuf \subseteq Nat /\ seq \in Nat /\ dropped \subseteq Nat
    BY AheadNat
<1>3. InBuf' = InBuf /\ DroppedInBuf' = DroppedInBuf
    BY DEF InBuf, DroppedInBuf
<1>4. \A a \in Ahead \cup dropped : a \in Nat /\ a <= seq /\ a < seq'
    BY <1>1, <1>2 DEF FlowInv
<1>5. Len(queue) \in Nat /\ queue \in Seq(Nat) /\ QueueLimit \in Nat
    BY KsudLogAssumption DEF LogTypes
<1>6. BufOk(Buf)'
    BY DEF FlowInv, BufOk
<1>7. CASE Len(queue) < QueueLimit
    <2>1. queue' = Append(queue, seq') /\ dropped' = dropped
        BY <1>7 DEF Event
    <2>2. dropped = {}
        BY <1>5, <1>7 DEF FlowInv
    <2>3. seq' \in Nat
        BY <1>1, <1>2
    <2>4. DOMAIN queue = 1..Len(queue) /\ DOMAIN queue' = 1..(Len(queue) + 1)
          /\ queue'[Len(queue) + 1] = seq' /\ \A i \in 1..Len(queue) : queue'[i] = queue[i]
        BY <1>5, <2>1, <2>3
    <2>5. \A i \in 1..(Len(queue) + 1) : i \in 1..Len(queue) \/ i = Len(queue) + 1
        BY <1>5
    <2>6. \A i \in 1..Len(queue) : i \in 1..(Len(queue) + 1)
        BY <1>5
    <2>7. Len(queue) + 1 \in 1..(Len(queue) + 1)
        BY <1>5
    <2>8. InQueue' = InQueue \cup {seq'}
        BY <2>4, <2>5, <2>6, <2>7 DEF InQueue
    <2>9. Ahead' = Ahead \cup {seq'}
        BY <1>3, <2>8 DEF Ahead
    <2>10. \A i, j \in DOMAIN queue' : i < j => queue'[i] < queue'[j]
        <3> SUFFICES ASSUME NEW i \in 1..(Len(queue) + 1), NEW j \in 1..(Len(queue) + 1), i < j
                     PROVE  queue'[i] < queue'[j]
            BY <2>4
        <3>1. i \in 1..Len(queue)
            BY <1>5
        <3>2. queue'[i] = queue[i] /\ queue[i] \in InQueue
            BY <2>4, <3>1 DEF InQueue
        <3>3. CASE j \in 1..Len(queue)
            BY <2>4, <3>1, <3>3 DEF FlowInv
        <3>4. CASE j = Len(queue) + 1
            BY <1>4, <2>4, <3>2, <3>4 DEF Ahead
        <3> QED
            BY <2>5, <3>3, <3>4
    <2>11. \A a \in InBuf, b \in InQueue \cup {seq'} : a < b
        BY <1>4 DEF FlowInv, Ahead
    <2>12. \A a \in Ahead \cup {seq'} : a <= seq'
        BY <1>2, <1>4, <2>3
    <2>13. \A a \in Ahead, s \in Nat : a < s /\ s <= seq => s \in Ahead \cup Said
        BY DEF FlowInv
    <2>14. Said' = Said
        BY <1>1, <1>3, <2>1 DEF Said
    <2>15. \A a \in Ahead \cup {seq'}, s \in Nat : a < s /\ s <= seq' => s \in Ahead \cup {seq'} \cup Said
        <3>1. \A s \in Nat : s <= seq' => s <= seq \/ s = seq'
            BY <1>1, <1>2
        <3>2. \A s \in Nat : ~(seq' < s /\ s <= seq')
            BY <2>3
        <3> QED
            BY <2>13, <3>1, <3>2
    <2>16. queue' \in Seq(Nat)
        BY <1>5, <2>1, <2>3
    <2> QED
        BY <1>1, <1>3, <1>6, <2>1, <2>2, <2>8, <2>9, <2>10, <2>11, <2>12, <2>14, <2>15, <2>16 DEF FlowInv
<1>8. CASE ~(Len(queue) < QueueLimit)
    <2>1. queue' = queue /\ dropped' = dropped \cup {seq'}
        BY <1>8 DEF Event
    <2>2. InQueue' = InQueue /\ Ahead' = Ahead
        BY <1>3, <2>1 DEF InQueue, Ahead
    <2>3. Said' = Said \cup {seq'}
        BY <1>1, <1>3, <2>1 DEF Said
    <2>4. Len(queue') >= QueueLimit
        BY <1>5, <1>8, <2>1
    <2>5. seq' \in Nat /\ \A s \in Nat : s <= seq' => s <= seq \/ s = seq'
        BY <1>1, <1>2
    <2>6. \A a \in Ahead \cup dropped' : a <= seq'
        BY <1>4, <2>1, <2>5
    <2>7. \A s \in dropped' : \A a \in Ahead : a < s
        BY <1>4, <2>1 DEF FlowInv
    <2>8. \A a \in Ahead, s \in Nat : a < s /\ s <= seq' => s \in Ahead \cup Said'
        BY <2>3, <2>5 DEF FlowInv
    <2>9. queue' \in Seq(Nat)
        BY <1>5, <2>1
    <2> QED
        BY <1>1, <1>3, <1>6, <2>1, <2>2, <2>3, <2>4, <2>6, <2>7, <2>8, <2>9 DEF FlowInv
<1> QED
    BY <1>7, <1>8

LEMMA FlowRead ==
    ASSUME LogTypes, FlowInv, NEW d \in Daemons, Read(d)
    PROVE  /\ FlowInv' /\ Ahead' = Ahead /\ Said' = Said /\ queue' \in Seq(Nat)
           /\ daemon'[d].buf \in Seq(LineType) /\ daemon'[d].buf # <<>>
<1> DEFINE records == (IF dropped = {} THEN <<>> ELSE <<Line("dropped", dropped)>>)
                      \o [i \in DOMAIN queue |-> Line("event", {queue[i]})]
           n == IF Len(records) < ReadLimit THEN Len(records) ELSE ReadLimit
           taken == IF dropped = {} THEN n ELSE n - 1
           buf == SubSeq(records, 1, n)
           rest == SubSeq(queue, taken + 1, Len(queue))
           others == {rest[i] : i \in DOMAIN rest}
<1>1. /\ daemon' = [daemon EXCEPT ![d].pc = "write", ![d].buf = buf] /\ queue' = rest /\ dropped' = {}
      /\ daemon[d].pc = "wait" /\ (queue # <<>> \/ dropped # {})
      /\ sulog_fd' = sulog_fd /\ seq' = seq /\ reported' = reported /\ unsaid' = unsaid
    BY DEF Read
<1>2. queue \in Seq(Nat) /\ dropped \in SUBSET Nat /\ \A i, j \in DOMAIN queue : i < j => queue[i] < queue[j]
    BY DEF LogTypes, FlowInv
<1>3. /\ buf \in Seq(LineType) /\ buf # <<>> /\ BufOk(buf) /\ Reports(buf) = dropped
      /\ rest \in Seq(Nat) /\ \A i, j \in DOMAIN rest : i < j => rest[i] < rest[j]
      /\ Numbers(buf) \cup others = {queue[i] : i \in DOMAIN queue}
      /\ \A a \in Numbers(buf), b \in others : a < b
    BY <1>1, <1>2, Reads
<1> HIDE DEF buf, rest
<1>4. sulog_fd = d /\ daemon[d].buf = <<>> /\ Buf = <<>>
    BY <1>1, BufIs DEF LogTypes
<1>5. daemon'[d].buf = buf
    BY <1>1 DEF LogTypes, DaemonType
<1>6. Buf' = buf
    BY <1>1, <1>4, <1>5 DEF Buf
<1>7. InBuf = {} /\ DroppedInBuf = {}
    BY <1>4, EmptyBuf DEF InBuf, DroppedInBuf
<1>8. InBuf' = Numbers(buf) /\ DroppedInBuf' = dropped
    BY <1>3, <1>6 DEF InBuf, DroppedInBuf
<1>9. InQueue' = others
    BY <1>1 DEF InQueue
<1>10. Ahead' = Ahead /\ Said' = Said
    BY <1>1, <1>3, <1>7, <1>8, <1>9 DEF Ahead, Said, InQueue
<1>11. BufOk(Buf)'
    BY <1>3, <1>6 DEF BufOk
<1>12. \A a \in Ahead : a <= seq
    BY DEF FlowInv
<1>13. \A a \in Ahead, s \in Nat : a < s /\ s <= seq => s \in Ahead \cup Said
    BY DEF FlowInv
<1>14. \A a \in InBuf', b \in InQueue' : a < b
    BY <1>3, <1>8, <1>9
<1>15. \A i, j \in DOMAIN queue' : i < j => queue'[i] < queue'[j]
    BY <1>1, <1>3
<1>16. FlowInv'
    BY <1>1, <1>10, <1>11, <1>12, <1>13, <1>14, <1>15 DEF FlowInv
<1> QED
    BY <1>1, <1>3, <1>5, <1>10, <1>16

\* A record is written. When it is an event, no report of the same read is
\* others, and what the kernel dropped comes after all events on their way.
LEMMA FlowWrite ==
    ASSUME LogTypes, FlowInv, Buf # <<>>, Buf' = Tail(Buf),
           queue' = queue, dropped' = dropped, seq' = seq, unsaid' = unsaid,
           reported' = IF Head(Buf).kind = "dropped" THEN reported \cup Head(Buf).set ELSE reported
    PROVE  /\ FlowInv' /\ Head(Buf) \in LineType /\ Head(Buf).kind \in {"event", "dropped"}
           /\ Said' = Said /\ Ahead' \subseteq Ahead
           /\ Head(Buf).kind = "event" =>
                 /\ \E s \in Nat : Head(Buf).set = {s}
                 /\ Number(Head(Buf)) \in Ahead /\ Ahead = Ahead' \cup {Number(Head(Buf))}
                 /\ \A a \in Ahead' : Number(Head(Buf)) < a
                 /\ \A s \in Nat : s < Number(Head(Buf)) => s \notin Ahead \cup dropped
                 /\ DroppedInBuf = {}
           /\ Head(Buf).kind = "dropped" => Ahead' = Ahead
<1> DEFINE hd == Head(Buf)
           tl == Tail(Buf)
<1>1. Buf \in Seq(LineType) /\ BufOk(Buf)
    BY BufIs DEF FlowInv
<1>2. /\ hd \in LineType /\ tl \in Seq(LineType) /\ BufOk(tl) /\ Reports(tl) = {}
      /\ \/ /\ hd.kind = "event" /\ \E s \in Nat : hd.set = {s}
            /\ Numbers(Buf) = Numbers(tl) \cup {Number(hd)} /\ Reports(Buf) = {}
            /\ \A x \in Numbers(tl) : Number(hd) < x
         \/ /\ hd.kind = "dropped"
            /\ Numbers(Buf) = Numbers(tl) /\ Reports(Buf) = hd.set
    BY <1>1, Takes
<1> HIDE DEF hd, tl
<1>3. InBuf' = Numbers(tl) /\ DroppedInBuf' = {} /\ InQueue' = InQueue
    BY <1>2 DEF InBuf, DroppedInBuf, InQueue, tl
<1>4. BufOk(Buf)'
    BY <1>2 DEF BufOk, tl
<1>5. Ahead \subseteq Nat /\ InQueue \subseteq Nat /\ InBuf \subseteq Nat /\ seq \in Nat /\ dropped \subseteq Nat
    BY AheadNat
<1>6. reported' = IF hd.kind = "dropped" THEN reported \cup hd.set ELSE reported
    BY DEF hd
<1>7. CASE hd.kind = "dropped"
    <2>1. InBuf' = InBuf /\ DroppedInBuf = hd.set
        BY <1>2, <1>3, <1>7 DEF InBuf, DroppedInBuf
    <2>2. Ahead' = Ahead
        BY <1>3, <2>1 DEF Ahead
    <2>3. Said' = Said
        BY <1>3, <1>6, <1>7, <2>1 DEF Said
    <2>4. FlowInv'
        BY <1>3, <1>4, <2>1, <2>2, <2>3 DEF FlowInv
    <2> QED
        BY <1>2, <1>7, <2>2, <2>3, <2>4 DEF hd
<1>8. CASE hd.kind # "dropped"
    <2> DEFINE s0 == Number(hd)
    <2>1. hd.kind = "event" /\ (\E s \in Nat : hd.set = {s}) /\ InBuf = InBuf' \cup {s0} /\ DroppedInBuf = {}
          /\ \A x \in InBuf' : s0 < x
        BY <1>2, <1>3, <1>8 DEF InBuf, DroppedInBuf
    <2> HIDE DEF s0
    <2>2. Said' = Said
        BY <1>3, <1>6, <1>8, <2>1 DEF Said
    <2>3. Ahead = Ahead' \cup {s0} /\ s0 \in Ahead /\ s0 \in Nat
        BY <1>3, <1>5, <2>1 DEF Ahead
    <2>4. \A a \in InQueue : s0 < a
        BY <2>1 DEF FlowInv
    <2>5. \A a \in Ahead' : a \in Nat /\ s0 < a
        BY <1>3, <1>5, <2>1, <2>3, <2>4 DEF Ahead
    <2>6. \A s \in dropped : s \in Nat /\ s0 < s
        BY <1>5, <2>3 DEF FlowInv
    <2>7. \A s \in Nat : s < s0 => s \notin Ahead \cup dropped
        BY <2>3, <2>5, <2>6
    <2>8. \A a \in Ahead' : ~(a < s0)
        BY <2>3, <2>5
    <2>9. \A a \in Ahead', s \in Nat : a < s /\ s <= seq => s \in Ahead' \cup Said
        BY <2>3, <2>8 DEF FlowInv
    <2>10. FlowInv'
        BY <1>3, <1>4, <2>1, <2>2, <2>3, <2>9 DEF FlowInv
    <2> QED
        BY <1>2, <2>1, <2>2, <2>3, <2>5, <2>7, <2>10 DEF hd, s0
<1> QED
    BY <1>7, <1>8

-----------------------------------------------------------------------------
(* The log over a step.                                                    *)

LEMMA EventNumbers ==
    ASSUME FilesOk(files)
    PROVE  \A p \in EventLines(files) : Number(LineAt(files, p)) \in Nat
<1> SUFFICES ASSUME NEW p \in EventLines(files)
             PROVE  Number(LineAt(files, p)) \in Nat
    OBVIOUS
<1>1. PICK s \in Nat : LineAt(files, p).set = {s}
    BY DEF FilesOk
<1> QED
    BY <1>1, NumberIs

\* Steps that write nothing, but may take lines away.
LEMMA LogShrinks ==
    ASSUME LogInv, Trims(files, files'), seq' \in Nat, seq <= seq', \A a \in Ahead' : a \in Ahead \/ seq < a,
           reported \subseteq reported', unsaid \subseteq unsaid', Ahead' \subseteq Nat
    PROVE  InOrder(files)' /\ Gapless(files, reported \cup unsaid)' /\ EventsBehind'
<1>1. InOrder(files') /\ Gapless(files', reported \cup unsaid)
    BY TrimsKeeps DEF LogInv
<1>2. Gapless(files', reported' \cup unsaid')
    BY <1>1, MoreTold
<1>3. \A p \in EventLines(files') : p \in EventLines(files) /\ LineAt(files', p) = LineAt(files, p)
    BY DEF Trims, EventLines
<1>4. \A p \in EventLines(files) : Number(LineAt(files, p)) \in Nat
    BY EventNumbers DEF LogInv, LogTypes
<1>5. \A p \in EventLines(files) :
         Number(LineAt(files, p)) <= seq /\ \A a \in Ahead : Number(LineAt(files, p)) < a
    BY DEF LogInv, LogEndInv, EventsBehind
<1>6. seq \in Nat
    BY DEF LogInv, LogTypes
<1>7. \A p \in EventLines(files) : Number(LineAt(files, p)) <= seq' /\ \A a \in Ahead' : Number(LineAt(files, p)) < a
    <2> SUFFICES ASSUME NEW p \in EventLines(files)
                 PROVE  Number(LineAt(files, p)) <= seq' /\ \A a \in Ahead' : Number(LineAt(files, p)) < a
        OBVIOUS
    <2> DEFINE x == Number(LineAt(files, p))
    <2>1. x \in Nat /\ x <= seq /\ \A a \in Ahead : x < a
        BY <1>4, <1>5
    <2> HIDE DEF x
    <2>2. x <= seq' /\ \A a \in Ahead' : x < a
        BY <1>6, <2>1
    <2> QED
        BY <2>2 DEF x
<1>8. EventsBehind'
    BY <1>3, <1>7 DEF EventsBehind
<1>9. InOrder(files)'
    BY <1>1 DEF InOrder, EventLines, Positions, LineAt, LineBefore, FileBefore, Number
<1>10. Gapless(files, reported \cup unsaid)'
    BY <1>2 DEF Gapless, EventLines, Positions, LineAt, LineBefore, FileBefore, Number
<1> QED
    BY <1>8, <1>9, <1>10

LEMMA SameTrims ==
    ASSUME NEW fs
    PROVE  Trims(fs, fs)
BY DEF Trims

\* Steps that leave the files alone.
LEMMA LogStays ==
    ASSUME LogInv, files' = files, seq' \in Nat, seq <= seq', \A a \in Ahead' : a \in Ahead \/ seq < a,
           reported \subseteq reported', unsaid \subseteq unsaid', Ahead' \subseteq Nat,
           Ahead \cup Said \subseteq Ahead' \cup Said', \A s \in Nat : s <= seq' => s <= seq \/ s \in Ahead' \cup Said',
           \A d \in Daemons : Writing(d)' => Writing(d)
    PROVE  InOrder(files)' /\ Gapless(files, reported \cup unsaid)' /\ LogEndInv'
<1>1. InOrder(files)' /\ Gapless(files, reported \cup unsaid)' /\ EventsBehind'
    BY SameTrims, LogShrinks
<1>2. ASSUME NoneMissing
      PROVE  NoneMissing'
    <2>1. \A p \in EventLines(files) : LastEvent(files, p) =>
             \A s \in Nat : Number(LineAt(files, p)) < s /\ s <= seq' => s \in Ahead' \cup Said'
        BY <1>2 DEF NoneMissing
    <2> QED
        BY <2>1 DEF NoneMissing
<1> QED
    BY <1>1, <1>2 DEF LogInv, LogEndInv

\* Steps that write a line.
LEMMA LogGrows ==
    ASSUME LogInv, NEW n, NEW line, Extends(files, files', n, line), seq' = seq, Ahead' \subseteq Ahead,
           reported \subseteq reported', unsaid \subseteq unsaid',
           line.kind = "event" =>
              /\ NoneMissing /\ DroppedInBuf = {} /\ Number(line) \in Ahead
              /\ \A s \in Nat : s < Number(line) => s \notin Ahead \cup dropped
              /\ \A a \in Ahead' : Number(line) < a
    PROVE  InOrder(files)' /\ Gapless(files, reported \cup unsaid)' /\ EventsBehind'
<1>1. \A p \in EventLines(files) : Number(LineAt(files, p)) \in Nat
    BY EventNumbers DEF LogInv, LogTypes
<1>2. \A p \in EventLines(files) :
         Number(LineAt(files, p)) <= seq /\ \A a \in Ahead : Number(LineAt(files, p)) < a
    BY DEF LogInv, LogEndInv, EventsBehind
<1>3. Ahead \subseteq Nat /\ seq \in Nat /\ \A a \in Ahead : a <= seq
    BY AheadNat DEF LogInv, FlowInv
<1>4. ASSUME line.kind = "event", NEW p \in EventLines(files)
      PROVE  /\ Number(LineAt(files, p)) < Number(line)
             /\ LastEvent(files, p) =>
                   \A s \in (Number(LineAt(files, p)) + 1)..(Number(line) - 1) : s \in reported \cup unsaid
    <2>1. Number(LineAt(files, p)) < Number(line)
        BY <1>2, <1>4
    <2>2. ASSUME LastEvent(files, p), NEW s \in (Number(LineAt(files, p)) + 1)..(Number(line) - 1)
          PROVE  s \in reported \cup unsaid
        <3> DEFINE x == Number(LineAt(files, p))
                   y == Number(line)
        <3>1. x \in Nat /\ y \in Nat /\ y <= seq /\ s \in (x + 1)..(y - 1)
            BY <1>1, <1>3, <1>4
        <3> HIDE DEF x, y
        <3>2. s \in Nat /\ x < s /\ s < y /\ s <= seq
            BY <1>3, <3>1
        <3>3. s \in Ahead \cup Said
            BY <1>4, <2>2, <3>2 DEF NoneMissing, x
        <3>4. s \notin Ahead \cup dropped
            BY <1>4, <3>2 DEF y
        <3> QED
            BY <1>4, <3>3, <3>4 DEF Said
    <2> QED
        BY <2>1, <2>2
<1>5. InOrder(files) /\ Gapless(files, reported \cup unsaid)
    BY DEF LogInv
<1>6. InOrder(files') /\ Gapless(files', reported \cup unsaid)
    BY <1>4, <1>5, ExtendsKeeps
<1>7. Gapless(files', reported' \cup unsaid')
    BY <1>6, MoreTold
<1>8. /\ \A p \in EventLines(files') : p # n => p \in EventLines(files) /\ LineAt(files', p) = LineAt(files, p)
      /\ n \in EventLines(files') => line.kind = "event" /\ LineAt(files', n) = line
    BY ExtendsEvents
<1>9. \A p \in EventLines(files') :
         Number(LineAt(files', p)) <= seq' /\ \A a \in Ahead' : Number(LineAt(files', p)) < a
    BY <1>2, <1>3, <1>8
<1>10. EventsBehind'
    BY <1>9 DEF EventsBehind
<1>11. InOrder(files)'
    BY <1>6 DEF InOrder, EventLines, Positions, LineAt, LineBefore, FileBefore, Number
<1>12. Gapless(files, reported \cup unsaid)'
    BY <1>7 DEF Gapless, EventLines, Positions, LineAt, LineBefore, FileBefore, Number
<1> QED
    BY <1>10, <1>11, <1>12

LEMMA EndGrows ==
    ASSUME LogInv, NEW n, NEW line, Extends(files, files', n, line), seq' = seq, Said' = Said,
           line.kind = "event" => Ahead = Ahead' \cup {Number(line)} /\ Number(line) \in Ahead,
           line.kind = "dropped" => NoneMissing /\ Ahead' = Ahead
    PROVE  NoneMissing'
<1>1. \A p : LastEvent(files', p) =>
         \/ p = n /\ line.kind = "event"
         \/ p # n /\ line.kind = "dropped" /\ LastEvent(files, p)
    BY ExtendsEvents
<1>2. /\ \A p \in EventLines(files') : p # n => p \in EventLines(files) /\ LineAt(files', p) = LineAt(files, p)
      /\ n \in EventLines(files') => line.kind = "event" /\ LineAt(files', n) = line
    BY ExtendsEvents
<1> SUFFICES ASSUME NEW p \in EventLines(files'), LastEvent(files', p), NEW s \in Nat,
                    Number(LineAt(files', p)) < s, s <= seq
             PROVE  s \in Ahead' \cup Said'
    <2> QED
        BY DEF NoneMissing, EventLines, Positions, LineAt, LastEvent, LineBefore, FileBefore, Number
<1>3. CASE p = n /\ line.kind = "event"
    <2>1. Number(line) < s /\ Number(line) \in Ahead
        BY <1>2, <1>3
    <2>2. s \in Ahead \cup Said
        BY <2>1 DEF LogInv, FlowInv
    <2>3. s # Number(line)
        BY <2>1
    <2> QED
        BY <1>3, <2>2, <2>3
<1>4. CASE p # n /\ line.kind = "dropped" /\ LastEvent(files, p)
    BY <1>2, <1>4 DEF NoneMissing
<1> QED
    BY <1>1, <1>3, <1>4

-----------------------------------------------------------------------------
(* The steps.                                                              *)

Idle == {"dead", "lock", "open", "sleep"}
Of(pc, buf, at, length) == [pc |-> pc, buf |-> buf, at |-> at, size |-> length]

LEMMA OfFields ==
    ASSUME NEW c, c = [f \in {"pc", "buf", "at", "size"} |-> c[f]]
    PROVE  c = Of(c.pc, c.buf, c.at, c.size)
BY DEF Of

LEMMA DaemonIs ==
    ASSUME NEW w \in DaemonType
    PROVE  /\ w.pc \in {"dead", "lock", "open", "sleep", "marker", "wait", "write"}
           /\ w.buf \in Seq(LineType) /\ w.at \in Nat \X Nat /\ w.size \in Nat
BY DEF DaemonType

LEMMA PcIs ==
    ASSUME NEW w \in DaemonType, NEW x
    PROVE  [w EXCEPT !.pc = x] = Of(x, w.buf, w.at, w.size)
<1> DEFINE c == [w EXCEPT !.pc = x]
<1>1. w = [f \in {"pc", "buf", "at", "size"} |-> w[f]]
    BY DEF DaemonType
<1>2. c.pc = x /\ c.buf = w.buf /\ c.at = w.at /\ c.size = w.size
      /\ c = [f \in {"pc", "buf", "at", "size"} |-> c[f]]
    BY <1>1
<1> HIDE DEF c
<1>3. c = Of(x, w.buf, w.at, w.size)
    BY <1>2, OfFields
<1> QED
    BY <1>3 DEF c

LEMMA BufSetIs ==
    ASSUME NEW w \in DaemonType, NEW x, NEW y
    PROVE  [w EXCEPT !.pc = x, !.buf = y] = Of(x, y, w.at, w.size)
<1> DEFINE c == [w EXCEPT !.pc = x, !.buf = y]
<1>1. w = [f \in {"pc", "buf", "at", "size"} |-> w[f]]
    BY DEF DaemonType
<1>2. c.pc = x /\ c.buf = y /\ c.at = w.at /\ c.size = w.size
      /\ c = [f \in {"pc", "buf", "at", "size"} |-> c[f]]
    BY <1>1
<1> HIDE DEF c
<1>3. c = Of(x, y, w.at, w.size)
    BY <1>2, OfFields
<1> QED
    BY <1>3 DEF c

LEMMA TakenIs ==
    ASSUME NEW w \in DaemonType, NEW x, NEW y
    PROVE  [w EXCEPT !.buf = x, !.pc = y] = Of(y, x, w.at, w.size)
<1> DEFINE c == [w EXCEPT !.buf = x, !.pc = y]
<1>1. w = [f \in {"pc", "buf", "at", "size"} |-> w[f]]
    BY DEF DaemonType
<1>2. c.pc = y /\ c.buf = x /\ c.at = w.at /\ c.size = w.size
      /\ c = [f \in {"pc", "buf", "at", "size"} |-> c[f]]
    BY <1>1
<1> HIDE DEF c
<1>3. c = Of(y, x, w.at, w.size)
    BY <1>2, OfFields
<1> QED
    BY <1>3 DEF c

LEMMA WrittenAtIs ==
    ASSUME NEW w \in DaemonType, NEW x, NEW y
    PROVE  [w EXCEPT !.at = x, !.size = y] = Of(w.pc, w.buf, x, y)
<1> DEFINE c == [w EXCEPT !.at = x, !.size = y]
<1>1. w = [f \in {"pc", "buf", "at", "size"} |-> w[f]]
    BY DEF DaemonType
<1>2. c.pc = w.pc /\ c.buf = w.buf /\ c.at = x /\ c.size = y
      /\ c = [f \in {"pc", "buf", "at", "size"} |-> c[f]]
    BY <1>1
<1> HIDE DEF c
<1>3. c = Of(w.pc, w.buf, x, y)
    BY <1>2, OfFields
<1> QED
    BY <1>3 DEF c

LEMMA OfIs ==
    ASSUME NEW pc \in {"dead", "lock", "open", "sleep", "marker", "wait", "write"}, NEW buf \in Seq(LineType),
           NEW at \in Nat \X Nat, NEW length \in Nat
    PROVE  /\ Of(pc, buf, at, length) \in DaemonType
           /\ Of(pc, buf, at, length).pc = pc /\ Of(pc, buf, at, length).buf = buf
           /\ Of(pc, buf, at, length).at = at /\ Of(pc, buf, at, length).size = length
BY DEF DaemonType, Of

LEMMA DeadIs == Dead = Of("dead", <<>>, <<0, 0>>, 0) /\ [Dead EXCEPT !.pc = "sleep"] = Of("sleep", <<>>, <<0, 0>>, 0)
                /\ Dead \in DaemonType /\ [Dead EXCEPT !.pc = "sleep"] \in DaemonType
<1>1. <<>> \in Seq(LineType) /\ <<0, 0>> \in Nat \X Nat /\ 0 \in Nat
    OBVIOUS
<1>2. Dead = Of("dead", <<>>, <<0, 0>>, 0) /\ [Dead EXCEPT !.pc = "sleep"] = Of("sleep", <<>>, <<0, 0>>, 0)
    BY DEF Dead, Of
<1>3. Of("dead", <<>>, <<0, 0>>, 0) \in DaemonType
    BY <1>1, OfIs
<1>4. Of("sleep", <<>>, <<0, 0>>, 0) \in DaemonType
    BY <1>1, OfIs
<1> QED
    BY <1>2, <1>3, <1>4

LEMMA DaemonSet ==
    ASSUME LogTypes, NEW d \in Daemons, NEW w \in DaemonType, daemon' = [daemon EXCEPT ![d] = w]
    PROVE  /\ daemon' \in [Daemons -> DaemonType] /\ daemon'[d] = w
           /\ \A e \in Daemons : e # d => daemon'[e] = daemon[e]
BY DEF LogTypes

\* A daemon without the reader's file moves on.
LEMMA StaysIdle ==
    ASSUME LogInv, NEW d \in Daemons, NEW w \in DaemonType, w.pc \in Idle, w.buf = <<>>, daemon[d].pc \in Idle,
           daemon' = [daemon EXCEPT ![d] = w],
           UNCHANGED <<today, files, queue, dropped, seq, sulog_fd, reported, unsaid>>
    PROVE  LogInv'
<1>0. LogTypes /\ WriterInv /\ FlowInv
    BY DEF LogInv
<1>1. /\ daemon' \in [Daemons -> DaemonType] /\ daemon'[d] = w
      /\ \A e \in Daemons : e # d => daemon'[e] = daemon[e]
    BY <1>0, DaemonSet
<1>2. sulog_fd # d /\ \A e \in Daemons : sulog_fd = e => e # d /\ daemon'[e] = daemon[e]
    BY <1>0, <1>1 DEF LogTypes, Idle
<1>a. FilesOk(files)'
    BY <1>0 DEF LogTypes, FilesOk, EventLines, Positions, LineAt
<1>b. \A e \in Daemons : daemon'[e].pc \in {"marker", "wait", "write"} <=> sulog_fd' = e
    BY <1>0, <1>1, <1>2 DEF LogTypes, Idle
<1>c. \A e \in Daemons : daemon'[e].buf # <<>> <=> daemon'[e].pc = "write"
    BY <1>0, <1>1 DEF LogTypes, Idle
<1>3. LogTypes'
    BY <1>0, <1>1, <1>a, <1>b, <1>c DEF LogTypes
<1>4. WriterInv'
    BY <1>0, <1>2 DEF WriterInv, LastFile, FileBefore
<1>5. Buf' = Buf
    BY <1>2 DEF Buf
<1>6. FlowInv' /\ Ahead' = Ahead /\ Said \subseteq Said'
    BY <1>0, <1>5, FlowStays DEF FlowSame
<1>7. \A e \in Daemons : Writing(e)' => Writing(e)
    BY <1>2 DEF Writing
<1>8. Ahead' \subseteq Nat /\ seq \in Nat
    BY <1>0, <1>6, AheadNat
<1>9. InOrder(files)' /\ Gapless(files, reported \cup unsaid)' /\ LogEndInv'
    BY <1>6, <1>7, <1>8, LogStays
<1> QED
    BY <1>3, <1>4, <1>6, <1>9 DEF LogInv

LEMMA GoIs ==
    ASSUME LogTypes, NEW d \in Daemons, NEW pc \in Idle, daemon[d].pc \in Idle, Go(d, pc)
    PROVE  \E w \in DaemonType : w.pc = pc /\ w.buf = <<>> /\ daemon' = [daemon EXCEPT ![d] = w]
<1> DEFINE v == daemon[d]
           w == [v EXCEPT !.pc = pc]
<1>1. v \in DaemonType /\ v.buf = <<>>
    BY DEF LogTypes, Idle
<1>2. daemon' = [daemon EXCEPT ![d] = w]
    BY DEF Go
<1>3. w = Of(pc, v.buf, v.at, v.size) /\ v.at \in Nat \X Nat /\ v.size \in Nat /\ v.buf \in Seq(LineType)
    BY <1>1, DaemonIs, PcIs
<1> HIDE DEF v, w
<1>a. pc \in {"dead", "lock", "open", "sleep", "marker", "wait", "write"}
    BY DEF Idle
<1>b. Of(pc, v.buf, v.at, v.size) \in DaemonType /\ Of(pc, v.buf, v.at, v.size).pc = pc
      /\ Of(pc, v.buf, v.at, v.size).buf = v.buf
    BY <1>3, <1>a, OfIs
<1>4. w \in DaemonType /\ w.pc = pc /\ w.buf = <<>>
    BY <1>1, <1>3, <1>b
<1> QED
    BY <1>2, <1>4

\* A step of the daemon that has, or gets, the reader's file.
LEMMA SessionStep ==
    ASSUME LogTypes, NEW d \in Daemons, NEW w \in DaemonType, daemon' = [daemon EXCEPT ![d] = w],
           sulog_fd \in {Nobody, d}, sulog_fd' = d, w.pc \in {"marker", "wait", "write"},
           w.buf # <<>> <=> w.pc = "write", today' = today, seq' = seq,
           FilesOk(files'), LastFile(files', w.at), Len(files'[w.at]) <= w.size,
           \A f \in DOMAIN files' : Len(files'[f]) <= MaxFileSize,
           queue' \in Seq(Nat), dropped' \subseteq Nat, reported' \subseteq Nat, unsaid' \subseteq Nat
    PROVE  LogTypes' /\ WriterInv' /\ Buf' = w.buf
<1>1. /\ daemon' \in [Daemons -> DaemonType] /\ daemon'[d] = w
      /\ \A e \in Daemons : e # d => daemon'[e] = daemon[e]
    BY DaemonSet
<1>2. Nobody \notin Daemons
    BY BufIs
<1>3. \A e \in Daemons : e # d => daemon[e].pc \notin {"marker", "wait", "write"}
    BY <1>2 DEF LogTypes
<1>4. \A e \in Daemons : daemon'[e].pc \in {"marker", "wait", "write"} <=> sulog_fd' = e
    BY <1>1, <1>3
<1>5. \A e \in Daemons : daemon'[e].buf # <<>> <=> daemon'[e].pc = "write"
    BY <1>1 DEF LogTypes
<1>6. FilesOk(files)'
    BY DEF FilesOk, EventLines, Positions, LineAt
<1>7. LogTypes'
    BY <1>1, <1>4, <1>5, <1>6 DEF LogTypes
<1>8. WriterInv'
    BY <1>1 DEF WriterInv, LastFile, FileBefore
<1>9. Buf' = w.buf
    BY <1>1 DEF Buf
<1> QED
    BY <1>7, <1>8, <1>9

\* A daemon gives up what it has.
LEMMA SessionOver ==
    ASSUME LogTypes, WriterInv, NEW d \in Daemons, NEW w \in DaemonType, daemon' = [daemon EXCEPT ![d] = w],
           sulog_fd' = IF sulog_fd = d THEN Nobody ELSE sulog_fd, w.pc \in Idle, w.buf = <<>>,
           today' = today, seq' = seq, FilesOk(files'), \A f \in DOMAIN files' : Len(files'[f]) <= MaxFileSize,
           sulog_fd # d => files' = files,
           queue' = queue, dropped' = dropped, reported' = reported, unsaid' \subseteq Nat
    PROVE  LogTypes' /\ WriterInv' /\ Buf' = (IF sulog_fd = d THEN <<>> ELSE Buf)
<1>1. /\ daemon' \in [Daemons -> DaemonType] /\ daemon'[d] = w
      /\ \A e \in Daemons : e # d => daemon'[e] = daemon[e]
    BY DaemonSet
<1>2. Nobody \notin Daemons
    BY BufIs
<1>3. \A e \in Daemons : daemon'[e].pc \in {"marker", "wait", "write"} <=> sulog_fd' = e
    <2>1. daemon'[d].pc \notin {"marker", "wait", "write"} /\ sulog_fd' # d
        BY <1>1, <1>2 DEF Idle
    <2> QED
        BY <1>1, <1>2, <2>1 DEF LogTypes
<1>4. \A e \in Daemons : daemon'[e].buf # <<>> <=> daemon'[e].pc = "write"
    BY <1>1 DEF LogTypes, Idle
<1>5. FilesOk(files)'
    BY DEF FilesOk, EventLines, Positions, LineAt
<1>6. LogTypes'
    BY <1>1, <1>3, <1>4, <1>5 DEF LogTypes
<1>7. \A e \in Daemons : sulog_fd' = e => sulog_fd = e /\ e # d /\ files' = files /\ daemon'[e] = daemon[e]
    BY <1>1, <1>2
<1>8. \A e \in Daemons : sulog_fd' = e =>
          LastFile(files', daemon'[e].at) /\ Len(files'[daemon'[e].at]) <= daemon'[e].size
    BY <1>7 DEF WriterInv
<1>9. WriterInv'
    BY <1>8 DEF WriterInv, LastFile, FileBefore
<1>10. Buf' = (IF sulog_fd = d THEN <<>> ELSE Buf)
    BY <1>1, <1>2 DEF Buf, LogTypes
<1> QED
    BY <1>6, <1>9, <1>10

LEMMA OpensFile ==
    ASSUME LogInv, NEW d \in Daemons, open_sulog_fd(d), sulog_fd = Nobody
    PROVE  LogInv'
<1> DEFINE wr == OpenWriter(files)
           v == daemon[d]
           x == wr.at
           y == wr.size
           w == [v EXCEPT !.pc = "marker", !.at = x, !.size = y]
<1>1. LogTypes /\ WriterInv /\ FlowInv /\ today \in Nat
    BY DEF LogInv, LogTypes
<1>2. /\ daemon[d].pc = "open" /\ sulog_fd' = d /\ files' = wr.files /\ daemon' = [daemon EXCEPT ![d] = w]
      /\ UNCHANGED <<today, queue, dropped, seq, reported, unsaid>>
    BY DEF open_sulog_fd
<1>3. WriterReady(files, wr)
    BY <1>1, OpensLast DEF LogTypes, WriterInv
<1> HIDE DEF wr
<1>4. FilesOk(files') /\ LastFile(files', wr.at) /\ Suffix(files, files', wr.at) /\ wr.size \in Nat
      /\ Len(files'[wr.at]) <= wr.size /\ \A f \in DOMAIN files' : Len(files'[f]) <= MaxFileSize
    BY <1>2, <1>3 DEF WriterReady
<1>5. wr.at \in Nat \X Nat
    BY <1>4 DEF LastFile, FilesOk
<1>6. daemon[d] \in DaemonType /\ daemon[d].buf = <<>>
    BY <1>1, <1>2 DEF LogTypes
<1>a. w = Of("marker", v.buf, x, y)
    <2>1. v = [f \in {"pc", "buf", "at", "size"} |-> v[f]]
        BY <1>6 DEF DaemonType
    <2> HIDE DEF v, x, y
    <2>2. w.pc = "marker" /\ w.buf = v.buf /\ w.at = x /\ w.size = y
          /\ w = [f \in {"pc", "buf", "at", "size"} |-> w[f]]
        BY <2>1
    <2> HIDE DEF w
    <2> QED
        BY <2>2, OfFields
<1>7. w = Of("marker", daemon[d].buf, wr.at, wr.size) /\ daemon[d].buf \in Seq(LineType)
    BY <1>6, <1>a, DaemonIs
<1> HIDE DEF w
<1>8. w \in DaemonType /\ w.pc = "marker" /\ w.buf = daemon[d].buf /\ w.at = wr.at /\ w.size = wr.size
    BY <1>4, <1>5, <1>7, OfIs
<1>9. queue \in Seq(Nat) /\ dropped \subseteq Nat /\ reported \subseteq Nat /\ unsaid \subseteq Nat /\ seq \in Nat
    BY <1>1 DEF LogTypes
<1>10. LogTypes' /\ WriterInv' /\ Buf' = w.buf
    BY <1>1, <1>2, <1>4, <1>6, <1>8, <1>9, SessionStep
<1>11. Buf' = Buf
    BY <1>1, <1>6, <1>8, <1>10, BufIs
<1>12. FlowInv' /\ Ahead' = Ahead /\ Said \subseteq Said'
    BY <1>1, <1>2, <1>11, FlowStays DEF FlowSame
<1>13. Trims(files, files')
    BY <1>4, SuffixTrims
<1>14. Ahead' \subseteq Nat
    BY <1>1, <1>12, AheadNat
<1>15. InOrder(files)' /\ Gapless(files, reported \cup unsaid)' /\ EventsBehind'
    BY <1>2, <1>9, <1>12, <1>13, <1>14, LogShrinks
<1>16. daemon'[d] = w
    BY <1>1, <1>2, <1>8, DaemonSet
<1>17. \A e \in Daemons : ~Writing(e)'
    BY <1>2, <1>8, <1>16 DEF Writing
<1> QED
    BY <1>10, <1>12, <1>15, <1>17 DEF LogInv, LogEndInv

LEMMA MarkerWritten ==
    ASSUME LogInv, NEW d \in Daemons, write_session_marker(d)
    PROVE  LogInv'
<1> DEFINE v == [daemon[d] EXCEPT !.pc = "wait"]
<1>1. LogTypes /\ WriterInv /\ FlowInv
    BY DEF LogInv
<1>2. /\ daemon[d].pc = "marker" /\ write_log_line(d, Marker, v)
      /\ UNCHANGED <<today, queue, dropped, seq, sulog_fd, unsaid>>
    BY DEF write_session_marker
<1>3. Marker \in LineType /\ Marker.kind = "marker"
    BY DEF Marker, Line, LineType, LineKinds
<1>4. sulog_fd = d /\ daemon[d] \in DaemonType /\ daemon[d].buf = <<>>
    BY <1>1, <1>2 DEF LogTypes
<1>5. reported' = reported
    BY <1>2, <1>3 DEF write_log_line
<1>6. v = Of("wait", daemon[d].buf, daemon[d].at, daemon[d].size) /\ daemon[d].buf \in Seq(LineType)
      /\ daemon[d].at \in Nat \X Nat /\ daemon[d].size \in Nat
    BY <1>4, DaemonIs, PcIs
<1> HIDE DEF v
<1>7. v \in DaemonType /\ v.pc = "wait" /\ v.buf = daemon[d].buf
    BY <1>6, OfIs
<1>8. PICK at \in Nat \X Nat, length \in Nat :
          /\ FilesOk(files') /\ LastFile(files', at) /\ Len(files'[at]) <= length + 1
          /\ \A f \in DOMAIN files' : Len(files'[f]) <= MaxFileSize
          /\ daemon' = [daemon EXCEPT ![d] = [v EXCEPT !.at = at, !.size = length + 1]]
          /\ \E n : Extends(files, files', n, Marker)
    BY <1>1, <1>2, <1>3, <1>4, Writes
<1> DEFINE w == [v EXCEPT !.at = at, !.size = length + 1]
<1>9. w = Of(v.pc, v.buf, at, length + 1)
    BY <1>7, WrittenAtIs
<1> HIDE DEF w
<1>10. length + 1 \in Nat
    OBVIOUS
<1>11. w \in DaemonType /\ w.pc = "wait" /\ w.buf = daemon[d].buf /\ w.at = at /\ w.size = length + 1
    BY <1>6, <1>7, <1>9, <1>10, OfIs
<1>12. daemon' = [daemon EXCEPT ![d] = w]
    BY <1>8 DEF w
<1>13. queue \in Seq(Nat) /\ dropped \subseteq Nat /\ reported \subseteq Nat /\ unsaid \subseteq Nat /\ seq \in Nat
    BY <1>1 DEF LogTypes
<1>14. LogTypes' /\ WriterInv' /\ Buf' = w.buf
    BY <1>1, <1>2, <1>4, <1>5, <1>8, <1>11, <1>12, <1>13, SessionStep
<1>15. Buf' = Buf
    BY <1>1, <1>4, <1>11, <1>14, BufIs
<1>16. FlowInv' /\ Ahead' = Ahead /\ InBuf' = InBuf /\ DroppedInBuf' = DroppedInBuf
    BY <1>1, <1>2, <1>5, <1>15, FlowStays DEF FlowSame, InBuf, DroppedInBuf
<1>17. Said' = Said
    BY <1>2, <1>5, <1>16 DEF Said
<1>18. PICK n : Extends(files, files', n, Marker)
    BY <1>8
<1>19. InOrder(files)' /\ Gapless(files, reported \cup unsaid)' /\ EventsBehind'
    BY <1>2, <1>3, <1>5, <1>16, <1>18, LogGrows
<1>20. NoneMissing'
    BY <1>2, <1>3, <1>17, <1>18, EndGrows
<1> QED
    BY <1>14, <1>16, <1>19, <1>20 DEF LogInv, LogEndInv

LEMMA RecordsRead ==
    ASSUME LogInv, NEW d \in Daemons, Read(d)
    PROVE  LogInv'
<1>1. LogTypes /\ WriterInv /\ FlowInv
    BY DEF LogInv
<1>2. PICK buf : /\ daemon' = [daemon EXCEPT ![d].pc = "write", ![d].buf = buf]
                 /\ daemon[d].pc = "wait" /\ dropped' = {}
                 /\ UNCHANGED <<today, files, seq, sulog_fd, reported, unsaid>>
    BY DEF Read
<1>3. sulog_fd = d /\ daemon[d] \in DaemonType /\ daemon[d].buf = <<>> /\ Nobody \notin Daemons
    BY <1>1, <1>2, BufIs DEF LogTypes
<1>4. /\ FlowInv' /\ Ahead' = Ahead /\ Said' = Said /\ queue' \in Seq(Nat)
      /\ daemon'[d].buf \in Seq(LineType) /\ daemon'[d].buf # <<>>
    BY <1>1, FlowRead
<1> DEFINE v == daemon[d]
           w == [v EXCEPT !.pc = "write", !.buf = buf]
<1>5. daemon' = [daemon EXCEPT ![d] = w]
    BY <1>1, <1>2 DEF LogTypes
<1>6. daemon'[d] = w
    BY <1>1, <1>5 DEF LogTypes
<1>7. v \in DaemonType /\ v.at \in Nat \X Nat /\ v.size \in Nat
    BY <1>3, DaemonIs
<1>8. w = Of("write", buf, v.at, v.size)
    <2> HIDE DEF v
    <2> QED
        BY <1>7, BufSetIs
<1>9. w.buf = buf
    BY <1>8 DEF Of
<1> HIDE DEF w
<1>10. buf \in Seq(LineType) /\ buf # <<>>
    BY <1>4, <1>6, <1>9
<1>11. w \in DaemonType /\ w.pc = "write" /\ w.buf # <<>> /\ w.at = v.at /\ w.size = v.size
    BY <1>7, <1>8, <1>10, OfIs
<1>12. FilesOk(files') /\ LastFile(files', w.at) /\ Len(files'[w.at]) <= w.size
       /\ \A f \in DOMAIN files' : Len(files'[f]) <= MaxFileSize
    BY <1>1, <1>2, <1>3, <1>11 DEF LogTypes, WriterInv
<1>13. dropped' \subseteq Nat /\ reported' \subseteq Nat /\ unsaid' \subseteq Nat /\ seq \in Nat
    BY <1>1, <1>2 DEF LogTypes
<1>14. LogTypes' /\ WriterInv'
    BY <1>1, <1>2, <1>3, <1>4, <1>5, <1>11, <1>12, <1>13, SessionStep
<1>15. \A e \in Daemons : Writing(e)' => Writing(e)
    BY <1>2, <1>3 DEF Writing
<1>16. Ahead' \subseteq Nat
    BY <1>1, <1>4, AheadNat
<1>17. InOrder(files)' /\ Gapless(files, reported \cup unsaid)' /\ LogEndInv'
    BY <1>2, <1>4, <1>13, <1>15, <1>16, LogStays
<1> QED
    BY <1>4, <1>14, <1>17 DEF LogInv

LEMMA RecordWritten ==
    ASSUME LogInv, NEW d \in Daemons, handle_readable(d)
    PROVE  LogInv'
<1> DEFINE hd == Head(daemon[d].buf)
           rest == Tail(daemon[d].buf)
           pc == IF rest = <<>> THEN "wait" ELSE "write"
           v == [daemon[d] EXCEPT !.buf = rest, !.pc = pc]
<1>1. LogTypes /\ WriterInv /\ FlowInv
    BY DEF LogInv
<1>2. /\ daemon[d].pc = "write" /\ write_log_line(d, hd, v)
      /\ UNCHANGED <<today, queue, dropped, seq, sulog_fd, unsaid>>
    BY DEF handle_readable
<1>3. sulog_fd = d /\ daemon[d] \in DaemonType /\ daemon[d].buf # <<>> /\ Buf = daemon[d].buf
      /\ daemon[d].buf \in Seq(LineType) /\ daemon[d].at \in Nat \X Nat /\ daemon[d].size \in Nat
    BY <1>1, <1>2, BufIs, DaemonIs DEF LogTypes
<1>4. reported' = IF hd.kind = "dropped" THEN reported \cup hd.set ELSE reported
    BY <1>2 DEF write_log_line
<1>5. hd \in LineType /\ rest \in Seq(LineType)
    BY <1>3
<1>6. v = Of(pc, rest, daemon[d].at, daemon[d].size)
    <2> HIDE DEF rest, pc
    <2> QED
        BY <1>3, TakenIs
<1>7. pc \in {"wait", "write"} /\ (rest # <<>> <=> pc = "write")
    OBVIOUS
<1>a. hd = Head(Buf) /\ rest = Tail(Buf)
    BY <1>3
<1> HIDE DEF v, rest, pc, hd
<1>8. v \in DaemonType /\ v.pc = pc /\ v.buf = rest
    BY <1>3, <1>5, <1>6, <1>7, OfIs
<1>9. BufOk(Buf)
    BY <1>1 DEF FlowInv
<1>10. hd.kind \in {"event", "dropped"} /\ (hd.kind = "event" => \E s \in Nat : hd.set = {s})
    BY <1>3, <1>9, <1>a, Takes
<1>11. PICK at \in Nat \X Nat, length \in Nat :
          /\ FilesOk(files') /\ LastFile(files', at) /\ Len(files'[at]) <= length + 1
          /\ \A f \in DOMAIN files' : Len(files'[f]) <= MaxFileSize
          /\ daemon' = [daemon EXCEPT ![d] = [v EXCEPT !.at = at, !.size = length + 1]]
          /\ \E n : Extends(files, files', n, hd)
    BY <1>1, <1>2, <1>3, <1>5, <1>10, Writes
<1> DEFINE w == [v EXCEPT !.at = at, !.size = length + 1]
<1>12. w = Of(v.pc, v.buf, at, length + 1)
    BY <1>8, WrittenAtIs
<1>13. daemon' = [daemon EXCEPT ![d] = w]
    BY <1>11
<1> HIDE DEF w
<1>14. length + 1 \in Nat /\ pc \in {"dead", "lock", "open", "sleep", "marker", "wait", "write"}
    BY <1>7
<1>15. w \in DaemonType /\ w.pc = pc /\ w.buf = rest /\ w.at = at /\ w.size = length + 1
    BY <1>5, <1>8, <1>12, <1>14, OfIs
<1>16. queue \in Seq(Nat) /\ dropped \subseteq Nat /\ reported \subseteq Nat /\ unsaid \subseteq Nat /\ seq \in Nat
       /\ hd.set \subseteq Nat
    BY <1>1, <1>5 DEF LogTypes, LineType
<1>17. reported' \subseteq Nat /\ reported \subseteq reported'
    BY <1>4, <1>16
<1>18. LogTypes' /\ WriterInv' /\ Buf' = rest
    BY <1>1, <1>2, <1>3, <1>7, <1>11, <1>13, <1>15, <1>16, <1>17, SessionStep
<1>19. /\ FlowInv' /\ Said' = Said /\ Ahead' \subseteq Ahead
       /\ hd.kind = "event" =>
             /\ Number(hd) \in Ahead /\ Ahead = Ahead' \cup {Number(hd)}
             /\ \A a \in Ahead' : Number(hd) < a
             /\ \A s \in Nat : s < Number(hd) => s \notin Ahead \cup dropped
             /\ DroppedInBuf = {}
       /\ hd.kind = "dropped" => Ahead' = Ahead
    BY <1>1, <1>2, <1>3, <1>4, <1>18, <1>a, FlowWrite
<1>20. NoneMissing
    BY <1>2, <1>3 DEF LogInv, LogEndInv, Writing
<1>21. PICK n : Extends(files, files', n, hd)
    BY <1>11
<1>22. InOrder(files)' /\ Gapless(files, reported \cup unsaid)' /\ EventsBehind'
    BY <1>2, <1>17, <1>19, <1>20, <1>21, LogGrows
<1>23. NoneMissing'
    BY <1>2, <1>19, <1>20, <1>21, EndGrows
<1> QED
    BY <1>18, <1>19, <1>22, <1>23 DEF LogInv, LogEndInv

\* The daemon gives up its session and writes nothing.
LEMMA GivenUp ==
    ASSUME LogInv, NEW d \in Daemons, NEW w \in DaemonType, daemon' = [daemon EXCEPT ![d] = w],
           w.pc \in Idle, w.buf = <<>>, sulog_fd' = IF sulog_fd = d THEN Nobody ELSE sulog_fd, Forget(d),
           UNCHANGED <<today, files, queue, dropped, seq, reported>>
    PROVE  LogInv'
<1>1. LogTypes /\ WriterInv /\ FlowInv
    BY DEF LogInv
<1>2. unsaid' = unsaid \cup Reports(daemon[d].buf)
    BY DEF Forget, Reports
<1>3. Nobody \notin Daemons /\ DroppedInBuf \subseteq Nat
      /\ IF sulog_fd = d THEN Buf = daemon[d].buf ELSE daemon[d].buf = <<>>
    BY <1>1, BufIs
<1>4. unsaid' = IF sulog_fd = d THEN unsaid \cup DroppedInBuf ELSE unsaid
    BY <1>2, <1>3, EmptyBuf DEF DroppedInBuf
<1>5. unsaid' \subseteq Nat /\ unsaid \subseteq unsaid'
    BY <1>1, <1>3, <1>4 DEF LogTypes
<1>6. FilesOk(files') /\ \A f \in DOMAIN files' : Len(files'[f]) <= MaxFileSize
    BY <1>1 DEF LogTypes, WriterInv
<1>7. LogTypes' /\ WriterInv' /\ Buf' = (IF sulog_fd = d THEN <<>> ELSE Buf)
    BY <1>1, <1>5, <1>6, SessionOver
<1>8. Ahead \subseteq Nat /\ seq \in Nat
    BY <1>1, AheadNat
<1>9. CASE sulog_fd = d
    <2>1. FlowInv' /\ Ahead' \subseteq Ahead
        BY <1>1, <1>4, <1>7, <1>9, BufGone
    <2>2. InOrder(files)' /\ Gapless(files, reported \cup unsaid)' /\ EventsBehind'
        BY <1>5, <1>8, <2>1, SameTrims, LogShrinks
    <2>3. \A e \in Daemons : ~Writing(e)'
        BY <1>3, <1>9 DEF Writing
    <2> QED
        BY <1>7, <2>1, <2>2, <2>3 DEF LogInv, LogEndInv
<1>10. CASE sulog_fd # d
    <2>1. FlowInv' /\ Ahead' = Ahead /\ Said \subseteq Said'
        BY <1>1, <1>5, <1>7, <1>10, FlowStays DEF FlowSame
    <2>2. \A e \in Daemons : Writing(e)' => Writing(e)
        BY <1>1, <1>10 DEF Writing, LogTypes
    <2>3. InOrder(files)' /\ Gapless(files, reported \cup unsaid)' /\ LogEndInv'
        BY <1>5, <1>8, <2>1, <2>2, LogStays
    <2> QED
        BY <1>7, <2>1, <2>3 DEF LogInv
<1> QED
    BY <1>9, <1>10

\* The last line of a session is a part of one.
LEMMA PartWritten ==
    ASSUME LogInv, NEW d \in Daemons, NEW w \in DaemonType, daemon' = [daemon EXCEPT ![d] = w],
           w.pc \in Idle, w.buf = <<>>, sulog_fd = d, sulog_fd' = Nobody, Forget(d),
           daemon[d].size < MaxFileSize,
           files' = [files EXCEPT ![daemon[d].at] = Appended(@, Line("part", {}))],
           UNCHANGED <<today, queue, dropped, seq, reported>>
    PROVE  LogInv'
<1> DEFINE part == Line("part", {})
           at == daemon[d].at
<1>1. LogTypes /\ WriterInv /\ FlowInv
    BY DEF LogInv
<1>2. Nobody \notin Daemons /\ DroppedInBuf \subseteq Nat /\ Buf = daemon[d].buf
    BY <1>1, BufIs
<1>3. unsaid' = unsaid \cup DroppedInBuf
    BY <1>2 DEF Forget, Reports, DroppedInBuf
<1>4. unsaid' \subseteq Nat /\ unsaid \subseteq unsaid'
    BY <1>1, <1>2, <1>3 DEF LogTypes
<1>5. part \in LineType /\ part.kind = "part"
    BY DEF Line, LineType, LineKinds
<1>6. /\ FilesOk(files) /\ LastFile(files, at) /\ Len(files[at]) <= daemon[d].size
      /\ \A f \in DOMAIN files : Len(files[f]) <= MaxFileSize
    BY <1>1 DEF LogTypes, WriterInv
<1>7. daemon[d].size \in Nat /\ MaxFileSize \in Nat
    BY <1>1, KsudLogAssumption DEF LogTypes, DaemonType
<1>8. at \in DOMAIN files /\ Len(files[at]) \in Nat
    BY <1>6 DEF LastFile, FilesOk
<1> HIDE DEF part, at
<1>9. files' = [files EXCEPT ![at] = Appended(@, part)]
    BY DEF part, at
<1>10. /\ Extends(files, files', <<at, Len(files'[at])>>, part)
       /\ FilesOk(files') /\ LastFile(files', at) /\ DOMAIN files' = DOMAIN files
       /\ Len(files'[at]) <= Len(files[at]) + 1 /\ \A f \in DOMAIN files : f # at => files'[f] = files[f]
    <2> DEFINE fs2 == [files EXCEPT ![at] = Appended(@, part)]
    <2>1. /\ Extends(files, fs2, <<at, Len(fs2[at])>>, part)
          /\ FilesOk(fs2) /\ LastFile(fs2, at) /\ DOMAIN fs2 = DOMAIN files
          /\ Len(fs2[at]) <= Len(files[at]) + 1 /\ \A f \in DOMAIN files : f # at => fs2[f] = files[f]
        <3>1. part.kind # "glued" /\ part.kind # "event"
            BY <1>5
        <3> QED
            BY <1>5, <1>6, <3>1, Appends
    <2>2. files' = fs2
        BY <1>9
    <2> HIDE DEF fs2
    <2> QED
        BY <2>1, <2>2
<1>11. Len(files'[at]) \in Nat
    BY <1>8, <1>10 DEF FilesOk
<1>12. Len(files'[at]) <= MaxFileSize
    BY <1>6, <1>7, <1>8, <1>10, <1>11
<1>13. \A f \in DOMAIN files' : Len(files'[f]) <= MaxFileSize
    BY <1>6, <1>10, <1>12
<1>14. LogTypes' /\ WriterInv' /\ Buf' = <<>>
    BY <1>1, <1>4, <1>10, <1>13, SessionOver
<1>15. FlowInv' /\ Ahead' \subseteq Ahead
    BY <1>1, <1>3, <1>14, BufGone
<1>16. InOrder(files)' /\ Gapless(files, reported \cup unsaid)' /\ EventsBehind'
    BY <1>4, <1>5, <1>10, <1>15, LogGrows
<1>17. \A e \in Daemons : ~Writing(e)'
    BY <1>2 DEF Writing
<1> QED
    BY <1>14, <1>15, <1>16, <1>17 DEF LogInv, LogEndInv

\* The end of the last file is lost.
LEMMA Cut ==
    ASSUME NEW fs, FilesOk(fs), NEW f \in DOMAIN fs, NEW n \in 0..(Len(fs[f]) - 1),
           \A g \in DOMAIN fs : g[1] < f[1] \/ (g[1] = f[1] /\ g[2] <= f[2])
    PROVE  LET fs2 == [fs EXCEPT ![f] = SubSeq(@, 1, n)]
           IN  /\ Trims(fs, fs2) /\ FilesOk(fs2) /\ DOMAIN fs2 = DOMAIN fs
               /\ \A g \in DOMAIN fs : Len(fs2[g]) <= Len(fs[g])
<1> DEFINE l == fs[f]
           l2 == SubSeq(l, 1, n)
           fs2 == [fs EXCEPT ![f] = l2]
<1>1. l \in Seq(LineType) /\ DOMAIN fs \subseteq Nat \X Nat /\ f \in Nat \X Nat
      /\ \A g \in DOMAIN fs : fs[g] \in Seq(LineType)
    BY DEF FilesOk
<1>2. Len(l) \in Nat
    BY <1>1
<1>3. n \in Nat /\ n <= Len(l)
    BY <1>2
<1>a. \A i \in 1..n : i \in 1..Len(l)
    BY <1>2, <1>3
<1>4. l2 \in Seq(LineType)
    BY <1>1, <1>3, <1>a
<1>5. Len(l2) = n /\ \A i \in 1..n : l2[i] = l[i]
    BY <1>1, <1>3
<1> HIDE DEF l2
<1>6. DOMAIN l2 = 1..n
    BY <1>4, <1>5
<1>7. DOMAIN l = 1..Len(l)
    BY <1>1
<1> HIDE DEF l
<1>8. DOMAIN fs2 = DOMAIN fs /\ fs2[f] = l2 /\ \A g \in DOMAIN fs : g # f => fs2[g] = fs[g]
    OBVIOUS
<1> HIDE DEF fs2
<1>9. \A g \in DOMAIN fs : ~FileBefore(f, g)
    <2> SUFFICES ASSUME NEW g \in DOMAIN fs
                 PROVE  ~FileBefore(f, g)
        OBVIOUS
    <2>1. f[1] \in Nat /\ f[2] \in Nat /\ g[1] \in Nat /\ g[2] \in Nat
        BY <1>1
    <2> QED
        BY <2>1 DEF FileBefore
<1>10. ASSUME NEW q \in Positions(fs2)
       PROVE  /\ q \in Positions(fs) /\ LineAt(fs2, q) = LineAt(fs, q) /\ q[1] \in DOMAIN fs
              /\ q[1] = f => q[2] \in 1..n
    <2>1. q[1] \in DOMAIN fs /\ q[2] \in DOMAIN fs2[q[1]] /\ q = <<q[1], q[2]>>
        BY <1>8, PositionHas
    <2>2. CASE q[1] = f
        <3>1. q[2] \in 1..n /\ q[2] \in DOMAIN fs[f] /\ fs2[f][q[2]] = fs[f][q[2]]
            BY <1>5, <1>6, <1>7, <1>8, <1>a, <2>1, <2>2 DEF l
        <3> QED
            BY <2>1, <2>2, <3>1, PositionIs DEF LineAt
    <2>3. CASE q[1] # f
        BY <1>8, <2>1, <2>3, PositionIs DEF LineAt
    <2> QED
        BY <2>2, <2>3
<1>11. ASSUME NEW q \in Positions(fs2), NEW r \in Positions(fs), LineBefore(r, q)
       PROVE  r \in Positions(fs2)
    <2>1. r[1] \in DOMAIN fs /\ r[2] \in DOMAIN fs[r[1]] /\ r = <<r[1], r[2]>>
        BY PositionHas
    <2>2. CASE r[1] = f
        <3>1. q[1] = f /\ r[2] < q[2]
            BY <1>9, <1>10, <1>11, <2>2 DEF LineBefore
        <3>2. q[2] \in 1..n /\ r[2] \in 1..Len(l)
            BY <1>7, <1>10, <2>1, <2>2, <3>1 DEF l
        <3>3. r[2] \in 1..n
            BY <1>2, <1>3, <3>1, <3>2
        <3> QED
            BY <1>6, <1>8, <2>1, <2>2, <3>3, PositionIs
    <2>3. CASE r[1] # f
        BY <1>8, <2>1, <2>3, PositionIs
    <2> QED
        BY <2>2, <2>3
<1>12. Trims(fs, fs2)
    BY <1>10, <1>11 DEF Trims
<1>13. FilesOk(fs2)
    <2>1. \A p \in EventLines(fs2) : \E s \in Nat : LineAt(fs2, p).set = {s}
        BY <1>10 DEF EventLines, FilesOk
    <2>2. \A g \in DOMAIN fs2 : g[1] <= today /\ fs2[g] \in Seq(LineType)
        BY <1>4, <1>8 DEF FilesOk
    <2> QED
        BY <1>8, <2>1, <2>2 DEF FilesOk
<1>14. \A g \in DOMAIN fs : Len(fs2[g]) <= Len(fs[g])
    <2>1. \A g \in DOMAIN fs : Len(fs[g]) \in Nat
        BY <1>1
    <2> QED
        BY <1>3, <1>5, <1>8, <2>1 DEF l
<1> QED
    BY <1>8, <1>12, <1>13, <1>14 DEF fs2, l2, l

LEMMA PowerLost ==
    ASSUME LogInv, PowerGone
    PROVE  LogInv'
<1>1. LogTypes /\ WriterInv /\ FlowInv /\ FilesOk(files) /\ \A f \in DOMAIN files : Len(files[f]) <= MaxFileSize
    BY DEF LogInv, LogTypes, WriterInv
<1>2. /\ daemon' = [d \in Daemons |-> Dead] /\ sulog_fd' = Nobody /\ queue' = <<>> /\ dropped' = {}
      /\ UNCHANGED <<today, seq, reported, unsaid>>
    BY DEF PowerGone
<1>3. Trims(files, files') /\ FilesOk(files') /\ \A f \in DOMAIN files' : Len(files'[f]) <= MaxFileSize
    <2>1. CASE files' = files
        BY <1>1, <2>1, SameTrims
    <2>2. CASE files' # files
        <3>1. PICK f \in DOMAIN files : \E n \in 0..(Len(files[f]) - 1) :
                 /\ \A g \in DOMAIN files : g[1] < f[1] \/ (g[1] = f[1] /\ g[2] <= f[2])
                 /\ files' = [files EXCEPT ![f] = SubSeq(@, 1, n)]
            BY <2>2 DEF PowerGone
        <3>a. PICK n \in 0..(Len(files[f]) - 1) :
                 /\ \A g \in DOMAIN files : g[1] < f[1] \/ (g[1] = f[1] /\ g[2] <= f[2])
                 /\ files' = [files EXCEPT ![f] = SubSeq(@, 1, n)]
            BY <3>1
        <3> DEFINE fs2 == [files EXCEPT ![f] = SubSeq(@, 1, n)]
        <3>2. /\ Trims(files, fs2) /\ FilesOk(fs2) /\ DOMAIN fs2 = DOMAIN files
              /\ \A g \in DOMAIN files : Len(fs2[g]) <= Len(files[g])
            BY <1>1, <3>a, Cut
        <3>3. files' = fs2
            BY <3>a
        <3> HIDE DEF fs2
        <3>4. MaxFileSize \in Nat /\ \A g \in DOMAIN files : Len(files[g]) \in Nat /\ Len(fs2[g]) \in Nat
            BY <1>1, <3>2, KsudLogAssumption DEF FilesOk
        <3>5. \A g \in DOMAIN files : Len(fs2[g]) <= MaxFileSize
            BY <1>1, <3>2, <3>4
        <3> QED
            BY <3>2, <3>3, <3>5
    <2> QED
        BY <2>1, <2>2
<1>4. Nobody \notin Daemons
    BY <1>1, BufIs
<1>5. Dead \in DaemonType /\ Dead.pc = "dead" /\ Dead.buf = <<>>
    BY DeadIs DEF Dead
<1>6. Buf' = <<>>
    BY <1>2, <1>4 DEF Buf
<1>7. FilesOk(files)'
    BY <1>2, <1>3 DEF FilesOk, EventLines, Positions, LineAt
<1>8. daemon' \in [Daemons -> DaemonType] /\ \A d \in Daemons : daemon'[d] = Dead
    BY <1>2, <1>5
<1>9. <<>> \in Seq(Nat)
    OBVIOUS
<1>10. LogTypes'
    BY <1>1, <1>2, <1>4, <1>5, <1>7, <1>8, <1>9 DEF LogTypes
<1>11. WriterInv'
    BY <1>2, <1>3, <1>4 DEF WriterInv
<1>12. FlowInv' /\ Ahead' = {}
    BY <1>2, <1>6, QueueGone
<1>13. seq' \in Nat /\ seq <= seq'
    BY <1>1, <1>2 DEF LogTypes
<1>14. InOrder(files)' /\ Gapless(files, reported \cup unsaid)' /\ EventsBehind'
    BY <1>2, <1>3, <1>12, <1>13, LogShrinks
<1>15. \A d \in Daemons : ~Writing(d)'
    BY <1>2, <1>4 DEF Writing
<1> QED
    BY <1>10, <1>11, <1>12, <1>14, <1>15 DEF LogInv, LogEndInv

LEMMA EventCame ==
    ASSUME LogInv, Event
    PROVE  LogInv'
<1>1. LogTypes /\ WriterInv /\ FlowInv
    BY DEF LogInv
<1>2. UNCHANGED <<today, files, daemon, sulog_fd, reported, unsaid>>
    BY DEF Event
<1>3. Buf' = Buf
    BY <1>2 DEF Buf
<1>4. /\ FlowInv' /\ seq' = seq + 1 /\ Ahead' \subseteq Ahead \cup {seq'} /\ queue' \in Seq(Nat)
      /\ Ahead \cup Said \cup {seq'} \subseteq Ahead' \cup Said'
    BY <1>1, <1>3, FlowEvent
<1>5. seq \in Nat /\ Ahead \subseteq Nat
    BY <1>1, AheadNat
<1>6. seq' \in Nat /\ seq <= seq' /\ seq < seq' /\ \A s \in Nat : s <= seq' => s <= seq \/ s = seq'
    BY <1>4, <1>5
<1>7. dropped' \subseteq Nat
    BY <1>1, <1>6 DEF Event, LogTypes
<1>a. FilesOk(files')
    BY <1>1, <1>2 DEF LogTypes
<1>8. FilesOk(files)'
    BY <1>2, <1>a DEF FilesOk, EventLines, Positions, LineAt
<1>9. LogTypes'
    BY <1>1, <1>2, <1>4, <1>6, <1>7, <1>8 DEF LogTypes
<1>10. WriterInv'
    BY <1>1, <1>2 DEF WriterInv, LastFile, FileBefore
<1>11. Ahead' \subseteq Nat /\ \A a \in Ahead' : a \in Ahead \/ seq < a
    BY <1>4, <1>5, <1>6
<1>12. \A s \in Nat : s <= seq' => s <= seq \/ s \in Ahead' \cup Said'
    BY <1>4, <1>6
<1>13. \A d \in Daemons : Writing(d)' => Writing(d)
    BY <1>2 DEF Writing
<1>14. InOrder(files)' /\ Gapless(files, reported \cup unsaid)' /\ LogEndInv'
    BY <1>2, <1>4, <1>6, <1>11, <1>12, <1>13, LogStays
<1> QED
    BY <1>4, <1>9, <1>10, <1>14 DEF LogInv

LEMMA DayOver ==
    ASSUME LogInv, Midnight
    PROVE  LogInv'
<1>1. LogTypes /\ WriterInv /\ FlowInv
    BY DEF LogInv
<1>2. today' = today + 1 /\ UNCHANGED <<files, queue, dropped, seq, daemon, sulog_fd, reported, unsaid>>
    BY DEF Midnight
<1>3. today \in Nat
    BY <1>1 DEF LogTypes
<1>4. DOMAIN files \subseteq Nat \X Nat /\ \A f \in DOMAIN files : f[1] <= today /\ files[f] \in Seq(LineType)
    BY <1>1 DEF LogTypes, FilesOk
<1>5. \A x \in Nat : x <= today => x <= today'
    BY <1>2, <1>3
<1>6. \A f \in DOMAIN files : f[1] <= today' /\ files[f] \in Seq(LineType)
    BY <1>4, <1>5
<1>7. FilesOk(files)'
    BY <1>1, <1>2, <1>4, <1>6 DEF LogTypes, FilesOk, EventLines, Positions, LineAt
<1>8. LogTypes'
    BY <1>1, <1>2, <1>3, <1>7 DEF LogTypes
<1>9. WriterInv'
    BY <1>1, <1>2 DEF WriterInv, LastFile, FileBefore
<1>10. Buf' = Buf
    BY <1>2 DEF Buf
<1>11. FlowInv' /\ Ahead' = Ahead /\ Said \subseteq Said'
    BY <1>1, <1>2, <1>10, FlowStays DEF FlowSame
<1>12. Ahead' \subseteq Nat /\ seq \in Nat
    BY <1>1, <1>11, AheadNat
<1>13. \A d \in Daemons : Writing(d)' => Writing(d)
    BY <1>2 DEF Writing
<1>14. InOrder(files)' /\ Gapless(files, reported \cup unsaid)' /\ LogEndInv'
    BY <1>2, <1>11, <1>12, <1>13, LogStays
<1> QED
    BY <1>8, <1>9, <1>11, <1>14 DEF LogInv

LEMMA NothingHappens ==
    ASSUME LogInv, UNCHANGED logVars
    PROVE  LogInv'
<1>1. LogTypes /\ WriterInv /\ FlowInv
    BY DEF LogInv
<1>2. UNCHANGED <<today, files, queue, dropped, seq, daemon, sulog_fd, reported, unsaid>>
    BY DEF logVars
<1>3. FilesOk(files')
    BY <1>1, <1>2 DEF LogTypes
<1>4. FilesOk(files)'
    BY <1>2, <1>3 DEF FilesOk, EventLines, Positions, LineAt
<1>5. LogTypes'
    BY <1>1, <1>2, <1>4 DEF LogTypes
<1>6. WriterInv'
    BY <1>1, <1>2 DEF WriterInv, LastFile, FileBefore
<1>7. Buf' = Buf
    BY <1>2 DEF Buf
<1>8. FlowInv' /\ Ahead' = Ahead /\ Said \subseteq Said'
    BY <1>1, <1>2, <1>7, FlowStays DEF FlowSame
<1>9. Ahead' \subseteq Nat /\ seq \in Nat
    BY <1>1, <1>8, AheadNat
<1>10. \A d \in Daemons : Writing(d)' => Writing(d)
    BY <1>2 DEF Writing
<1>11. InOrder(files)' /\ Gapless(files, reported \cup unsaid)' /\ LogEndInv'
    BY <1>2, <1>8, <1>9, <1>10, LogStays
<1> QED
    BY <1>5, <1>6, <1>8, <1>11 DEF LogInv

LEMMA LogInitial == LogInit => LogInv
<1> SUFFICES ASSUME LogInit
             PROVE  LogInv
    OBVIOUS
<1>1. /\ today = 1 /\ files = [f \in {} |-> <<>>] /\ queue = <<>> /\ dropped = {} /\ seq = 0
      /\ reported = {} /\ unsaid = {} /\ daemon = [d \in Daemons |-> Dead] /\ sulog_fd = Nobody
    BY DEF LogInit
<1>2. Nobody \notin Daemons
    BY KsudLogAssumption DEF Nobody
<1>3. DOMAIN files = {}
    BY <1>1
<1>4. Positions(files) = {} /\ EventLines(files) = {}
    BY <1>3 DEF Positions, EventLines
<1>5. FilesOk(files)
    <2>1. \E b \in Nat : \A f \in DOMAIN files : f[2] <= b
        BY <1>3
    <2> QED
        BY <1>3, <1>4, <2>1 DEF FilesOk
<1>6. Dead \in DaemonType /\ Dead.pc = "dead" /\ Dead.buf = <<>>
    BY DeadIs DEF Dead
<1>7. <<>> \in Seq(Nat) /\ DOMAIN <<>> = {}
    OBVIOUS
<1>8. LogTypes
    BY <1>1, <1>2, <1>5, <1>6, <1>7 DEF LogTypes
<1>9. WriterInv
    BY <1>1, <1>2, <1>3 DEF WriterInv
<1>10. Buf = <<>>
    BY <1>1, <1>2 DEF Buf
<1>11. InBuf = {} /\ DroppedInBuf = {} /\ BufOk(Buf)
    BY <1>10, EmptyBuf DEF InBuf, DroppedInBuf
<1>12. InQueue = {}
    BY <1>1, <1>7 DEF InQueue
<1>13. FlowInv
    BY <1>1, <1>7, <1>11, <1>12 DEF FlowInv, Ahead
<1>14. LogEndInv
    BY <1>4 DEF LogEndInv, EventsBehind, NoneMissing
<1>15. InOrder(files) /\ Gapless(files, reported \cup unsaid)
    BY <1>4 DEF InOrder, Gapless
<1> QED
    BY <1>8, <1>9, <1>13, <1>14, <1>15 DEF LogInv

LEMMA DaemonSteps ==
    ASSUME LogInv, NEW d \in Daemons,
           \/ spawn_sulogd(d) \/ acquire(d) \/ open_sulog_fd(d) \/ write_session_marker(d)
           \/ Read(d) \/ handle_readable(d) \/ SessionEnds(d) \/ RestartSession(d) \/ Killed(d)
    PROVE  LogInv'
<1>1. LogTypes
    BY DEF LogInv
<1>2. Dead \in DaemonType /\ Dead.pc \in Idle /\ Dead.buf = <<>>
    BY DeadIs DEF Dead, Idle
<1>3. CASE spawn_sulogd(d)
    <2>1. daemon[d].pc \in Idle /\ Go(d, "lock") /\ "lock" \in Idle
          /\ UNCHANGED <<today, files, queue, dropped, seq, sulog_fd, reported, unsaid>>
        BY <1>2, <1>3 DEF spawn_sulogd, Idle
    <2>2. PICK w \in DaemonType : w.pc = "lock" /\ w.buf = <<>> /\ daemon' = [daemon EXCEPT ![d] = w]
        BY <1>1, <2>1, GoIs
    <2> QED
        BY <2>1, <2>2, StaysIdle
<1>4. CASE acquire(d)
    <2>1. daemon[d].pc \in Idle /\ "open" \in Idle
          /\ UNCHANGED <<today, files, queue, dropped, seq, sulog_fd, reported, unsaid>>
        BY <1>4 DEF acquire, Idle
    <2>2. CASE Go(d, "open")
        <3>1. PICK w \in DaemonType : w.pc = "open" /\ w.buf = <<>> /\ daemon' = [daemon EXCEPT ![d] = w]
            BY <1>1, <2>1, <2>2, GoIs
        <3> QED
            BY <2>1, <3>1, StaysIdle
    <2>3. CASE daemon' = [daemon EXCEPT ![d] = Dead]
        BY <1>2, <2>1, <2>3, StaysIdle
    <2> QED
        BY <1>4, <2>2, <2>3 DEF acquire
<1>5. CASE open_sulog_fd(d)
    <2>1. CASE sulog_fd = Nobody
        BY <1>5, <2>1, OpensFile
    <2>2. CASE sulog_fd # Nobody
        <3>1. daemon[d].pc \in Idle /\ Go(d, "sleep") /\ "sleep" \in Idle
              /\ UNCHANGED <<today, files, queue, dropped, seq, sulog_fd, reported, unsaid>>
            BY <1>5, <2>2 DEF open_sulog_fd, Idle
        <3>2. PICK w \in DaemonType : w.pc = "sleep" /\ w.buf = <<>> /\ daemon' = [daemon EXCEPT ![d] = w]
            BY <1>1, <3>1, GoIs
        <3> QED
            BY <3>1, <3>2, StaysIdle
    <2> QED
        BY <2>1, <2>2
<1>6. CASE RestartSession(d)
    <2>1. daemon[d].pc \in Idle /\ Go(d, "open") /\ "open" \in Idle
          /\ UNCHANGED <<today, files, queue, dropped, seq, sulog_fd, reported, unsaid>>
        BY <1>6 DEF RestartSession, Idle
    <2>2. PICK w \in DaemonType : w.pc = "open" /\ w.buf = <<>> /\ daemon' = [daemon EXCEPT ![d] = w]
        BY <1>1, <2>1, GoIs
    <2> QED
        BY <2>1, <2>2, StaysIdle
<1>7. CASE SessionEnds(d)
    <2> DEFINE w == [Dead EXCEPT !.pc = "sleep"]
    <2>1. w \in DaemonType /\ w.pc \in Idle /\ w.buf = <<>>
        <3>1. w = Of("sleep", <<>>, <<0, 0>>, 0) /\ w \in DaemonType
            BY DeadIs
        <3> HIDE DEF w
        <3> QED
            BY <3>1 DEF Of, Idle
    <2>2. /\ daemon' = [daemon EXCEPT ![d] = w] /\ sulog_fd' = (IF sulog_fd = d THEN Nobody ELSE sulog_fd)
          /\ Forget(d) /\ UNCHANGED <<today, queue, dropped, seq, reported>>
          /\ \/ files' = files
             \/ /\ daemon[d].pc \in {"marker", "write"} /\ daemon[d].size < MaxFileSize
                /\ files' = [files EXCEPT ![daemon[d].at] = Appended(@, Line("part", {}))]
        BY <1>7 DEF SessionEnds
    <2> HIDE DEF w
    <2>3. CASE files' = files
        BY <2>1, <2>2, <2>3, GivenUp
    <2>4. CASE /\ daemon[d].pc \in {"marker", "write"} /\ daemon[d].size < MaxFileSize
               /\ files' = [files EXCEPT ![daemon[d].at] = Appended(@, Line("part", {}))]
        <3>1. sulog_fd = d
            BY <1>1, <2>4 DEF LogTypes
        <3> QED
            BY <2>1, <2>2, <2>4, <3>1, PartWritten
    <2> QED
        BY <2>2, <2>3, <2>4
<1>8. CASE Killed(d)
    <2>1. /\ daemon' = [daemon EXCEPT ![d] = Dead] /\ sulog_fd' = (IF sulog_fd = d THEN Nobody ELSE sulog_fd)
          /\ Forget(d) /\ UNCHANGED <<today, files, queue, dropped, seq, reported>>
        BY <1>8 DEF Killed
    <2> QED
        BY <1>2, <2>1, GivenUp
<1> QED
    BY <1>3, <1>4, <1>5, <1>6, <1>7, <1>8, MarkerWritten, RecordsRead, RecordWritten

\* The log that sulogd writes is whole: whatever daemons start, stop and are
\* killed, whatever a power failure takes, events are in their order and once,
\* and those missing between two lines were reported or their session began anew.
THEOREM LogCorrect == LogSpec => []LogExplained
<1>1. LogInit => LogInv
    BY LogInitial
<1>2. LogInv /\ [LogNext]_logVars => LogInv'
    <2> SUFFICES ASSUME LogInv, [LogNext]_logVars
                 PROVE  LogInv'
        OBVIOUS
    <2>1. CASE UNCHANGED logVars
        BY <2>1, NothingHappens
    <2>2. CASE \E d \in Daemons : \/ spawn_sulogd(d) \/ acquire(d) \/ open_sulog_fd(d) \/ write_session_marker(d)
                                  \/ Read(d) \/ handle_readable(d) \/ SessionEnds(d) \/ RestartSession(d) \/ Killed(d)
        BY <2>2, DaemonSteps
    <2>3. CASE PowerGone
        BY <2>3, PowerLost
    <2>4. CASE Event
        BY <2>4, EventCame
    <2>5. CASE Midnight
        BY <2>5, DayOver
    <2> QED
        BY <2>1, <2>2, <2>3, <2>4, <2>5 DEF LogNext
<1>3. LogInv => LogExplained
    BY DEF LogInv, WriterInv, LogExplained
<1> QED
    BY <1>1, <1>2, <1>3, PTL DEF LogSpec
=============================================================================
