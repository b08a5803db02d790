------------------------------ MODULE Manager ------------------------------
(***************************************************************************)
(* Who the manager app is: the signature check of an apk                   *)
(* (manager/apk_sign.c), the search of /data/app with its cache of apks    *)
(* seen before (manager/throne_tracker.c), started by every new            *)
(* packages.list (manager/pkg_observer.c) and at boot-completed, and the   *)
(* pruning of grants whose app is gone.                                    *)
(*                                                                         *)
(* A file is a sequence of cells, one per field: a length, an id, a magic  *)
(* or a piece of content.                                                  *)
(***************************************************************************)
EXTENDS Naturals, FiniteSets, Sequences, SequencesExt

CONSTANTS
    Apps,       \* the apps that can be installed: one package, one apk each
    Apk,        \* app -> its base.apk, a sequence of cells
    Genuine,    \* the apps signed by the manager's author, in the v2 scheme only
    Uids,       \* appids that Android assigns
    MaxWrites   \* how often packages.list is written

ASSUME ManagerAssumption == MaxWrites \in Nat /\ DOMAIN Apk = Apps
                             /\ Genuine \subseteq Apps /\ Uids \subseteq Nat \ {0}

KSU_INVALID_APPID == 0

-----------------------------------------------------------------------------
(* apk_sign.c *)

EOCD == 50          \* 0x06054b50
ZIP64 == 64         \* 0x07064b50
SIG_BLOCK == 42     \* "APK Sig Block 42"
V2 == 71            \* 0x7109871a
V3 == 30            \* 0xf05368c0
V3_1 == 31          \* 0x1b93ad61
EXPECTED_CERT == 9  \* the certificate of EXPECTED_SIZE and EXPECTED_HASH
EXPECTED_SIZE == 1
MaxComment == 2     \* 0xffff

Fails == 0 \* no position: cells are counted from 1

\* read_length_prefixed_end(): the value starts at pos + 1; its end, which is
\* the first cell behind it, or Fails.
read_length_prefixed_end(f, pos, end) ==
    IF pos = Fails \/ pos >= end \/ f[pos] > end - pos - 1 THEN Fails ELSE pos + 1 + f[pos]

\* check_block(): signers, the first signer, its signed data, the digests in
\* it, and the first certificate of the certificates behind them.
check_block(f, pos, end) ==
    LET signers == read_length_prefixed_end(f, pos, end)
        signer == read_length_prefixed_end(f, pos + 1, signers)
        data == read_length_prefixed_end(f, pos + 2, signer)
        digests == read_length_prefixed_end(f, pos + 3, data)
        certs == read_length_prefixed_end(f, digests, data)
        cert == read_length_prefixed_end(f, digests + 1, certs)
    IN  /\ Fails \notin {signers, signer, data, digests, certs, cert}
        /\ f[digests + 1] = EXPECTED_SIZE
        /\ f[digests + 2] = EXPECTED_CERT

\* The first end-of-central-directory record from the back whose comment ends
\* with the file, and not behind a zip64 locator.
EocdOf(f) ==
    LET n == Len(f)
        hits == {i \in 0..MaxComment : n - i >= 4 /\ f[n - i] = i /\ f[n - i - 3] = EOCD}
        i == CHOOSE j \in hits : \A k \in hits : j <= k
        at == n - i - 3
    IN  IF hits = {} \/ (at > 1 /\ f[at - 1] = ZIP64) THEN Fails ELSE at

\* One pair of the signing block: its length, its id, its value.
Pair(f, st, end) ==
    LET pair_end == read_length_prefixed_end(f, st.pos, end)
        id == f[st.pos + 1]
    IN  IF st.pos >= end THEN st
        ELSE IF pair_end = Fails \/ f[st.pos] < 1 THEN [st EXCEPT !.pos = end, !.valid = FALSE, !.bad = TRUE]
        ELSE [st EXCEPT !.pos = pair_end,
                        !.v2 = IF id = V2 THEN @ + 1 ELSE @,
                        !.valid = IF id = V2 THEN check_block(f, st.pos + 2, pair_end) ELSE @,
                        !.v3 = @ \/ id \in {V3, V3_1}]

\* Mutant: a second v2 block takes the place of the first.
LastBlockCounts(f, st) == st.valid /\ ~st.bad /\ ~st.v3

\* The verdict once all pairs are read.
Verdict(f, st) == st.valid /\ ~st.bad /\ st.v2 = 1 /\ ~st.v3

\* check_v2_signature(): the record, the central directory between the block
\* and the record, the block's two sizes and its magic, then the pairs.
check_v2_signature(f) ==
    LET eocd == EocdOf(f)
        cd == f[eocd + 2] \* cells before the central directory
        pairs_end == cd - 1
        size == f[pairs_end]
        head == cd - size
        walk[n \in 0..cd] ==
            IF n = 0 THEN [pos |-> head + 1, v2 |-> 0, valid |-> FALSE, v3 |-> FALSE, bad |-> FALSE]
            ELSE Pair(f, walk[n - 1], pairs_end)
    IN  /\ eocd # Fails
        /\ cd < eocd /\ f[eocd + 1] = eocd - cd - 1 /\ cd >= 4
        /\ f[cd] = SIG_BLOCK
        /\ size >= 2 /\ size <= cd - 1
        /\ f[head] = size
        /\ Verdict(f, walk[cd])

is_manager_apk(a) == check_v2_signature(Apk[a])

-----------------------------------------------------------------------------
(* throne_tracker.c and pkg_observer.c *)

VARIABLES
    dirs,       \* apps with a directory in /data/app
    packages,   \* packages.list: a function from apps to appids
    manager,    \* ksu_manager_appid
    cache,      \* apk_path_hash_list: the apks seen before that are not the manager's
    exists,     \* ... those of them this search has met
    grants,     \* allowlist: <<appid, package>>
    obs,        \* track_throne() in ksu_handle_inode_event(): pc, uid_list, directories left
    boot,       \* track_throne(true) at boot-completed: pc, uid_list
    writes,
    settled     \* how often the list was handled since it changed (2: twice or more)

managerVars == <<dirs, packages, manager, cache, exists, grants, obs, boot, writes, settled>>

NoList == [a \in {} |-> KSU_INVALID_APPID]

ManagerInit ==
    /\ dirs = {} /\ packages = NoList
    /\ manager = KSU_INVALID_APPID /\ cache = {} /\ exists = {} /\ grants = {}
    /\ obs = [pc |-> "idle", uid_list |-> NoList, todo |-> {}]
    /\ boot = [pc |-> "idle", uid_list |-> NoList]
    /\ writes = 0 /\ settled = 0

\* Android unpacks an app, and removes the directory of one that is gone.
ChangeDirs(a) ==
    /\ \/ a \notin dirs /\ dirs' = dirs \cup {a}
       \/ a \in dirs /\ a \notin DOMAIN packages /\ dirs' = dirs \ {a}
    /\ UNCHANGED <<packages, manager, cache, exists, grants, obs, boot, writes, settled>>

\* Android renames a new packages.list into place: changes may have been
\* collected, an appid may pass from one app to another.  The same thread runs
\* ksu_handle_inode_event() and reads the list before it goes on.
ksu_handle_inode_event(new) ==
    /\ obs.pc = "idle" /\ writes < MaxWrites
    /\ DOMAIN new \subseteq dirs
    /\ \A a, b \in DOMAIN new : new[a] = new[b] => a = b
    /\ \A a \in DOMAIN new \cap DOMAIN packages : new[a] = packages[a]
    /\ packages' = new
    /\ obs' = [pc |-> "check", uid_list |-> new, todo |-> {}]
    /\ writes' = writes + 1
    /\ settled' = IF new = packages THEN settled ELSE 0
    /\ UNCHANGED <<dirs, manager, cache, exists, grants, boot>>

\* track_throne(): is the manager still installed; if there was none, the
\* search starts, and marks the cache.
track_throne ==
    /\ obs.pc = "check"
    /\ LET found == \E a \in DOMAIN obs.uid_list : obs.uid_list[a] = manager
           searches == ~found /\ manager = KSU_INVALID_APPID
       IN  /\ manager' = IF found THEN manager ELSE KSU_INVALID_APPID
           /\ obs' = [obs EXCEPT !.pc = IF searches THEN "search" ELSE "prune",
                                 !.todo = IF searches THEN dirs ELSE {}]
           /\ exists' = IF searches THEN {} ELSE exists
    /\ UNCHANGED <<dirs, packages, cache, grants, boot, writes, settled>>

\* crown_manager(): the package of the apk's path, if the list has it.
crown_manager(a, list) == manager' = IF a \in DOMAIN list THEN list[a] ELSE manager

\* Mutant: the manager's apk goes into the cache as well.
CacheAll(a) ==
    /\ obs.pc = "search" /\ a \in obs.todo
    /\ IF a \in cache \/ ~is_manager_apk(a)
       THEN /\ cache' = cache \cup {a} /\ exists' = exists \cup {a}
            /\ obs' = [obs EXCEPT !.todo = @ \ {a}] /\ UNCHANGED manager
       ELSE /\ crown_manager(a, obs.uid_list)
            /\ obs' = [obs EXCEPT !.todo = {}]
            /\ cache' = cache \cup {a} /\ exists' = exists \cup {a}
    /\ UNCHANGED <<dirs, packages, grants, boot, writes, settled>>

\* my_actor() on one base.apk: the cache, the signature, the crown.  The
\* manager found, the search stops and the cache is emptied.
my_actor(a) ==
    /\ obs.pc = "search" /\ a \in obs.todo
    /\ IF a \notin dirs \* gone before it was opened
       THEN /\ obs' = [obs EXCEPT !.todo = @ \ {a}] /\ UNCHANGED <<manager, cache, exists>>
       ELSE IF a \in cache \/ ~is_manager_apk(a)
       THEN /\ cache' = cache \cup {a} /\ exists' = exists \cup {a}
            /\ obs' = [obs EXCEPT !.todo = @ \ {a}] /\ UNCHANGED manager
       ELSE /\ crown_manager(a, obs.uid_list)
            /\ obs' = [obs EXCEPT !.todo = {}] /\ cache' = {} /\ UNCHANGED exists
    /\ UNCHANGED <<dirs, packages, grants, boot, writes, settled>>

\* The end of search_manager(): entries whose apk was not met are dropped.
search_manager ==
    /\ obs.pc = "search" /\ obs.todo = {}
    /\ cache' = cache \cap exists
    /\ obs' = [obs EXCEPT !.pc = "prune"]
    /\ UNCHANGED <<dirs, packages, manager, exists, grants, boot, writes, settled>>

\* Mutant: the appid alone decides.
UidExists(g, list) == \E a \in DOMAIN list : list[a] = g[1]

\* is_uid_exist(): the appid and the package.
is_uid_exist(g, list) == \E a \in DOMAIN list : list[a] = g[1] /\ a = g[2]

\* ksu_prune_allowlist() at the end of track_throne().
Prune ==
    /\ obs.pc = "prune"
    /\ grants' = {g \in grants : is_uid_exist(g, obs.uid_list)}
    /\ obs' = [pc |-> "idle", uid_list |-> NoList, todo |-> {}]
    /\ settled' = IF settled = 2 THEN 2 ELSE settled + 1
    /\ UNCHANGED <<dirs, packages, manager, cache, exists, boot, writes>>

\* on_boot_completed(): track_throne(true) in another thread, with the list of
\* the moment it reads.
BootReads ==
    /\ boot.pc = "idle" /\ boot' = [pc |-> "prune", uid_list |-> packages]
    /\ UNCHANGED <<dirs, packages, manager, cache, exists, grants, obs, writes, settled>>

BootPrunes ==
    /\ boot.pc = "prune" /\ boot' = [pc |-> "done", uid_list |-> NoList]
    /\ grants' = {g \in grants : is_uid_exist(g, boot.uid_list)}
    /\ UNCHANGED <<dirs, packages, manager, cache, exists, obs, writes, settled>>

\* The manager grants root to an app that is installed.
Grant(a) ==
    /\ manager # KSU_INVALID_APPID /\ a \in DOMAIN packages
    /\ grants' = grants \cup {<<packages[a], a>>}
    /\ UNCHANGED <<dirs, packages, manager, cache, exists, obs, boot, writes, settled>>

Lists == UNION {[D -> Uids] : D \in SUBSET Apps}

ManagerNext ==
    \/ \E a \in Apps : ChangeDirs(a) \/ my_actor(a) \/ Grant(a)
    \/ \E new \in Lists : ksu_handle_inode_event(new)
    \/ track_throne \/ search_manager \/ Prune \/ BootReads \/ BootPrunes

ManagerSpec == ManagerInit /\ [][ManagerNext]_managerVars

-----------------------------------------------------------------------------
\* Only an app with a genuine apk is ever crowned, with its own appid: no apk
\* that resembles a genuine one passes, and no app that shares the list with
\* the manager gets its crown.
CrownGoesToSigner ==
    [][manager' \notin {manager, KSU_INVALID_APPID} =>
          \E a \in Genuine \cap DOMAIN packages : packages[a] = manager']_managerVars

\* An app whose apk is genuine is the manager at the latest when packages.list
\* has been handled twice without a change (once suffices unless the same list
\* took the old manager away), whatever the cache holds.  The exception is an
\* appid that passed from the old manager to another app within one list.
CrownedByTheSecondEvent ==
    settled = 2 /\ obs.pc = "idle" =>
        \A a \in DOMAIN packages \cap Genuine :
            manager = packages[a] \/ \E b \in DOMAIN packages : manager = packages[b]

\* A grant does not outlive its app: once the list is handled, an appid that
\* has passed to another app carries no grant with it.
NoInheritedGrant ==
    obs.pc = "idle" => \A g \in grants : g[2] \in DOMAIN packages /\ packages[g[2]] = g[1]
=============================================================================
