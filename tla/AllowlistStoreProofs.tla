------------------------ MODULE AllowlistStoreProofs ------------------------
(***************************************************************************)
(* Proofs about AllowlistStore, for every set of apps, every old file and  *)
(* every bound on the environment: the load of the list is undisturbed, no *)
(* grant outlives its app, a profile keeps its meaning in the file, and a  *)
(* file that is settled matches the list in memory.                        *)
(***************************************************************************)
EXTENDS AllowlistStore, TLAPS

(* LoadUndisturbed is not inductive: that no ioctl or dump is under way    *)
(* during the load rests on the manager not being crowned yet, which rests *)
(* on no track_throne() having run, which rests on the observer not being  *)
(* started before the load.                                                *)
Quiet ==
    /\ works = 0 /\ ipc = "idle" /\ mpc = "idle"
    /\ crowned = FALSE /\ observing = FALSE
    /\ \A t \in Trackers : tpc[t] = "idle"

QuietInv ==
    /\ tpc \in [Trackers -> {"idle", "read", "crown", "prune", "persist"}]
    /\ bpc \in {"early", "load"} => Quiet

USE DEF Quiet, QuietInv, Trackers

\* The initial state is quiet.
LEMMA QuietInit == Init => QuietInv
BY DEF Init

\* The boot thread leaves "early" and "load" before it starts anything.
LEMMA BootKeeps == QuietInv /\ BootNext => QuietInv'
<1> SUFFICES ASSUME QuietInv, BootNext PROVE QuietInv'
    OBVIOUS
<1>1. CASE LoadOpen
    BY <1>1 DEF LoadOpen, BootOnly, initVars
<1>2. CASE LoadRecord
    BY <1>2 DEF LoadRecord, BootOnly, initVars
<1>3. CASE LoadEnd
    BY <1>3 DEF LoadEnd, BootOnly, initVars
<1>4. CASE LoadPersist
    BY <1>4 DEF LoadPersist, BootOnly, initVars
<1>5. CASE ObserverInit
    BY <1>5 DEF ObserverInit, BootOnly, initVars
<1>6. CASE BootCompleted
    BY <1>6 DEF BootCompleted, BootOnly, initVars
<1> QED
    BY <1>1, <1>2, <1>3, <1>4, <1>5, <1>6 DEF BootNext

\* An idle tracker stays idle until somebody starts it, and only a tracker
\* crowns the manager.
LEMMA TrackKeeps == ASSUME NEW t \in Trackers, QuietInv, TrackNext(t)
                    PROVE  QuietInv'
<1>1. CASE TrackRead(t)
    BY <1>1 DEF TrackRead, TrackOnly, Step, bootVars, initVars
<1>2. CASE TrackAbort(t)
    BY <1>2 DEF TrackAbort, TrackOnly, Step, bootVars, initVars
<1>3. CASE TrackCrown(t)
    BY <1>3 DEF TrackCrown, TrackOnly, Step, bootVars, initVars
<1>4. CASE PruneEarly(t)
    BY <1>4 DEF PruneEarly, TrackOnly, Step, bootVars, initVars
<1>5. CASE prune_allowlist(t)
    BY <1>5 DEF prune_allowlist, TrackOnly, Step, bootVars, initVars
<1>6. CASE PrunePersist(t)
    BY <1>6 DEF PrunePersist, TrackOnly, Step, bootVars, initVars
<1>7. CASE TrackReadPart(t)
    BY <1>7 DEF TrackReadPart, TrackOnly, Step, bootVars, initVars
<1> QED
    BY TrackNext(t), <1>7, <1>1, <1>2, <1>3, <1>4, <1>5, <1>6 DEF TrackNext

\* Without an observer a change of packages.list starts no tracker.
LEMMA PackagesKeep == ASSUME NEW apps, QuietInv, PackagesChange(apps)
                      PROVE  QuietInv'
BY DEF PackagesChange, TrackOnly, Step, bootVars, initVars

\* Only a crowned manager sets profiles.
LEMMA SetKeeps == QuietInv /\ (SetNext \/ SetPersist) => QuietInv'
<1> SUFFICES ASSUME QuietInv, SetNext \/ SetPersist PROVE QuietInv'
    OBVIOUS
<1>1. ASSUME NEW u, NEW k, SetProfile(u, k) PROVE QuietInv'
    BY <1>1 DEF SetProfile, only_manager, MgrOnly, bootVars, trackVars, initVars
<1>2. CASE SetPersist
    BY <1>2 DEF SetPersist, MgrOnly, bootVars, trackVars, initVars
<1> QED
    BY <1>1, <1>2 DEF SetNext

\* pid 1 dumps only what was queued.
LEMMA DumpKeeps == QuietInv /\ DumpNext => QuietInv'
<1> SUFFICES ASSUME QuietInv, DumpNext PROVE QuietInv'
    OBVIOUS
<1> USE DEF DumpOnly, bootVars, trackVars
<1>1. CASE DumpOpen
    BY <1>1 DEF DumpOpen
<1>2. CASE DumpOpenFails
    BY <1>2 DEF DumpOpenFails
<1>3. CASE DumpHeader
    BY <1>3 DEF DumpHeader
<1>4. CASE DumpLock
    BY <1>4 DEF DumpLock
<1>5. ASSUME NEW u, DumpRecord(u) PROVE QuietInv'
    BY <1>5 DEF DumpRecord
<1>6. CASE DumpUnlock
    BY <1>6 DEF DumpUnlock
<1> QED
    BY <1>1, <1>2, <1>3, <1>4, <1>5, <1>6 DEF DumpNext

\* A crash restores the initial quiet; writing back concerns only the disk.
LEMMA MachineKeeps == QuietInv /\ (Writeback \/ Crash) => QuietInv'
<1>1. QuietInv /\ Writeback => QuietInv'
    BY DEF Writeback, bootVars, trackVars, initVars
<1>2. QuietInv /\ Crash => QuietInv'
    BY DEF Crash
<1> QED
    BY <1>1, <1>2

\* Every step keeps the quiet before the end of the load.
LEMMA QuietStep == QuietInv /\ [Next]_vars => QuietInv'
<1> SUFFICES ASSUME QuietInv, [Next]_vars PROVE QuietInv'
    OBVIOUS
<1>1. CASE UNCHANGED vars
    BY <1>1 DEF vars, initVars, bootVars, trackVars
<1>2. ASSUME NEW t \in Trackers, TrackNext(t) PROVE QuietInv'
    BY <1>2, TrackKeeps
<1>3. ASSUME NEW apps, PackagesChange(apps) PROVE QuietInv'
    BY <1>3, PackagesKeep
<1> QED
    BY <1>1, <1>2, <1>3, BootKeeps, SetKeeps, DumpKeeps, MachineKeeps DEF Next

(* Until the load of ksu_load_allow_list() is over no dump is queued or    *)
(* running and no ioctl is changing the list, in every boot, also after    *)
(* crashes and in late-load mode: the boot order of on_post_fs_data() and  *)
(* kernelsu_init(), which start the observer after the load, suffices.     *)
THEOREM LoadCorrect == Spec => []LoadUndisturbed
<1>1. QuietInv => LoadUndisturbed
    BY DEF LoadUndisturbed
<1> QED
    BY <1>1, QuietInit, QuietStep, PTL DEF Spec

-----------------------------------------------------------------------------
(* The file and the list.  What a reboot would load is tied to memory      *)
(* through the dump, which writes one record per uid, and through the      *)
(* load, which reads them back.                                            *)

HIDE DEF Quiet, QuietInv, Trackers

\* A file has one record per uid; one of the current version holds no
\* profile of an older one.
WellFormed(v, rs) ==
    /\ \A i, j \in 1..Len(rs) : rs[i].uid = rs[j].uid => i = j
    /\ v = VER => \A i \in 1..Len(rs) : rs[i].kind \in Migrated
    /\ \A i \in 1..Len(rs) : rs[i].uid = Preserve => rs[i].kind \in {"umount", "keep"}

\* What pid 1 has written so far, under the mutex from "dump" on.
FileInv ==
    /\ WellFormed(ver, recs) /\ WellFormed(disk_ver, disk_recs)
    /\ ipc \in {"head", "lock"} => recs = <<>>
    /\ ipc \in {"lock", "dump"} => ver = VER
    /\ ipc = "dump" => /\ \A i \in 1..Len(recs) : recs[i].uid \notin left
                       /\ \A u \in left : mem[u] # None

MemInv ==
    /\ \A u \in Uids : mem[u] \in Migrated \cup {None}
    /\ mem[Preserve] \in {"umount", "keep", None}
    /\ DefaultFollowsProfile

\* Memory is what the records read so far say.
LoadInv ==
    /\ bpc = "early" => \A u \in Uids : mem[u] = None
    /\ bpc = "load" =>
          /\ Readable(ver) /\ lver = ver /\ off <= Len(recs)
          /\ ~failed =>
                /\ \A i \in 1..off : mem[recs[i].uid] = migrate_profile(ver, recs[i].kind)
                /\ \A u \in Uids : (\A i \in 1..off : recs[i].uid # u) => mem[u] = None

\* Somebody still has to queue, or to run, a dump.
Owed == works > 0 \/ mpc = "persist" \/ \E t \in Trackers : tpc[t] = "persist"

AfterLoad == {"observe", "complete", "done"}

SaveInv ==
    /\ ~failed /\ ipc = "dump" =>
          \A u \in Uids : Loaded(u) = IF u \in left THEN None ELSE mem[u]
    /\ ~failed /\ ipc = "idle" /\ bpc \in AfterLoad /\ ~Owed => FileMatches

HadInv == (\A u \in Uids : mem[u] \in had[u] \cup {None}) /\ NoStaleGrant

\* The boot thread's own search for the manager ends the boot.
TrackInv == bpc # "done" => tpc["boot"] = "idle"

DataInv  == FileInv /\ MemInv /\ HadInv
StoreInv == TypeOK /\ DataInv /\ LoadInv /\ TrackInv /\ SaveInv

-----------------------------------------------------------------------------
(* Profiles and files                                                      *)

LEMMA ProfileKinds ==
  /\ Migrated \subseteq Kinds /\ None \notin Kinds /\ None \notin Migrated
  /\ {"umount", "keep"} \subseteq Migrated /\ AppKinds \subseteq Migrated
BY StoreAssumption DEF Migrated, Kinds, SuKinds

\* migrate_profile() gives a profile of the current version, leaves one
\* without su alone, and changes nothing that is current.
LEMMA MigrateCurrent ==
  ASSUME NEW v \in Nat, Readable(v), NEW k \in Kinds, v = VER => k \in Migrated
  PROVE  /\ migrate_profile(v, k) \in Migrated
         /\ k \in {"umount", "keep"} => migrate_profile(v, k) = k
         /\ v = VER => migrate_profile(v, k) = k
<1>1. v \in {2, 3, 4}
  BY DEF Readable, VER
<1>2. CASE k \notin SuKinds
  <2>1. migrate_profile(v, k) = k
    BY <1>2 DEF migrate_profile
  <2>2. k \in {"umount", "keep"}
    BY <1>2 DEF Kinds
  <2> QED BY <2>1, <2>2, ProfileKinds
<1>3. CASE k \in SuKinds
  <2>1. k \notin {"umount", "keep"}
    BY <1>3 DEF SuKinds
  <2>2. CASE v = 2
    BY <2>1, <2>2, <1>3 DEF migrate_profile, Migrated, VER
  <2>3. CASE v = 3
    BY <2>1, <2>3, <1>3 DEF migrate_profile, Migrated, VER
  <2>4. CASE v = 4
    BY <2>1, <2>4, <1>3 DEF migrate_profile, VER
  <2> QED BY <1>1, <2>2, <2>3, <2>4
<1> QED BY <1>2, <1>3

\* What a load makes of a file, and of one with one record per uid.
LoadedOf(v, rs, u) ==
    LET mine == {i \in 1..Len(rs) : rs[i].uid = u}
    IN  IF Readable(v) /\ mine # {}
        THEN migrate_profile(v, rs[CHOOSE i \in mine : \A j \in mine : j <= i].kind)
        ELSE None

LEMMA LoadedAs == \A u : Loaded(u) = LoadedOf(ver, recs, u) /\ Loaded(u)' = LoadedOf(ver', recs', u)
BY DEF Loaded, LoadedOf

LEMMA LoadedIs ==
  ASSUME NEW v, NEW rs, NEW u, \A i, j \in 1..Len(rs) : rs[i].uid = rs[j].uid => i = j
  PROVE  /\ \A i \in 1..Len(rs) : rs[i].uid = u /\ Readable(v) =>
               LoadedOf(v, rs, u) = migrate_profile(v, rs[i].kind)
         /\ ~Readable(v) \/ (\A i \in 1..Len(rs) : rs[i].uid # u) => LoadedOf(v, rs, u) = None
<1> DEFINE mine == {i \in 1..Len(rs) : rs[i].uid = u}
<1>1. ASSUME NEW i \in 1..Len(rs), rs[i].uid = u, Readable(v)
      PROVE  LoadedOf(v, rs, u) = migrate_profile(v, rs[i].kind)
  <2>1. mine = {i}
    BY <1>1
  <2>2. (CHOOSE k \in mine : \A j \in mine : j <= k) = i
    BY <2>1
  <2> QED BY <1>1, <2>1, <2>2 DEF LoadedOf
<1>2. ASSUME ~Readable(v) \/ \A i \in 1..Len(rs) : rs[i].uid # u
      PROVE  LoadedOf(v, rs, u) = None
  BY <1>2 DEF LoadedOf
<1> QED BY <1>1, <1>2

LEMMA EmptyLoads == \A v, u : LoadedOf(0, v, u) = None /\ LoadedOf(v, <<>>, u) = None
<1>1. ~Readable(0) /\ Len(<<>>) = 0
  BY DEF Readable
<1> QED BY <1>1 DEF LoadedOf

-----------------------------------------------------------------------------
(* Frames: the parts of the invariant that a step does not touch.          *)

dataVars == <<memVars, fileVars, diskVars, ipc, left, had>>

LEMMA DataKept == DataInv /\ UNCHANGED dataVars => DataInv'
<1> SUFFICES ASSUME DataInv, UNCHANGED dataVars PROVE DataInv'
  OBVIOUS
<1> USE DEF DataInv, dataVars, memVars, fileVars, diskVars
<1>1. FileInv'
  BY DEF FileInv, WellFormed
<1>2. MemInv'
  BY DEF MemInv, DefaultFollowsProfile
<1>3. HadInv'
  <2>1. \A u : Loaded(u)' = Loaded(u)
    BY DEF Loaded
  <2> QED BY <2>1 DEF HadInv, NoStaleGrant
<1> QED BY <1>1, <1>2, <1>3

LEMMA LoadKept ==
  ASSUME LoadInv, UNCHANGED <<bpc, lver, off, mem, fileVars>>, failed => failed'
  PROVE  LoadInv'
BY DEF LoadInv, fileVars

LEMMA SaveKept ==
  ASSUME SaveInv, UNCHANGED <<mem, fileVars, ipc, left>>, failed => failed',
         bpc' \in AfterLoad => bpc \in AfterLoad,
         ~failed' /\ Owed => Owed'
  PROVE  SaveInv'
<1>1. \A u : Loaded(u)' = Loaded(u)
  BY DEF Loaded, fileVars
<1> QED BY <1>1 DEF SaveInv, FileMatches

\* A request queues a dump or is lost.
LEMMA Requested ==
  ASSUME TypeOK, persistent_allow_list
  PROVE  /\ works' \in Nat /\ failed' \in BOOLEAN /\ (failed => failed')
         /\ failed' \/ Owed'
         /\ works' \in {works, works + 1}
<1>1. works \in Nat /\ failed \in BOOLEAN
  BY DEF TypeOK
<1>2. CASE works' = works + 1 /\ NoFault
  <2>1. works' > 0 /\ works' \in Nat
    BY <1>1, <1>2
  <2> QED BY <1>1, <1>2, <2>1 DEF NoFault, Owed
<1>3. CASE UNCHANGED works /\ Fault
  BY <1>1, <1>3 DEF Fault
<1> QED BY <1>2, <1>3 DEF persistent_allow_list


-----------------------------------------------------------------------------
(* The boot thread                                                         *)

LEMMA LoadOpenStore == ASSUME StoreInv, LoadOpen PROVE StoreInv'
<1> USE DEF StoreInv
<1>1. UNCHANGED dataVars /\ UNCHANGED <<works, tpc, mpc, failed>> /\ off' = 0 /\ lver' = ver
  BY DEF LoadOpen, BootOnly, NoFault, dataVars, memVars, fileVars, diskVars, initVars
<1>2. TypeOK'
  BY <1>1 DEF LoadOpen, BootOnly, NoFault, TypeOK, dataVars, memVars, fileVars, diskVars
<1>3. DataInv'
  BY <1>1, DataKept
<1>4. \A u \in Uids : mem[u] = None
  BY DEF LoadInv, LoadOpen
<1>5. LoadInv'
  <2>1. off' <= Len(recs)
    BY <1>1 DEF TypeOK
  <2>2. bpc' = (IF Readable(ver) THEN "load" ELSE "observe") /\ UNCHANGED <<mem, ver, recs>>
    BY <1>1 DEF LoadOpen, dataVars, memVars, fileVars
  <2> QED BY <1>1, <1>4, <2>1, <2>2 DEF LoadInv, Readable
<1>6. SaveInv'
  <2>1. ~Readable(ver) => FileMatches
    BY <1>4 DEF Loaded, FileMatches
  <2>2. CASE Readable(ver)
    <3>1. bpc' \notin AfterLoad
      BY <2>2 DEF LoadOpen, AfterLoad
    <3> QED BY <1>1, <3>1, SaveKept DEF Owed, dataVars, memVars, fileVars
  <2>3. CASE ~Readable(ver)
    <3>1. FileMatches'
      BY <2>1, <2>3, <1>1 DEF FileMatches, Loaded, dataVars, memVars, fileVars
    <3>2. ipc = "dump" => ipc' = "dump" /\ UNCHANGED <<left, failed>>
      BY <1>1 DEF dataVars
    <3>3. \A u : Loaded(u)' = Loaded(u)
      BY <1>1 DEF Loaded, dataVars, fileVars
    <3> QED BY <1>1, <3>1, <3>3 DEF SaveInv, dataVars, memVars
  <2> QED BY <2>2, <2>3
<1>7. TrackInv'
  BY <1>1 DEF TrackInv, LoadOpen
<1> QED BY <1>2, <1>3, <1>5, <1>6, <1>7

LEMMA LoadRecordStore == ASSUME StoreInv, QuietInv, LoadRecord PROVE StoreInv'
<1> USE DEF StoreInv, DataInv
<1> DEFINE r == recs[off + 1]
           k == migrate_profile(lver, r.kind)
<1>0. /\ bpc = "load" /\ bpc' = "load" /\ ipc = "idle" /\ off' = off + 1
      /\ UNCHANGED <<fileVars, diskVars, initVars, lver, works, tpc, mpc>>
  BY DEF LoadRecord, BootOnly, QuietInv, Quiet
<1>1. /\ off \in Nat /\ off + 1 \in 1..Len(recs) /\ Len(recs) \in Nat
      /\ Readable(ver) /\ lver = ver /\ ver \in Nat
  BY <1>0 DEF LoadRecord, LoadInv, TypeOK
<1>2. /\ recs \in Seq(Record) /\ r \in Record /\ r.uid \in Uids /\ r.kind \in Kinds
      /\ ver = VER => r.kind \in Migrated
      /\ r.uid = Preserve => r.kind \in {"umount", "keep"}
  <2>1. recs \in Seq(Record)
    BY DEF TypeOK
  <2>2. r \in Record
    BY <2>1, <1>1
  <2> QED BY <2>1, <2>2, <1>1 DEF Record, FileInv, WellFormed
<1>3. /\ k = migrate_profile(ver, r.kind)
      /\ k \in Migrated /\ k \in Kinds
      /\ r.uid = Preserve => k \in {"umount", "keep"}
  <2>1. k = migrate_profile(ver, r.kind)
    BY <1>1
  <2>2. k \in Migrated /\ (r.kind \in {"umount", "keep"} => k = r.kind)
    BY <2>1, <1>1, <1>2, MigrateCurrent
  <2> QED BY <2>1, <2>2, <1>2, ProfileKinds
<1> HIDE DEF k, r
<1>4. SaveInv' /\ TrackInv'
  BY <1>0 DEF SaveInv, AfterLoad, initVars, TrackInv
<1>5. ASSUME set_app_profile(r.uid, k), NoFault PROVE StoreInv'
  <2>1. /\ mem' = [mem EXCEPT ![r.uid] = k]
        /\ mem \in [Uids -> Kinds \cup {None}]
        /\ had' = [u \in Uids |-> had[u] \cup {mem'[u]}]
        /\ default_umount' = IF r.uid = Preserve THEN k = "umount" ELSE default_umount
        /\ failed' = failed
    BY <1>5 DEF set_app_profile, Note, NoFault, TypeOK
  <2>2. \A u \in Uids : mem'[u] = IF u = r.uid THEN k ELSE mem[u]
    BY <2>1
  <2>3. TypeOK'
    <3>1. mem' \in [Uids -> Kinds \cup {None}]
      BY <2>1, <1>2, <1>3
    <3>2. had' \in [Uids -> SUBSET (Kinds \cup {None})]
      BY <2>1, <3>1 DEF TypeOK
    <3>3. /\ UNCHANGED <<ver, recs, disk_ver, disk_recs, works, ipc, left, lver, late,
                        boot_completed, observing, crowned, packages, tpc, snap, mpc, failed>>
          /\ off' \in Nat /\ bpc' = "load"
      BY <1>0, <1>1, <2>1 DEF fileVars, diskVars, initVars, LoadRecord, BootOnly
    <3>4. default_umount' \in BOOLEAN
      BY <2>1 DEF TypeOK
    <3> QED BY <3>1, <3>2, <3>3, <3>4 DEF TypeOK
  <2>4. FileInv'
    BY <1>0 DEF FileInv, WellFormed, fileVars, diskVars, initVars
  <2>5. MemInv'
    <3>1. Preserve \in Uids
      BY DEF Uids
    <3>2. None \notin Kinds
      BY ProfileKinds
    <3> QED BY <2>1, <2>2, <3>1, <3>2, <1>3 DEF MemInv, DefaultFollowsProfile
  <2>6. HadInv'
    <3>1. \A u : Loaded(u)' = Loaded(u)
      BY <1>0 DEF Loaded, fileVars
    <3>2. \A u \in Uids : mem'[u] \in had'[u] /\ had[u] \subseteq had'[u]
      BY <2>1
    <3> QED BY <3>1, <3>2 DEF HadInv, NoStaleGrant
  <2>7. LoadInv'
    <3>1. UNCHANGED <<ver, recs>>
      BY <1>0 DEF fileVars
    <3>2. ASSUME ~failed, NEW i \in 1..(off + 1)
          PROVE  mem'[recs[i].uid] = migrate_profile(ver, recs[i].kind)
      <4>1. CASE i = off + 1
        BY <4>1, <2>2, <1>2, <1>3 DEF r
      <4>2. CASE i # off + 1
        <5>1. i \in 1..off /\ i \in 1..Len(recs)
          BY <4>2, <1>1
        <5>2. recs[i].uid # r.uid
          BY <5>1, <4>2, <1>1 DEF FileInv, WellFormed, r
        <5>3. recs[i].uid \in Uids
          <6>1. recs[i] \in Record
            BY <5>1, <1>2
          <6> QED BY <6>1 DEF Record
        <5> QED BY <5>1, <5>2, <5>3, <2>2, <3>2, <1>0 DEF LoadInv
      <4> QED BY <4>1, <4>2
    <3>3. ASSUME ~failed, NEW u \in Uids, \A i \in 1..(off + 1) : recs[i].uid # u
          PROVE  mem'[u] = None
      <4>1. u # r.uid /\ \A i \in 1..off : recs[i].uid # u
        BY <3>3, <1>1 DEF r
      <4> QED BY <4>1, <2>2, <3>3, <1>0 DEF LoadInv
    <3> QED BY <1>0, <1>1, <2>1, <3>1, <3>2, <3>3 DEF LoadInv
  <2> QED BY <1>4, <2>3, <2>4, <2>5, <2>6, <2>7
<1>6. ASSUME UNCHANGED <<memVars, had>>, Fault PROVE StoreInv'
  <2>1. TypeOK'
    BY <1>0, <1>1, <1>6 DEF TypeOK, fileVars, diskVars, memVars, initVars, LoadRecord, BootOnly, Fault
  <2>2. DataInv'
    BY <1>0, <1>6, DataKept DEF dataVars, initVars
  <2>3. LoadInv'
    BY <1>0, <1>1, <1>6 DEF LoadInv, Fault, fileVars
  <2> QED BY <1>4, <2>1, <2>2, <2>3
<1> QED BY <1>5, <1>6 DEF LoadRecord, k, r

LEMMA LoadEndStore == ASSUME StoreInv, QuietInv, LoadEnd PROVE StoreInv'
<1> USE DEF StoreInv
<1>0. /\ bpc = "load" /\ ipc = "idle" /\ UNCHANGED dataVars
      /\ UNCHANGED <<works, tpc, mpc, failed>> /\ off' = 0 /\ lver' = 0
      /\ bpc' = IF lver < VER THEN "load_persist" ELSE "observe"
  BY DEF LoadEnd, BootOnly, NoFault, QuietInv, Quiet, dataVars, memVars, fileVars, diskVars, initVars
<1>1. TypeOK'
  BY <1>0 DEF LoadEnd, BootOnly, TypeOK, dataVars, memVars, fileVars, diskVars
<1>2. DataInv'
  BY <1>0, DataKept
<1>3. LoadInv'
  BY <1>0 DEF LoadInv
<1>4. SaveInv'
  <2>1. CASE failed
    BY <2>1, <1>0 DEF SaveInv
  <2>2. CASE lver < VER
    BY <2>2, <1>0 DEF SaveInv, AfterLoad, dataVars
  <2>3. CASE ~failed /\ ~(lver < VER)
    <3>1. /\ off = Len(recs) /\ ver = VER /\ Readable(ver) /\ Len(recs) \in Nat
          /\ recs \in Seq(Record)
      BY <2>3, <1>0 DEF LoadInv, LoadEnd, Readable, TypeOK, VER
    <3>2. \A i, j \in 1..Len(recs) : recs[i].uid = recs[j].uid => i = j
      BY DEF DataInv, FileInv, WellFormed
    <3>3. ASSUME NEW u \in Uids PROVE Loaded(u) = mem[u]
      <4>1. CASE \E i \in 1..Len(recs) : recs[i].uid = u
        <5>1. PICK i \in 1..Len(recs) : recs[i].uid = u
          BY <4>1
        <5>2. Loaded(u) = migrate_profile(ver, recs[i].kind)
          BY <5>1, <3>1, <3>2, LoadedAs, LoadedIs
        <5>3. mem[recs[i].uid] = migrate_profile(ver, recs[i].kind)
          BY <2>3, <3>1, <1>0 DEF LoadInv
        <5> QED BY <5>1, <5>2, <5>3
      <4>2. CASE ~ \E i \in 1..Len(recs) : recs[i].uid = u
        <5>1. Loaded(u) = None
          BY <4>2, <3>2, LoadedAs, LoadedIs
        <5>2. mem[u] = None
          BY <4>2, <2>3, <3>1, <1>0 DEF LoadInv
        <5> QED BY <5>1, <5>2
      <4> QED BY <4>1, <4>2
    <3>4. \A u : Loaded(u)' = Loaded(u)
      BY <1>0 DEF dataVars, fileVars, Loaded
    <3> QED BY <3>3, <3>4, <1>0 DEF SaveInv, FileMatches, dataVars, memVars
  <2> QED BY <2>1, <2>2, <2>3
<1>5. TrackInv'
  BY <1>0 DEF TrackInv
<1> QED BY <1>1, <1>2, <1>3, <1>4, <1>5

LEMMA LoadPersistStore == ASSUME StoreInv, LoadPersist PROVE StoreInv'
<1> USE DEF StoreInv
<1>0. /\ UNCHANGED dataVars /\ UNCHANGED <<tpc, mpc>> /\ bpc' = "observe"
  BY DEF LoadPersist, BootOnly, dataVars, memVars, fileVars, diskVars, initVars
<1>1. works' \in Nat /\ failed' \in BOOLEAN /\ (failed => failed') /\ (failed' \/ Owed')
  BY Requested DEF LoadPersist
<1>2. TypeOK'
  BY <1>0, <1>1 DEF LoadPersist, BootOnly, TypeOK, dataVars, memVars, fileVars, diskVars
<1>3. DataInv' /\ LoadInv'
  <2>1. DataInv'
    BY <1>0, DataKept
  <2> QED BY <2>1, <1>0 DEF LoadInv
<1>4. SaveInv'
  <2>1. \A u : Loaded(u)' = Loaded(u)
    BY <1>0 DEF Loaded, dataVars, fileVars
  <2> QED BY <1>0, <1>1, <2>1 DEF SaveInv, dataVars, memVars
<1>5. TrackInv'
  BY <1>0 DEF TrackInv, LoadPersist
<1> QED BY <1>2, <1>3, <1>4, <1>5

LEMMA BootEndStore == ASSUME StoreInv, ObserverInit \/ BootCompleted PROVE StoreInv'
<1> USE DEF StoreInv
<1>0. /\ UNCHANGED dataVars /\ UNCHANGED <<works, mpc, failed>>
      /\ bpc \in {"observe", "complete"} /\ bpc' \in {"complete", "done"}
  BY DEF ObserverInit, BootCompleted, BootOnly, NoFault, dataVars, memVars, fileVars, diskVars, initVars
<1>1. TypeOK'
  <2>1. tpc' \in [Trackers -> {"idle", "read", "crown", "prune", "persist"}]
    BY DEF ObserverInit, BootCompleted, TypeOK
  <2> QED BY <1>0, <2>1 DEF ObserverInit, BootCompleted, BootOnly, TypeOK, dataVars, memVars, fileVars, diskVars
<1>2. DataInv'
  BY <1>0, DataKept
<1>3. LoadInv'
  BY <1>0 DEF LoadInv
<1>4. SaveInv'
  <2>1. CASE ObserverInit
    BY <1>0, <2>1, SaveKept DEF ObserverInit, AfterLoad, Owed, dataVars, memVars, fileVars
  <2>2. CASE BootCompleted
    <3>1. tpc["boot"] = "idle" /\ \A t \in Trackers : tpc'[t] = IF t = "boot" THEN "read" ELSE tpc[t]
      BY <2>2 DEF BootCompleted, TypeOK, TrackInv
    <3>2. Owed' <=> Owed
      BY <3>1, <1>0 DEF Owed
    <3> QED BY <1>0, <3>2, <2>2, SaveKept DEF BootCompleted, AfterLoad, dataVars, memVars, fileVars
  <2> QED BY <2>1, <2>2
<1>5. TrackInv'
  BY DEF ObserverInit, BootCompleted, TrackInv
<1> QED BY <1>1, <1>2, <1>3, <1>4, <1>5

-----------------------------------------------------------------------------
(* The trackers                                                            *)

\* What a step of a tracker does to the steps of both.
LEMMA TrackerSteps ==
  ASSUME TypeOK, NEW t \in Trackers, NEW from, from # "idle",
         NEW to \in {"idle", "read", "crown", "prune", "persist"},
         TrackInv, Step(t, from, to), bpc' = bpc
  PROVE  /\ tpc' \in [Trackers -> {"idle", "read", "crown", "prune", "persist"}]
         /\ TrackInv'
         /\ from # "persist" /\ UNCHANGED <<works, mpc>> /\ Owed => Owed'
         /\ to = "persist" => Owed'
<1>1. tpc \in [Trackers -> {"idle", "read", "crown", "prune", "persist"}] /\ tpc[t] = from
  BY DEF TypeOK, Step
<1>2. \A q \in Trackers : tpc'[q] = IF q = t THEN to ELSE tpc[q]
  BY <1>1 DEF Step
<1>3. tpc' \in [Trackers -> {"idle", "read", "crown", "prune", "persist"}]
  BY <1>1 DEF Step
<1>4. TrackInv'
  BY <1>1, <1>2 DEF TrackInv, Trackers
<1>5. to = "persist" => Owed'
  BY <1>2 DEF Owed
<1>6. from # "persist" /\ UNCHANGED <<works, mpc>> /\ Owed => Owed'
  BY <1>1, <1>2 DEF Owed
<1> QED BY <1>3, <1>4, <1>5, <1>6

LEMMA PackagesStore == ASSUME StoreInv, NEW apps \in SUBSET (Apps \cup {Mgr}), PackagesChange(apps)
                       PROVE  StoreInv'
<1> USE DEF StoreInv
<1>0. /\ UNCHANGED dataVars /\ UNCHANGED <<works, mpc, failed, bpc, lver, off>>
      /\ tpc' = [tpc EXCEPT !["observer"] = IF observing THEN "read" ELSE "idle"]
      /\ tpc["observer"] = "idle"
  BY DEF PackagesChange, TrackOnly, NoFault, Step, bootVars, dataVars, memVars, fileVars, diskVars, initVars
<1>1. /\ tpc' \in [Trackers -> {"idle", "read", "crown", "prune", "persist"}]
      /\ \A t \in Trackers : tpc'[t] = "persist" <=> tpc[t] = "persist"
      /\ tpc'["boot"] = tpc["boot"]
  BY <1>0 DEF TypeOK, Trackers
<1>2. TypeOK'
  BY <1>0, <1>1 DEF PackagesChange, TrackOnly, bootVars, TypeOK, dataVars, memVars, fileVars, diskVars
<1>3. DataInv'
  BY <1>0, DataKept
<1>4. LoadInv'
  BY <1>0, LoadKept DEF dataVars, memVars
<1>5. TrackInv'
  BY <1>0, <1>1 DEF TrackInv
<1>6. SaveInv'
  BY <1>0, <1>1, SaveKept DEF Owed, dataVars, memVars, fileVars
<1> QED BY <1>2, <1>3, <1>4, <1>5, <1>6

\* All steps of track_throne() but the prune and its save.
Searching(t) == TrackRead(t) \/ TrackReadPart(t) \/ TrackAbort(t) \/ TrackCrown(t) \/ PruneEarly(t)

LEMMA SearchStore == ASSUME StoreInv, NEW t \in Trackers, Searching(t) PROVE StoreInv'
<1> USE DEF StoreInv
<1>0. /\ UNCHANGED dataVars /\ UNCHANGED <<works, mpc, failed, bpc, lver, off, late, boot_completed,
                                          observing, packages>>
      /\ \E from \in {"read", "crown", "prune"}, to \in {"idle", "crown", "prune"} : Step(t, from, to)
  BY DEF Searching, TrackRead, TrackReadPart, TrackAbort, TrackCrown, PruneEarly, TrackOnly, NoFault, bootVars,
         dataVars, memVars, fileVars, diskVars, initVars
<1>1. PICK from \in {"read", "crown", "prune"}, to \in {"idle", "crown", "prune"} : Step(t, from, to)
  BY <1>0
<1>2. /\ tpc' \in [Trackers -> {"idle", "read", "crown", "prune", "persist"}]
      /\ TrackInv' /\ (Owed => Owed')
  BY <1>0, <1>1, TrackerSteps
<1>3. crowned' \in BOOLEAN
  BY DEF Searching, TrackRead, TrackReadPart, TrackAbort, TrackCrown, PruneEarly, search_manager,
         crown_manager, TypeOK
<1>4. snap' \in [Trackers -> SUBSET (Apps \cup {Mgr})]
  BY DEF Searching, TrackRead, TrackReadPart, TrackAbort, TrackCrown, PruneEarly, FreeList, TypeOK
<1>5. TypeOK'
  BY <1>0, <1>2, <1>3, <1>4 DEF TypeOK, dataVars, memVars, fileVars, diskVars
<1>6. DataInv'
  BY <1>0, DataKept
<1>7. LoadInv'
  BY <1>0, LoadKept DEF dataVars, memVars
<1>8. SaveInv'
  BY <1>0, <1>2, SaveKept DEF dataVars, memVars, fileVars
<1> QED BY <1>2, <1>5, <1>6, <1>7, <1>8

LEMMA PrunePersistStore == ASSUME StoreInv, NEW t \in Trackers, PrunePersist(t) PROVE StoreInv'
<1> USE DEF StoreInv
<1>0. /\ UNCHANGED dataVars /\ UNCHANGED <<mpc, bpc, lver, off, late, boot_completed,
                                          observing, packages, crowned, snap>>
      /\ Step(t, "persist", "idle")
  BY DEF PrunePersist, TrackOnly, bootVars, dataVars, memVars, fileVars, diskVars, initVars
<1>1. works' \in Nat /\ failed' \in BOOLEAN /\ (failed => failed') /\ (failed' \/ Owed')
  BY Requested DEF PrunePersist
<1>2. /\ tpc' \in [Trackers -> {"idle", "read", "crown", "prune", "persist"}]
      /\ TrackInv'
  BY <1>0, TrackerSteps
<1>3. TypeOK'
  BY <1>0, <1>1, <1>2 DEF TypeOK, dataVars, memVars, fileVars, diskVars
<1>4. DataInv'
  BY <1>0, DataKept
<1>5. LoadInv'
  BY <1>0, <1>1, LoadKept DEF dataVars, memVars
<1>6. SaveInv'
  BY <1>0, <1>1, SaveKept DEF dataVars, memVars, fileVars
<1> QED BY <1>2, <1>3, <1>4, <1>5, <1>6

\* A change of memory outside the load: it is recent, and a dump is owed.
LEMMA ChangeStore ==
  ASSUME StoreInv, UNCHANGED <<fileVars, diskVars, ipc, left, failed, bpc, lver, off>>,
         ipc # "dump", bpc \notin {"early", "load"},
         mem' \in [Uids -> Kinds \cup {None}], Note, MemInv',
         mem' = mem \/ Owed', Owed => Owed'
  PROVE  DataInv' /\ LoadInv' /\ SaveInv'
<1> USE DEF StoreInv, DataInv
<1>0. \A u : Loaded(u)' = Loaded(u)
  BY DEF Loaded, fileVars
<1>1. FileInv'
  BY DEF FileInv, WellFormed, fileVars, diskVars
<1>2. HadInv'
  <2>1. \A u \in Uids : mem'[u] \in had'[u] /\ had[u] \subseteq had'[u]
    BY DEF Note
  <2> QED BY <2>1, <1>0 DEF HadInv, NoStaleGrant
<1>3. LoadInv'
  BY DEF LoadInv
<1>4. SaveInv'
  BY <1>0 DEF SaveInv, FileMatches
<1> QED BY <1>1, <1>2, <1>3, <1>4

LEMMA PruneStore == ASSUME StoreInv, QuietInv, NEW t \in Trackers, prune_allowlist(t) PROVE StoreInv'
<1> USE DEF StoreInv
<1>0. /\ UNCHANGED <<default_umount, fileVars, diskVars, ipc, left, works, mpc, failed, bpc, lver, off, late,
                     boot_completed, observing, packages, crowned>>
      /\ ipc # "dump" /\ Note /\ snap' = [snap EXCEPT ![t] = {}]
      /\ mem' = [u \in Uids |-> IF u \in Doomed(t) THEN None ELSE mem[u]]
      /\ Step(t, "prune", IF Doomed(t) = {} THEN "idle" ELSE "persist")
  BY DEF prune_allowlist, TrackOnly, NoFault, MutexFree, FreeList, bootVars, initVars
<1>1. bpc \notin {"early", "load"}
  BY <1>0 DEF QuietInv, Quiet, Step
<1>2. /\ tpc' \in [Trackers -> {"idle", "read", "crown", "prune", "persist"}]
      /\ TrackInv' /\ (Owed => Owed')
      /\ Doomed(t) # {} => Owed'
  BY <1>0, TrackerSteps
<1>3. mem' \in [Uids -> Kinds \cup {None}]
  BY <1>0 DEF TypeOK
<1>4. Doomed(t) = {} => mem' = mem
  BY <1>0 DEF TypeOK
<1>5. MemInv'
  <2>1. Preserve \in Uids /\ Preserve \notin Doomed(t)
    BY DEF Uids, Doomed
  <2>2. \A u \in Uids : mem'[u] = IF u \in Doomed(t) THEN None ELSE mem[u]
    BY <1>0
  <2> QED BY <2>1, <2>2, <1>0 DEF DataInv, MemInv, DefaultFollowsProfile
<1>6. DataInv' /\ LoadInv' /\ SaveInv'
  BY <1>0, <1>1, <1>2, <1>3, <1>4, <1>5, ChangeStore
<1>7. TypeOK'
  <2>1. had' \in [Uids -> SUBSET (Kinds \cup {None})]
    BY <1>0, <1>3 DEF Note, TypeOK
  <2>2. snap' \in [Trackers -> SUBSET (Apps \cup {Mgr})]
    BY <1>0 DEF TypeOK
  <2> QED BY <1>0, <1>2, <1>3, <2>1, <2>2 DEF TypeOK, fileVars, diskVars
<1> QED BY <1>2, <1>6, <1>7

-----------------------------------------------------------------------------
(* The manager                                                             *)

LEMMA SetProfileStore ==
  ASSUME StoreInv, QuietInv, NEW u \in Uids, NEW k \in AppKinds \cup {"umount", "keep"},
         u = Preserve => k \in {"umount", "keep"}, SetProfile(u, k)
  PROVE  StoreInv'
<1> USE DEF StoreInv
<1>0. /\ UNCHANGED <<fileVars, diskVars, ipc, left, works, failed, bpc, lver, off, late,
                     boot_completed, observing, packages, crowned, tpc, snap>>
      /\ crowned /\ ipc # "dump" /\ Note /\ mpc' = "persist"
      /\ mem' = [mem EXCEPT ![u] = k]
      /\ default_umount' = IF u = Preserve THEN k = "umount" ELSE default_umount
  BY DEF SetProfile, only_manager, set_app_profile, MgrOnly, NoFault, MutexFree, bootVars, initVars, trackVars
<1>1. bpc \notin {"early", "load"}
  BY <1>0 DEF QuietInv, Quiet
<1>2. Owed'
  BY <1>0 DEF Owed
<1>3. k \in Migrated /\ k \in Kinds /\ None \notin Kinds
  BY ProfileKinds
<1>4. /\ mem' \in [Uids -> Kinds \cup {None}] /\ mem \in [Uids -> Kinds \cup {None}]
      /\ \A v \in Uids : mem'[v] = IF v = u THEN k ELSE mem[v]
  BY <1>0, <1>3 DEF TypeOK
<1>5. MemInv'
  <2>1. Preserve \in Uids
    BY DEF Uids
  <2> QED BY <2>1, <1>0, <1>3, <1>4 DEF DataInv, MemInv, DefaultFollowsProfile
<1>6. DataInv' /\ LoadInv' /\ SaveInv'
  BY <1>0, <1>1, <1>2, <1>4, <1>5, ChangeStore
<1>7. TypeOK'
  <2>1. had' \in [Uids -> SUBSET (Kinds \cup {None})]
    BY <1>0, <1>4 DEF Note, TypeOK
  <2>2. default_umount' \in BOOLEAN
    BY <1>0 DEF TypeOK
  <2> QED BY <1>0, <1>4, <2>1, <2>2 DEF TypeOK, fileVars, diskVars
<1>8. TrackInv'
  BY <1>0 DEF TrackInv
<1> QED BY <1>6, <1>7, <1>8

LEMMA SetPersistStore == ASSUME StoreInv, SetPersist PROVE StoreInv'
<1> USE DEF StoreInv
<1>0. /\ UNCHANGED dataVars /\ UNCHANGED <<bpc, lver, off, late, boot_completed,
                                          observing, packages, crowned, tpc, snap>>
      /\ mpc' = "idle"
  BY DEF SetPersist, MgrOnly, bootVars, trackVars, dataVars, memVars, fileVars, diskVars, initVars
<1>1. works' \in Nat /\ failed' \in BOOLEAN /\ (failed => failed') /\ (failed' \/ Owed')
  BY Requested DEF SetPersist
<1>2. TypeOK'
  BY <1>0, <1>1 DEF TypeOK, dataVars, memVars, fileVars, diskVars
<1>3. DataInv'
  BY <1>0, DataKept
<1>4. LoadInv'
  BY <1>0, <1>1, LoadKept DEF dataVars, memVars
<1>5. SaveInv'
  BY <1>0, <1>1, SaveKept DEF dataVars, memVars, fileVars
<1>6. TrackInv'
  BY <1>0 DEF TrackInv
<1> QED BY <1>2, <1>3, <1>4, <1>5, <1>6

-----------------------------------------------------------------------------
(* pid 1 and the machine                                                   *)

LEMMA DumpOpenStore == ASSUME StoreInv, QuietInv, DumpOpen PROVE StoreInv'
<1> USE DEF StoreInv, DataInv
<1>0. /\ UNCHANGED <<memVars, diskVars, left, mpc, failed, bpc, lver, off, late, had, boot_completed,
                     observing, packages, crowned, tpc, snap>>
      /\ ver' = 0 /\ recs' = <<>> /\ ipc' = "head" /\ works > 0 /\ works' = works - 1
  BY DEF DumpOpen, DumpOnly, NoFault, bootVars, trackVars
<1>1. bpc \notin {"early", "load"}
  BY <1>0 DEF QuietInv, Quiet, TypeOK
<1>2. TypeOK'
  <2>1. works' \in Nat /\ ver' \in Nat /\ recs' \in Seq(Record)
    BY <1>0 DEF TypeOK
  <2> QED BY <1>0, <2>1 DEF TypeOK, memVars, diskVars
<1>3. FileInv'
  <2>1. WellFormed(0, <<>>)
    BY DEF WellFormed, VER
  <2> QED BY <2>1, <1>0 DEF FileInv, diskVars
<1>4. MemInv'
  BY <1>0 DEF MemInv, DefaultFollowsProfile, memVars
<1>5. HadInv'
  <2>1. \A u : Loaded(u)' = None
    BY <1>0, LoadedAs, EmptyLoads
  <2> QED BY <2>1, <1>0 DEF HadInv, NoStaleGrant, memVars
<1>6. LoadInv' /\ TrackInv' /\ SaveInv'
  BY <1>0, <1>1 DEF LoadInv, TrackInv, SaveInv
<1> QED BY <1>2, <1>3, <1>4, <1>5, <1>6

LEMMA DumpOpenFailsStore == ASSUME StoreInv, DumpOpenFails PROVE StoreInv'
<1> USE DEF StoreInv
<1>0. /\ UNCHANGED dataVars /\ UNCHANGED <<mpc, bpc, lver, off, late, boot_completed,
                                          observing, packages, crowned, tpc, snap>>
      /\ works > 0 /\ works' = works - 1 /\ failed' = TRUE
  BY DEF DumpOpenFails, DumpOnly, Fault, bootVars, trackVars, dataVars, memVars, fileVars, diskVars, initVars
<1>1. TypeOK'
  <2>1. works' \in Nat
    BY <1>0 DEF TypeOK
  <2> QED BY <1>0, <2>1 DEF TypeOK, dataVars, memVars, fileVars, diskVars
<1>2. DataInv'
  BY <1>0, DataKept
<1>3. LoadInv'
  BY <1>0, LoadKept DEF dataVars, memVars
<1>4. SaveInv' /\ TrackInv'
  BY <1>0 DEF SaveInv, TrackInv
<1> QED BY <1>1, <1>2, <1>3, <1>4

LEMMA DumpHeaderStore == ASSUME StoreInv, QuietInv, DumpHeader PROVE StoreInv'
<1> USE DEF StoreInv, DataInv
<1>0. /\ UNCHANGED <<memVars, diskVars, recs, works, left, mpc, bpc, lver, off, late, had,
                     boot_completed, observing, packages, crowned, tpc, snap>>
      /\ ipc = "head" /\ recs = <<>>
      /\ \/ ver' = VER /\ ipc' = "lock" /\ failed' = failed
         \/ UNCHANGED ver /\ ipc' = "idle" /\ failed' = TRUE
  BY DEF DumpHeader, DumpOnly, NoFault, Fault, bootVars, trackVars, FileInv
<1>1. bpc \notin {"early", "load"}
  BY <1>0 DEF QuietInv, Quiet
<1>2. TypeOK'
  <2>1. VER \in Nat /\ ver \in Nat /\ failed \in BOOLEAN
    BY DEF TypeOK, VER
  <2>2. ver' \in Nat /\ failed' \in BOOLEAN /\ ipc' \in {"idle", "lock"}
    BY <1>0, <2>1
  <2> QED BY <1>0, <2>2 DEF TypeOK, memVars, diskVars
<1>3. FileInv'
  <2>1. \A v : WellFormed(v, <<>>)
    BY DEF WellFormed
  <2> QED BY <2>1, <1>0 DEF FileInv, diskVars
<1>4. MemInv'
  BY <1>0 DEF MemInv, DefaultFollowsProfile, memVars
<1>5. HadInv'
  <2>1. \A u : Loaded(u)' = None
    BY <1>0, LoadedAs, EmptyLoads
  <2> QED BY <2>1, <1>0 DEF HadInv, NoStaleGrant, memVars
<1>6. LoadInv' /\ TrackInv' /\ SaveInv'
  BY <1>0, <1>1 DEF LoadInv, TrackInv, SaveInv
<1> QED BY <1>2, <1>3, <1>4, <1>5, <1>6

LEMMA DumpLockStore == ASSUME StoreInv, QuietInv, DumpLock PROVE StoreInv'
<1> USE DEF StoreInv, DataInv
<1>0. /\ UNCHANGED <<memVars, fileVars, diskVars, works, mpc, bpc, lver, off, late,
                     boot_completed, observing, packages, crowned, tpc, snap>>
      /\ ipc = "lock" /\ recs = <<>> /\ ver = VER
      /\ ipc' = "dump" /\ failed' = FALSE
      /\ left' = {u \in Uids : mem[u] # None}
      /\ had' = [u \in Uids |-> {mem[u]}]
  BY DEF DumpLock, DumpOnly, bootVars, trackVars, FileInv
<1>1. bpc \notin {"early", "load"}
  BY <1>0 DEF QuietInv, Quiet
<1>2. TypeOK'
  BY <1>0 DEF TypeOK, memVars, fileVars, diskVars
<1>3. FileInv'
  <2>1. Len(recs) = 0
    BY <1>0
  <2> QED BY <2>1, <1>0 DEF FileInv, WellFormed, memVars, fileVars, diskVars
<1>4. MemInv'
  BY <1>0 DEF MemInv, DefaultFollowsProfile, memVars
<1>5. \A u : Loaded(u)' = None
  <2>1. recs' = <<>>
    BY <1>0 DEF fileVars
  <2> QED BY <2>1, LoadedAs, EmptyLoads
<1>6. HadInv'
  BY <1>5, <1>0 DEF HadInv, NoStaleGrant, memVars
<1>7. LoadInv' /\ TrackInv' /\ SaveInv'
  BY <1>0, <1>1, <1>5 DEF LoadInv, TrackInv, SaveInv, memVars
<1> QED BY <1>2, <1>3, <1>4, <1>6, <1>7

LEMMA DumpRecordStore == ASSUME StoreInv, QuietInv, NEW u \in Uids, DumpRecord(u) PROVE StoreInv'
<1> USE DEF StoreInv, DataInv
<1> DEFINE new == [uid |-> u, kind |-> mem[u]]
<1>0. /\ UNCHANGED <<memVars, diskVars, ver, works, ipc, mpc, bpc, lver, off, late, had,
                     boot_completed, observing, packages, crowned, tpc, snap>>
      /\ ipc = "dump" /\ u \in left /\ left' = left \ {u}
      /\ \/ recs' = Append(recs, new) /\ failed' = failed
         \/ UNCHANGED recs /\ failed' = TRUE
  BY DEF DumpRecord, DumpOnly, NoFault, Fault, bootVars, trackVars
<1>1. bpc \notin {"early", "load"}
  BY <1>0 DEF QuietInv, Quiet
<1>2. /\ ver = VER /\ Readable(ver) /\ ver \in Nat
      /\ recs \in Seq(Record) /\ Len(recs) \in Nat
      /\ mem[u] \in Migrated /\ mem[u] \in Kinds
      /\ u = Preserve => mem[u] \in {"umount", "keep"}
      /\ \A i \in 1..Len(recs) : recs[i].uid # u
  <2>1. mem[u] # None /\ mem[u] \in Migrated \cup {None}
    BY <1>0 DEF FileInv, MemInv
  <2>2. ver = VER /\ recs \in Seq(Record)
    BY <1>0 DEF FileInv, TypeOK
  <2> QED BY <2>1, <2>2, <1>0, ProfileKinds DEF FileInv, MemInv, Readable, VER, TypeOK
<1>3. new \in Record /\ new.uid = u /\ new.kind = mem[u]
  BY <1>2 DEF Record
<1> HIDE DEF new
<1>4. \A i, j \in 1..Len(recs) : recs[i].uid = recs[j].uid => i = j
  BY DEF FileInv, WellFormed
<1>5. MemInv' /\ LoadInv' /\ TrackInv'
  BY <1>0, <1>1 DEF MemInv, DefaultFollowsProfile, memVars, LoadInv, TrackInv
<1>6. CASE recs' = Append(recs, new) /\ failed' = failed
  <2>1. /\ Len(recs') = Len(recs) + 1 /\ recs' \in Seq(Record)
        /\ \A i \in 1..Len(recs) : recs'[i] = recs[i]
        /\ recs'[Len(recs) + 1] = new
    BY <1>6, <1>2, <1>3
  <2>2. \A i \in 1..Len(recs') : i \in 1..Len(recs) \/ i = Len(recs) + 1
    BY <2>1, <1>2
  <2>3. Len(recs) + 1 \in 1..Len(recs') /\ \A i \in 1..Len(recs) : i \in 1..Len(recs')
    BY <2>1, <1>2
  <2>4. \A i, j \in 1..Len(recs') : recs'[i].uid = recs'[j].uid => i = j
    BY <2>1, <2>2, <1>2, <1>3, <1>4
  <2>5. FileInv'
    <3>1. WellFormed(ver, recs)'
      <4>1. \A i \in 1..Len(recs') : recs'[i].kind \in Migrated
        BY <2>1, <2>2, <1>2, <1>3 DEF FileInv, WellFormed
      <4>2. \A i \in 1..Len(recs') : recs'[i].uid = Preserve => recs'[i].kind \in {"umount", "keep"}
        BY <2>1, <2>2, <1>2, <1>3 DEF FileInv, WellFormed
      <4> QED BY <2>4, <4>1, <4>2 DEF WellFormed
    <3>2. \A i \in 1..Len(recs') : recs'[i].uid \notin left'
      BY <2>1, <2>2, <1>0, <1>3 DEF FileInv
    <3>3. /\ WellFormed(disk_ver, disk_recs)' /\ ver' = VER /\ ipc' = "dump"
          /\ \A v \in left' : mem'[v] # None
      BY <1>0, <1>2 DEF FileInv, diskVars, memVars
    <3> QED BY <3>1, <3>2, <3>3 DEF FileInv
  <2>6. \A v \in Uids : Loaded(v)' = IF v = u THEN mem[u] ELSE Loaded(v)
    <3>1. ver' = ver
      BY <1>0
    <3>2. /\ \A v, i : i \in 1..Len(recs') /\ recs'[i].uid = v =>
                  Loaded(v)' = migrate_profile(ver, recs'[i].kind)
          /\ \A v : (\A i \in 1..Len(recs') : recs'[i].uid # v) => Loaded(v)' = None
      <4>1. \A v : Loaded(v)' = LoadedOf(ver, recs', v)
        BY <3>1, LoadedAs
      <4> QED BY <4>1, <2>4, <1>2, LoadedIs
    <3>3. ASSUME NEW v \in Uids, v = u PROVE Loaded(v)' = mem[u]
      <4>1. Loaded(v)' = migrate_profile(ver, mem[u])
        BY <3>2, <3>3, <2>1, <2>3, <1>3
      <4> QED BY <4>1, <1>2, MigrateCurrent
    <3>4. ASSUME NEW v \in Uids, v # u PROVE Loaded(v)' = Loaded(v)
      <4>1. CASE \E i \in 1..Len(recs) : recs[i].uid = v
        <5>1. PICK i \in 1..Len(recs) : recs[i].uid = v
          BY <4>1
        <5>2. Loaded(v) = migrate_profile(ver, recs[i].kind)
          BY <5>1, <1>2, <1>4, LoadedAs, LoadedIs
        <5>3. recs'[i] = recs[i] /\ i \in 1..Len(recs')
          BY <2>1, <2>3, <5>1
        <5> QED BY <5>1, <5>2, <5>3, <3>2
      <4>2. CASE ~ \E i \in 1..Len(recs) : recs[i].uid = v
        <5>1. Loaded(v) = None
          BY <4>2, <1>4, LoadedAs, LoadedIs
        <5>2. \A i \in 1..Len(recs') : recs'[i].uid # v
          BY <4>2, <3>4, <2>1, <2>2, <1>3
        <5> QED BY <5>1, <5>2, <3>2
      <4> QED BY <4>1, <4>2
    <3> QED BY <3>3, <3>4
  <2>7. HadInv'
    <3>1. mem[u] \in had[u]
      BY <1>0 DEF HadInv, FileInv
    <3> QED BY <3>1, <2>6, <1>0 DEF HadInv, NoStaleGrant, memVars
  <2>8. SaveInv'
    BY <2>6, <1>0, <1>6 DEF SaveInv, memVars
  <2>9. TypeOK'
    BY <1>0, <2>1, <1>6 DEF TypeOK, memVars, diskVars
  <2> QED BY <1>5, <2>5, <2>7, <2>8, <2>9
<1>7. CASE UNCHANGED recs /\ failed' = TRUE
  <2>1. TypeOK'
    BY <1>0, <1>7 DEF TypeOK, memVars, diskVars
  <2>2. FileInv'
    BY <1>0, <1>7 DEF FileInv, WellFormed, memVars, diskVars
  <2>3. HadInv'
    <3>1. \A v : Loaded(v)' = Loaded(v)
      BY <1>0, <1>7 DEF Loaded
    <3> QED BY <3>1, <1>0 DEF HadInv, NoStaleGrant, memVars
  <2>4. SaveInv'
    BY <1>7 DEF SaveInv
  <2> QED BY <1>5, <2>1, <2>2, <2>3, <2>4
<1> QED BY <1>0, <1>6, <1>7

LEMMA DumpUnlockStore == ASSUME StoreInv, QuietInv, DumpUnlock PROVE StoreInv'
<1> USE DEF StoreInv, DataInv
<1>0. /\ UNCHANGED <<memVars, fileVars, diskVars, left, works, mpc, failed, bpc, lver, off, late, had,
                     boot_completed, observing, packages, crowned, tpc, snap>>
      /\ ipc = "dump" /\ left = {} /\ ipc' = "idle"
  BY DEF DumpUnlock, DumpOnly, NoFault, bootVars, trackVars
<1>1. bpc \notin {"early", "load"}
  BY <1>0 DEF QuietInv, Quiet
<1>2. \A u : Loaded(u)' = Loaded(u)
  BY <1>0 DEF Loaded, fileVars
<1>3. TypeOK'
  BY <1>0 DEF TypeOK, memVars, fileVars, diskVars
<1>4. FileInv'
  BY <1>0 DEF FileInv, WellFormed, memVars, fileVars, diskVars
<1>5. MemInv' /\ HadInv' /\ LoadInv' /\ TrackInv'
  BY <1>0, <1>1, <1>2 DEF MemInv, DefaultFollowsProfile, HadInv, NoStaleGrant, LoadInv, TrackInv, memVars
<1>6. SaveInv'
  BY <1>0, <1>2 DEF SaveInv, FileMatches, memVars
<1> QED BY <1>3, <1>4, <1>5, <1>6

LEMMA WritebackStore == ASSUME StoreInv, Writeback PROVE StoreInv'
<1> USE DEF StoreInv, DataInv
<1>0. /\ UNCHANGED <<memVars, fileVars, works, initVars, bootVars, trackVars, mpc, failed, had>>
      /\ disk_ver' = ver /\ disk_recs' = recs
  BY DEF Writeback
<1> USE DEF memVars, fileVars, initVars, bootVars, trackVars
<1>1. TypeOK'
  BY <1>0 DEF TypeOK
<1>2. \A u : Loaded(u)' = Loaded(u)
  BY <1>0 DEF Loaded
<1>3. FileInv'
  BY <1>0 DEF FileInv, WellFormed
<1>4. MemInv' /\ HadInv' /\ LoadInv' /\ TrackInv'
  BY <1>0, <1>2 DEF MemInv, DefaultFollowsProfile, HadInv, NoStaleGrant, LoadInv, TrackInv
<1>5. SaveInv'
  BY <1>0, SaveKept DEF Owed
<1> QED BY <1>1, <1>3, <1>4, <1>5

\* What a load may make of a file is a profile.
LEMMA LoadedType ==
  ASSUME NEW v \in Nat, NEW rs \in Seq(Record), WellFormed(v, rs), NEW u
  PROVE  LoadedOf(v, rs, u) \in Kinds \cup {None}
<1>1. CASE Readable(v) /\ \E i \in 1..Len(rs) : rs[i].uid = u
  <2>1. PICK i \in 1..Len(rs) : rs[i].uid = u
    BY <1>1
  <2>2. rs[i] \in Record
    OBVIOUS
  <2>3. rs[i].kind \in Kinds /\ (v = VER => rs[i].kind \in Migrated)
    BY <2>2 DEF Record, WellFormed
  <2>4. LoadedOf(v, rs, u) = migrate_profile(v, rs[i].kind)
    BY <1>1, <2>1, LoadedIs DEF WellFormed
  <2> QED BY <2>3, <2>4, <1>1, MigrateCurrent, ProfileKinds
<1>2. CASE ~(Readable(v) /\ \E i \in 1..Len(rs) : rs[i].uid = u)
  BY <1>2, LoadedIs DEF WellFormed
<1> QED BY <1>1, <1>2

LEMMA CrashStore == ASSUME StoreInv, Crash PROVE StoreInv'
<1> USE DEF StoreInv, DataInv
<1>0. /\ UNCHANGED <<disk_ver, disk_recs, packages>>
      /\ mem' = [u \in Uids |-> None] /\ default_umount' = TRUE
      /\ works' = 0 /\ ipc' = "idle" /\ left' = {} /\ bpc' = "early" /\ lver' = 0 /\ off' = 0
      /\ late' \in BOOLEAN /\ boot_completed' = FALSE /\ observing' = FALSE /\ crowned' = FALSE
      /\ tpc' = [t \in Trackers |-> "idle"] /\ snap' = [t \in Trackers |-> {}]
      /\ mpc' = "idle" /\ failed' = FALSE /\ ver' = disk_ver /\ recs' = disk_recs
      /\ had' = [u \in Uids |-> {Loaded(u)'}]
  BY DEF Crash, diskVars
<1>1. \A u : Loaded(u)' \in Kinds \cup {None}
  BY <1>0, LoadedAs, LoadedType DEF FileInv, TypeOK
<1>2. TypeOK'
  <2>1. had' \in [Uids -> SUBSET (Kinds \cup {None})]
    BY <1>0, <1>1
  <2>2. /\ mem' \in [Uids -> Kinds \cup {None}]
        /\ tpc' \in [Trackers -> {"idle", "read", "crown", "prune", "persist"}]
        /\ snap' \in [Trackers -> SUBSET (Apps \cup {Mgr})]
    BY <1>0
  <2> QED BY <1>0, <2>1, <2>2 DEF TypeOK
<1>3. FileInv'
  BY <1>0 DEF FileInv, WellFormed
<1>4. MemInv'
  <2>1. Preserve \in Uids /\ None # "keep"
    BY ProfileKinds DEF Uids
  <2> QED BY <2>1, <1>0 DEF MemInv, DefaultFollowsProfile
<1>5. HadInv'
  BY <1>0 DEF HadInv, NoStaleGrant
<1>6. LoadInv' /\ SaveInv' /\ TrackInv'
  BY <1>0 DEF LoadInv, SaveInv, AfterLoad, TrackInv, Trackers
<1> QED BY <1>2, <1>3, <1>4, <1>5, <1>6

-----------------------------------------------------------------------------
\* A file of an earlier version, or of this one, is well formed.
LEMMA OldFilesOK ==
  ASSUME NEW v \in Nat, NEW rs \in OldFiles(v)
  PROVE  rs \in Seq(Record) /\ WellFormed(v, rs)
<1> DEFINE apps == [uid : Apps, kind : OldKinds(v)]
           def == [uid |-> Preserve, kind |-> "keep"]
<1>1. def \in Record /\ def.uid = Preserve /\ def.kind = "keep" /\ "keep" \in Migrated
  BY DEF Record, Kinds, Uids, Migrated
<1>2. ASSUME NEW a \in apps
      PROVE  a \in Record /\ a.uid # Preserve /\ (v = VER => a.kind \in Migrated)
  <2>1. a.uid \in Apps /\ a.kind \in OldKinds(v) /\ a = [uid |-> a.uid, kind |-> a.kind]
    OBVIOUS
  <2>2. a.kind \in Kinds /\ (v = VER => a.kind \in Migrated)
    BY <2>1, StoreAssumption DEF OldKinds, Kinds, SuKinds, Migrated
  <2> QED BY <2>1, <2>2, StoreAssumption DEF Record, Uids
<1>3. rs = <<>> \/ rs = <<def>> \/ \E a \in apps : rs = <<a>> \/ rs = <<a, def>>
  BY DEF OldFiles
<1> HIDE DEF def, apps
<1>4. CASE rs = <<>>
  BY <1>4 DEF WellFormed
<1>5. CASE rs = <<def>>
  <2>1. rs \in Seq(Record) /\ Len(rs) = 1 /\ rs[1] = def
    BY <1>1, <1>5
  <2> QED BY <2>1, <1>1 DEF WellFormed
<1>6. ASSUME NEW a \in apps, rs = <<a>>
      PROVE  rs \in Seq(Record) /\ WellFormed(v, rs)
  <2>1. rs \in Seq(Record) /\ Len(rs) = 1 /\ rs[1] = a
    BY <1>2, <1>6
  <2> QED BY <2>1, <1>2 DEF WellFormed
<1>7. ASSUME NEW a \in apps, rs = <<a, def>>
      PROVE  rs \in Seq(Record) /\ WellFormed(v, rs)
  <2>1. rs \in Seq(Record) /\ Len(rs) = 2 /\ rs[1] = a /\ rs[2] = def
    BY <1>1, <1>2, <1>7
  <2>2. \A i \in 1..Len(rs) : i = 1 \/ i = 2
    BY <2>1
  <2> QED BY <2>1, <2>2, <1>1, <1>2 DEF WellFormed
<1> QED BY <1>3, <1>4, <1>5, <1>6, <1>7

LEMMA StoreInit == Init => StoreInv
<1> SUFFICES ASSUME Init PROVE StoreInv
  OBVIOUS
<1>0. ver \in Nat /\ recs \in OldFiles(ver)
  BY StoreAssumption DEF Init
<1>1. recs \in Seq(Record) /\ WellFormed(ver, recs)
  BY <1>0, OldFilesOK
<1>2. \A u : Loaded(u) \in Kinds \cup {None}
  BY <1>0, <1>1, LoadedAs, LoadedType
<1>3. TypeOK
  BY <1>0, <1>1, <1>2 DEF Init, TypeOK
<1>4. FileInv
  BY <1>1 DEF Init, FileInv
<1>5. MemInv
  <2>1. Preserve \in Uids /\ None # "keep"
    BY ProfileKinds DEF Uids
  <2> QED BY <2>1 DEF Init, MemInv, DefaultFollowsProfile
<1>6. HadInv
  BY DEF Init, HadInv, NoStaleGrant
<1>7. LoadInv /\ SaveInv /\ TrackInv
  BY DEF Init, LoadInv, SaveInv, AfterLoad, TrackInv, Trackers
<1> QED BY <1>3, <1>4, <1>5, <1>6, <1>7 DEF StoreInv, DataInv

LEMMA StoreStep == StoreInv /\ QuietInv /\ [Next]_vars => StoreInv'
<1> SUFFICES ASSUME StoreInv, QuietInv, [Next]_vars PROVE StoreInv'
  OBVIOUS
<1>1. CASE BootNext
  BY <1>1, LoadOpenStore, LoadRecordStore, LoadEndStore, LoadPersistStore, BootEndStore DEF BootNext
<1>2. ASSUME NEW t \in Trackers, TrackNext(t) PROVE StoreInv'
  BY <1>2, SearchStore, PruneStore, PrunePersistStore DEF TrackNext, Searching
<1>3. CASE SetNext \/ SetPersist
  <2>1. ASSUME NEW u \in Apps, NEW k \in AppKinds, SetProfile(u, k) PROVE StoreInv'
    BY <2>1, SetProfileStore, StoreAssumption DEF Uids
  <2>2. ASSUME NEW k \in {"umount", "keep"}, SetProfile(Preserve, k) PROVE StoreInv'
    BY <2>2, SetProfileStore DEF Uids
  <2> QED BY <1>3, <2>1, <2>2, SetPersistStore DEF SetNext
<1>4. CASE DumpNext
  BY <1>4, DumpOpenStore, DumpOpenFailsStore, DumpHeaderStore, DumpLockStore, DumpRecordStore,
     DumpUnlockStore DEF DumpNext
<1>5. CASE UNCHANGED vars
  <2>1. TypeOK'
    BY <1>5 DEF vars, StoreInv, TypeOK, memVars, fileVars, diskVars, initVars, bootVars, trackVars
  <2>2. DataInv'
    BY <1>5, DataKept DEF vars, StoreInv, dataVars, initVars
  <2>3. LoadInv' /\ TrackInv'
    BY <1>5 DEF vars, StoreInv, LoadInv, TrackInv, memVars, fileVars, bootVars, trackVars
  <2>4. SaveInv'
    BY <1>5, SaveKept DEF vars, StoreInv, memVars, fileVars, initVars, bootVars, trackVars, Owed
  <2> QED BY <2>1, <2>2, <2>3, <2>4 DEF StoreInv
<1> QED BY <1>1, <1>2, <1>3, <1>4, <1>5, PackagesStore, WritebackStore, CrashStore DEF Next

LEMMA StoreInvariant == Spec => []StoreInv
BY StoreInit, StoreStep, QuietInit, QuietStep, PTL DEF Spec

(* A reboot grants no uid a profile that it had lost or changed before the *)
(* last dump took the mutex, whatever writes fail and wherever the machine *)
(* crashes, for any number of apps, records, changes, faults and crashes.  *)
THEOREM NoGrantStale == Spec => []NoStaleGrant
<1>1. StoreInv => NoStaleGrant
  BY DEF StoreInv, DataInv, HadInv
<1> QED BY <1>1, StoreInvariant, PTL

(* The types hold, no profile of an older version is ever in use or in a   *)
(* file of the current version, and the default for apps without a profile *)
(* stays what the preserved uid's profile says.                            *)
THEOREM MeaningCorrect == Spec => []MeaningKept
<1>1. StoreInv => MeaningKept
  BY DEF StoreInv, DataInv, FileInv, WellFormed, MemInv, MeaningKept, NoHalfMigrated
<1> QED BY <1>1, StoreInvariant, PTL

(* When no dump is owed and none was lost, the file says what memory says. *)
THEOREM SavedCorrect == Spec => []SettledFileMatches
<1>1. StoreInv => SettledFileMatches
  BY DEF StoreInv, SaveInv, AfterLoad, Owed, Settled, SettledFileMatches, TypeOK
<1> QED BY <1>1, StoreInvariant, PTL
=============================================================================
