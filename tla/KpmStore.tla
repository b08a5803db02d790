------------------------------ MODULE KpmStore ------------------------------
(***************************************************************************)
(* Kernel storage of kpm (patch/common/kstorage.c): one group, a list of   *)
(* elements by data id that is read under RCU while one writer replaces,   *)
(* adds and removes elements.                                              *)
(*                                                                         *)
(* An element is its memory; next is its link, kept when it is unlinked.   *)
(* Link 0 is the list's head. Each write is told apart by its element.     *)
(***************************************************************************)
EXTENDS Integers, FiniteSets

CONSTANTS
    Dids, StoreReaders,
    Elements            \* bound: memory for elements

ASSUME KpmStoreAssumption == Elements \in Nat

Elems == 1..Elements
Absent == 0
AllDids == "all"        \* a walk over the whole list

VARIABLES
    elem,       \* state of memory (free, used, unlinked), data id and link
    group_size,
    writer,     \* the step of write_kstorage() or remove_kstorage()
    waiting,    \* elements given to call_rcu() -> readers that may see them
    reader      \* the reads under way, with all they may answer

storeVars == <<elem, group_size, writer, waiting, reader>>

NoWriter == [at |-> "idle", did |-> Absent, old |-> Absent, new |-> Absent]
NoReader == [at |-> "idle", did |-> Absent, pos |-> Absent, seen |-> {}]

\* The elements in the list: those that a walk from its head meets, which are
\* in every set that has the first element and the next one of each.
Listed(e) ==
    LET Closed(X) == \A n \in X \cup {0} : e[n].next \in X \cup {0}
    IN  {n \in Elems : \A X \in SUBSET Elems : Closed(X) => n \in X}

Current(e, d) == LET has == {n \in Listed(e) : e[n].did = d} IN IF has = {} THEN Absent ELSE CHOOSE n \in has : TRUE

Before(e, n) == CHOOSE p \in Listed(e) \cup {0} : e[p].next = n

\* A change of the list; what reads under way may answer grows by it.
Changed(e) ==
    /\ elem' = e
    /\ reader' = [r \in StoreReaders |->
                     IF reader[r].at = "idle" THEN reader[r]
                     ELSE [reader[r] EXCEPT !.seen = @ \cup {Current(e, reader[r].did)}]]

call_rcu(n) == waiting' = [x \in DOMAIN waiting \cup {n} |->
                              IF x = n THEN {r \in StoreReaders : reader[r].at # "idle"} ELSE waiting[x]]

-----------------------------------------------------------------------------
(* write_kstorage() *)

WriteFind(d) ==
    /\ writer.at = "idle" /\ writer' = [NoWriter EXCEPT !.at = "alloc", !.did = d, !.old = Current(elem, d)]
    /\ UNCHANGED <<elem, group_size, waiting, reader>>

\* vmalloc(), which may fail, and the copy of the data. A fault of
\* memdup_user() leaves the new element to nobody.
WriteFill ==
    /\ writer.at = "alloc"
    /\ \/ writer' = NoWriter /\ UNCHANGED elem
       \/ \E n \in Elems :
             /\ elem[n].mem = "free" /\ \A m \in 1..(n - 1) : elem[m].mem # "free"
             /\ elem' = [elem EXCEPT ![n] = [mem |-> "used", did |-> writer.did, next |-> 0]]
             /\ \/ writer' = [writer EXCEPT !.at = "link", !.new = n]
                \/ writer' = NoWriter
    /\ UNCHANGED <<group_size, waiting, reader>>

\* list_replace_rcu(), or list_add_rcu() and the count, under the lock.
WriteLink ==
    LET old == writer.old
        new == writer.new
    IN  /\ writer.at = "link"
        /\ IF old # Absent
           THEN /\ Changed([elem EXCEPT ![new].next = elem[old].next, ![Before(elem, old)].next = new,
                                        ![old].mem = "unlinked"])
                /\ writer' = [writer EXCEPT !.at = "reclaim"] /\ UNCHANGED group_size
           ELSE /\ Changed([elem EXCEPT ![new].next = elem[0].next, ![0].next = new])
                /\ group_size' = group_size + 1 /\ writer' = NoWriter
        /\ UNCHANGED waiting

WriteReclaim ==
    /\ writer.at = "reclaim" /\ writer' = NoWriter /\ call_rcu(writer.old)
    /\ UNCHANGED <<elem, group_size, reader>>

-----------------------------------------------------------------------------
(* remove_kstorage(): list_del_rcu() under the lock, the count after it. *)

RemoveUnlink(d) ==
    LET old == Current(elem, d)
    IN  /\ writer.at = "idle" /\ old # Absent
        /\ Changed([elem EXCEPT ![Before(elem, old)].next = elem[old].next, ![old].mem = "unlinked"])
        /\ writer' = [NoWriter EXCEPT !.at = "count", !.old = old]
        /\ UNCHANGED <<group_size, waiting>>

RemoveCount ==
    /\ writer.at = "count" /\ writer' = NoWriter
    /\ group_size' = group_size - 1 /\ call_rcu(writer.old)
    /\ UNCHANGED <<elem, reader>>

\* Mutant: the memory is freed at once.
FreeAtOnce(n) ==
    /\ elem' = [elem EXCEPT ![n] = [mem |-> "free", did |-> Absent, next |-> 0]]
    /\ waiting' = [x \in DOMAIN waiting \ {n} |-> waiting[x]]
    /\ UNCHANGED <<group_size, writer, reader>>

\* reclaim_callback(), when no read is left that may see the element.
reclaim_callback(n) ==
    /\ waiting[n] = {}
    /\ elem' = [elem EXCEPT ![n] = [mem |-> "free", did |-> Absent, next |-> 0]]
    /\ waiting' = [x \in DOMAIN waiting \ {n} |-> waiting[x]]
    /\ UNCHANGED <<group_size, writer, reader>>

-----------------------------------------------------------------------------
(* read_kstorage(): get_kstorage() and the copy in one critical section;    *)
(* on_each_kstorage_elem() and list_kstorage_ids() walk the whole list.     *)

ReadLock(r, d) ==
    /\ reader[r].at = "idle"
    /\ reader' = [reader EXCEPT ![r] = [at |-> "walk", did |-> d, pos |-> 0, seen |-> {Current(elem, d)}]]
    /\ UNCHANGED <<elem, group_size, writer, waiting>>

get_kstorage(r) ==
    LET next == elem[reader[r].pos].next
    IN  /\ reader[r].at = "walk"
        /\ reader' = [reader EXCEPT ![r].pos = next,
                          ![r].at = IF next = 0 THEN "absent"
                                    ELSE IF elem[next].did = reader[r].did THEN "copy" ELSE "walk"]
        /\ UNCHANGED <<elem, group_size, writer, waiting>>

ReadUnlock(r) ==
    /\ reader[r].at \in {"copy", "absent"}
    /\ reader' = [reader EXCEPT ![r] = NoReader]
    /\ waiting' = [n \in DOMAIN waiting |-> waiting[n] \ {r}]
    /\ UNCHANGED <<elem, group_size, writer>>

-----------------------------------------------------------------------------
StoreInit ==
    /\ elem = [n \in 0..Elements |-> [mem |-> IF n = 0 THEN "used" ELSE "free", did |-> Absent, next |-> 0]]
    /\ group_size = 0 /\ writer = NoWriter /\ waiting = [x \in {} |-> {}]
    /\ reader = [r \in StoreReaders |-> NoReader]

StoreNext ==
    \/ \E d \in Dids : WriteFind(d) \/ RemoveUnlink(d)
    \/ WriteFill \/ WriteLink \/ WriteReclaim \/ RemoveCount
    \/ \E n \in DOMAIN waiting : reclaim_callback(n)
    \/ \E r \in StoreReaders :
          (\E d \in Dids \cup {AllDids} : ReadLock(r, d)) \/ get_kstorage(r) \/ ReadUnlock(r)

StoreSpec == StoreInit /\ [][StoreNext]_storeVars

-----------------------------------------------------------------------------
\* A read never stands on freed memory, through replaced and removed elements;
\* what it copies, or that it finds nothing, was the truth at some moment of
\* the read; and the group's size is the length of its list.
StoreExact ==
    /\ \A r \in StoreReaders :
          /\ elem[reader[r].pos].mem # "free"
          /\ reader[r].at = "copy" => reader[r].pos \in reader[r].seen
          /\ reader[r].at = "absent" => Absent \in reader[r].seen
    /\ writer.at = "idle" => group_size = Cardinality(Listed(elem))
=============================================================================
