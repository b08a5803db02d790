-------------------------- MODULE EventQueueProofs --------------------------
(***************************************************************************)
(* Proofs about EventQueue for every set of tasks, every capacity and      *)
(* every number of events.                                                 *)
(***************************************************************************)
EXTENDS EventQueue, FiniteSetTheorems, SequenceTheorems, TLAPS

(* The mutex: a reader is inside read() iff it holds read_lock, destroy()  *)
(* is in its purge iff the owner holds it.                                 *)
Inside == ReaderLabels \ {"idle", "lock"}

LockInv ==
    /\ \A r \in Readers : rpc[r] \in Inside <=> read_lock = r
    /\ read_lock = Owner <=> opc \in {"destroy_purge", "destroy_unlock"}

(* What a reader's locals mean at each point of its call.                  *)
Polling == {"ready", "closed", "prepare", "wait_closed", "wait_data", "asleep"}
Looping == {"drop", "drop_copy", "node", "node_copy"}

BufferOK(r) ==
    /\ rpc[r] \in Polling \cup {"idle", "lock"} => copied[r] = 0
    /\ rpc[r] \in Looping => copied[r] \in Nat
    /\ copied[r] \notin Nat \ {0} => nodes[r] = {} /\ losses[r] = {}

DropCopyOK(r) ==
    rpc[r] = "drop_copy" => /\ count[r] >= record_size(InfoSize)
                            /\ info[r] = inflight
                            /\ inflight.n # 0

NodeCopyOK(r) ==
    rpc[r] = "node_copy" => /\ count[r] >= record_size(node[r].len)
                            /\ pending # <<>>
                            /\ Head(pending) = node[r]

LocalInv == \A r \in Readers : BufferOK(r) /\ DropCopyOK(r) /\ NodeCopyOK(r)

(* The list is numbered in order, and the counter is its length.           *)
ListInv ==
    /\ queued = Len(pending)
    /\ next_seq >= 1
    /\ \A i \in 1..Len(pending) : pending[i].seq \in 1..(next_seq - 1)
    /\ \A i, j \in 1..Len(pending) : i < j => pending[i].seq < pending[j].seq

(* A collected window exists only while its reader copies it.              *)
InflightInv == inflight.n # 0 => \E r \in Readers : rpc[r] = "drop_copy"

(* A reader that found something to return still finds it.                 *)
EofOK(r) ==
    /\ rpc[r] = "drop" /\ copied[r] = 0 => closed \/ has_data
    /\ rpc[r] = "node" /\ copied[r] = 0 =>
           pending # <<>> \/ (closed /\ dropped.n = 0)
    /\ rpc[r] = "unlock" /\ copied[r] = 0 => closed /\ ~has_data

EofInv == \A r \in Readers : EofOK(r)

ControlInv == TypeOK /\ LockInv /\ LocalInv /\ ListInv /\ InflightInv /\ EofInv

-----------------------------------------------------------------------------
(* One lemma per action: the invariant is preserved.                       *)

LEMMA PushKeeps ==
  ASSUME ControlInv, NEW w \in Writers, NEW len \in Lens, push(w, len)
  PROVE ControlInv'
<1> USE QueueAssumption DEF ControlInv, TypeOK, waitVars, callVars, push, NewSeq,
       WriterOnly
<1> DEFINE new == [seq |-> next_seq, len |-> len]
<1>a. new \in Node /\ new.seq = next_seq /\ pending' = Append(pending, new)
  BY DEF QueueTypes, Node
<1>b. pending \in Seq(Node)
  BY DEF QueueTypes
<1> HIDE DEF new
<1>1. /\ pending' \in Seq(Node)
      /\ Len(pending') = Len(pending) + 1
      /\ \A i \in 1..Len(pending) : pending'[i] = pending[i]
      /\ pending'[Len(pending) + 1].seq = next_seq
      /\ pending' # <<>>
      /\ pending # <<>> => Head(pending') = Head(pending)
  BY <1>a, <1>b
<1>2. (QueueTypes /\ TaskTypes)'
  BY <1>1 DEF QueueTypes, TaskTypes
<1>3. (CallTypes /\ HistoryTypes)'
  BY DEF CallTypes, HistoryTypes
<1>4. (LockInv /\ InflightInv)'
  BY DEF LockInv, InflightInv
<1>5. ListInv'
  <2>1. \A i \in 1..Len(pending') : i \in 1..Len(pending) \/ i = Len(pending) + 1
    BY <1>1 DEF QueueTypes
  <2>2. \A i \in 1..Len(pending) : pending[i].seq \in 1..(next_seq - 1)
    BY DEF ListInv
  <2>3. \A i \in 1..Len(pending') : pending'[i].seq \in 1..(next_seq' - 1)
    BY <1>1, <2>1, <2>2 DEF ListInv, QueueTypes
  <2>4. ASSUME NEW i \in 1..Len(pending'), NEW j \in 1..Len(pending'), i < j
        PROVE  pending'[i].seq < pending'[j].seq
    <3>1. i \in 1..Len(pending)
      BY <1>1, <2>4 DEF QueueTypes
    <3>2. CASE j \in 1..Len(pending)
      BY <1>1, <2>4, <3>1, <3>2 DEF ListInv
    <3>3. CASE j = Len(pending) + 1
      BY <1>1, <2>2, <3>1, <3>3 DEF QueueTypes
    <3> QED BY <2>1, <3>2, <3>3
  <2> QED BY <1>1, <2>3, <2>4 DEF ListInv, QueueTypes
<1>6. (LocalInv /\ EofInv)'
  BY <1>1 DEF LocalInv, BufferOK, DropCopyOK, NodeCopyOK, EofInv, EofOK, has_data
<1> QED BY <1>2, <1>3, <1>4, <1>5, <1>6

LEMMA DropKeeps ==
  ASSUME ControlInv, NEW w \in Writers, drop(w)
  PROVE ControlInv'
<1> USE QueueAssumption DEF ControlInv, TypeOK, waitVars, callVars, drop,
       note_drop, NewSeq, WriterOnly
<1>1. (QueueTypes /\ TaskTypes)'
  BY DEF QueueTypes, TaskTypes, Window
<1>2. (CallTypes /\ HistoryTypes)'
  BY DEF CallTypes, HistoryTypes, QueueTypes
<1>3. (LockInv /\ InflightInv)'
  BY DEF LockInv, InflightInv
<1>4. ListInv'
  <2>1. \A i \in 1..Len(pending) : pending[i].seq \in 1..(next_seq' - 1)
    BY DEF ListInv, QueueTypes
  <2> QED BY <2>1 DEF ListInv, QueueTypes
<1>5. (LocalInv /\ EofInv)'
  BY DEF LocalInv, BufferOK, DropCopyOK, NodeCopyOK, EofInv, EofOK, has_data,
     QueueTypes, Window
<1> QED BY <1>1, <1>2, <1>3, <1>4, <1>5

LEMMA WriterWakesKeeps ==
  ASSUME ControlInv, NEW w \in Writers, WriterWakes(w)
  PROVE ControlInv'
<1> USE QueueAssumption DEF ControlInv, TypeOK, queueVars, waitVars, callVars,
       histVars, WriterWakes, wake_up
<1>1. (QueueTypes /\ TaskTypes)'
  BY DEF QueueTypes, TaskTypes, ReaderLabels, OwnerLabels
<1>2. (CallTypes /\ HistoryTypes)'
  BY DEF CallTypes, HistoryTypes, Errors, Node, Window, NoWindow
<1>3. (LockInv /\ ListInv /\ InflightInv)'
  BY DEF LockInv, ListInv, InflightInv, TaskTypes, Inside, ReaderLabels, OwnerLabels
<1>4. (LocalInv /\ EofInv)'
  BY DEF LocalInv, BufferOK, DropCopyOK, NodeCopyOK, EofInv, EofOK, has_data
<1> QED BY <1>1, <1>2, <1>3, <1>4

LEMMA ReadEnterKeeps ==
  ASSUME ControlInv, NEW r \in Readers, NEW size \in Counts, NEW nb \in BOOLEAN, ReadEnter(r, size, nb)
  PROVE ControlInv'
<1> USE QueueAssumption DEF ControlInv, TypeOK, queueVars, waitVars, callVars,
       histVars, ReadEnter, Goto, NoDelivery, ReaderOnly
<1>1. (QueueTypes /\ TaskTypes)'
  BY DEF QueueTypes, TaskTypes, ReaderLabels, OwnerLabels
<1>2. (CallTypes /\ HistoryTypes)'
  BY DEF CallTypes, HistoryTypes, Errors, Node, Window, NoWindow
<1>3. (LockInv /\ ListInv /\ InflightInv)'
  BY DEF LockInv, ListInv, InflightInv, TaskTypes, Inside, ReaderLabels, OwnerLabels
<1>4. ASSUME NEW q \in Readers
      PROVE  (BufferOK(q) /\ DropCopyOK(q) /\ NodeCopyOK(q) /\ EofOK(q))'
  <2>1. CASE q # r
    BY <2>1 DEF LocalInv, BufferOK, DropCopyOK, NodeCopyOK, EofInv, EofOK,
       has_data, TaskTypes, CallTypes, LockInv, Inside, ReaderLabels
  <2>2. CASE q = r
    BY <2>2 DEF LocalInv, BufferOK, DropCopyOK, NodeCopyOK, EofInv, EofOK,
       has_data, TaskTypes, CallTypes, LockInv, Inside, ReaderLabels, Looping,
       Polling, Errors, InflightInv, QueueTypes, Window
  <2> QED BY <2>1, <2>2
<1> QED BY <1>1, <1>2, <1>3, <1>4 DEF LocalInv, EofInv

LEMMA ReadLockKeeps ==
  ASSUME ControlInv, NEW r \in Readers, ReadLock(r)
  PROVE ControlInv'
<1> USE QueueAssumption DEF ControlInv, TypeOK, queueVars, waitVars, callVars,
       histVars, ReadLock, Goto, NoDelivery, ReaderOnly
<1>1. (QueueTypes /\ TaskTypes)'
  BY DEF QueueTypes, TaskTypes, ReaderLabels, OwnerLabels
<1>2. (CallTypes /\ HistoryTypes)'
  BY DEF CallTypes, HistoryTypes, Errors, Node, Window, NoWindow
<1>3. (LockInv /\ ListInv /\ InflightInv)'
  BY DEF LockInv, ListInv, InflightInv, TaskTypes, Inside, ReaderLabels, OwnerLabels
<1>4. ASSUME NEW q \in Readers
      PROVE  (BufferOK(q) /\ DropCopyOK(q) /\ NodeCopyOK(q) /\ EofOK(q))'
  <2>1. CASE q # r
    BY <2>1 DEF LocalInv, BufferOK, DropCopyOK, NodeCopyOK, EofInv, EofOK,
       has_data, TaskTypes, CallTypes, LockInv, Inside, ReaderLabels
  <2>2. CASE q = r
    BY <2>2 DEF LocalInv, BufferOK, DropCopyOK, NodeCopyOK, EofInv, EofOK,
       has_data, TaskTypes, CallTypes, LockInv, Inside, ReaderLabels, Looping,
       Polling, Errors, InflightInv, QueueTypes, Window
  <2> QED BY <2>1, <2>2
<1> QED BY <1>1, <1>2, <1>3, <1>4 DEF LocalInv, EofInv

LEMMA ReadLockInterruptedKeeps ==
  ASSUME ControlInv, NEW r \in Readers, ReadLockInterrupted(r)
  PROVE ControlInv'
<1> USE QueueAssumption DEF ControlInv, TypeOK, queueVars, waitVars, callVars,
       histVars, ReadLockInterrupted, ResetLocals, NoNode, Goto, NoDelivery,
       ReaderOnly
<1>1. (QueueTypes /\ TaskTypes)'
  BY DEF QueueTypes, TaskTypes, ReaderLabels, OwnerLabels
<1>2. (CallTypes /\ HistoryTypes)'
  BY DEF CallTypes, HistoryTypes, Errors, Node, Window, NoWindow
<1>3. (LockInv /\ ListInv /\ InflightInv)'
  BY DEF LockInv, ListInv, InflightInv, TaskTypes, Inside, ReaderLabels, OwnerLabels
<1>4. ASSUME NEW q \in Readers
      PROVE  (BufferOK(q) /\ DropCopyOK(q) /\ NodeCopyOK(q) /\ EofOK(q))'
  <2>1. CASE q # r
    BY <2>1 DEF LocalInv, BufferOK, DropCopyOK, NodeCopyOK, EofInv, EofOK,
       has_data, TaskTypes, CallTypes, LockInv, Inside, ReaderLabels
  <2>2. CASE q = r
    BY <2>2 DEF LocalInv, BufferOK, DropCopyOK, NodeCopyOK, EofInv, EofOK,
       has_data, TaskTypes, CallTypes, LockInv, Inside, ReaderLabels, Looping,
       Polling, Errors, InflightInv, QueueTypes, Window
  <2> QED BY <2>1, <2>2
<1> QED BY <1>1, <1>2, <1>3, <1>4 DEF LocalInv, EofInv

LEMMA ReadyDataKeeps ==
  ASSUME ControlInv, NEW r \in Readers, ReadyData(r)
  PROVE ControlInv'
<1> USE QueueAssumption DEF ControlInv, TypeOK, queueVars, waitVars, callVars,
       histVars, ReadyData, Goto, NoDelivery, ReaderOnly
<1>1. (QueueTypes /\ TaskTypes)'
  BY DEF QueueTypes, TaskTypes, ReaderLabels, OwnerLabels
<1>2. (CallTypes /\ HistoryTypes)'
  BY DEF CallTypes, HistoryTypes, Errors, Node, Window, NoWindow
<1>3. (LockInv /\ ListInv /\ InflightInv)'
  BY DEF LockInv, ListInv, InflightInv, TaskTypes, Inside, ReaderLabels, OwnerLabels
<1>4. ASSUME NEW q \in Readers
      PROVE  (BufferOK(q) /\ DropCopyOK(q) /\ NodeCopyOK(q) /\ EofOK(q))'
  <2>1. CASE q # r
    BY <2>1 DEF LocalInv, BufferOK, DropCopyOK, NodeCopyOK, EofInv, EofOK,
       has_data, TaskTypes, CallTypes, LockInv, Inside, ReaderLabels
  <2>2. CASE q = r
    BY <2>2 DEF LocalInv, BufferOK, DropCopyOK, NodeCopyOK, EofInv, EofOK,
       has_data, TaskTypes, CallTypes, LockInv, Inside, ReaderLabels, Looping,
       Polling, Errors, InflightInv, QueueTypes, Window
  <2> QED BY <2>1, <2>2
<1> QED BY <1>1, <1>2, <1>3, <1>4 DEF LocalInv, EofInv

LEMMA ReadyClosedKeeps ==
  ASSUME ControlInv, NEW r \in Readers, ReadyClosed(r)
  PROVE ControlInv'
<1> USE QueueAssumption DEF ControlInv, TypeOK, queueVars, waitVars, callVars,
       ReadyClosed, StopRead, EAGAIN, Goto, NoDelivery, ReaderOnly
<1>1. (QueueTypes /\ TaskTypes)'
  BY DEF QueueTypes, TaskTypes, ReaderLabels
<1>2. (CallTypes /\ HistoryTypes)'
  BY DEF CallTypes, HistoryTypes, Errors
<1>3. (LockInv /\ ListInv /\ InflightInv)'
  BY DEF LockInv, ListInv, InflightInv, TaskTypes, Inside, ReaderLabels
<1>4. ASSUME NEW q \in Readers
      PROVE  (BufferOK(q) /\ DropCopyOK(q) /\ NodeCopyOK(q) /\ EofOK(q))'
  <2>1. CASE q # r
    BY <2>1 DEF LocalInv, BufferOK, DropCopyOK, NodeCopyOK, EofInv, EofOK,
       has_data, TaskTypes, CallTypes, LockInv, Inside, ReaderLabels
  <2>2. copied[r] = 0 /\ nodes[r] = {} /\ losses[r] = {}
    BY DEF LocalInv, BufferOK, Polling
  <2>3. CASE q = r /\ closed
    BY <2>2, <2>3 DEF BufferOK, DropCopyOK, NodeCopyOK, EofOK, TaskTypes, Looping,
       Polling
  <2>4. CASE q = r /\ ~closed
    BY <2>2, <2>4 DEF BufferOK, DropCopyOK, NodeCopyOK, EofOK, TaskTypes,
       CallTypes, Looping, Polling
  <2> QED BY <2>1, <2>3, <2>4
<1> QED BY <1>1, <1>2, <1>3, <1>4 DEF LocalInv, EofInv

LEMMA SignalKeeps ==
  ASSUME ControlInv, NEW r \in Readers, Signal(r)
  PROVE ControlInv'
<1> USE QueueAssumption DEF ControlInv, TypeOK, queueVars, waitVars, callVars,
       histVars, Signal, Goto, NoDelivery, ReaderOnly
<1>1. (QueueTypes /\ TaskTypes)'
  BY DEF QueueTypes, TaskTypes, ReaderLabels, OwnerLabels
<1>2. (CallTypes /\ HistoryTypes)'
  BY DEF CallTypes, HistoryTypes, Errors, Node, Window, NoWindow
<1>3. (LockInv /\ ListInv /\ InflightInv)'
  BY DEF LockInv, ListInv, InflightInv, TaskTypes, Inside, ReaderLabels, OwnerLabels
<1>4. ASSUME NEW q \in Readers
      PROVE  (BufferOK(q) /\ DropCopyOK(q) /\ NodeCopyOK(q) /\ EofOK(q))'
  <2>1. CASE q # r
    BY <2>1 DEF LocalInv, BufferOK, DropCopyOK, NodeCopyOK, EofInv, EofOK,
       has_data, TaskTypes, CallTypes, LockInv, Inside, ReaderLabels
  <2>2. CASE q = r
    BY <2>2 DEF LocalInv, BufferOK, DropCopyOK, NodeCopyOK, EofInv, EofOK,
       has_data, TaskTypes, CallTypes, LockInv, Inside, ReaderLabels, Looping,
       Polling, Errors, InflightInv, QueueTypes, Window
  <2> QED BY <2>1, <2>2
<1> QED BY <1>1, <1>2, <1>3, <1>4 DEF LocalInv, EofInv

LEMMA PrepareToWaitKeeps ==
  ASSUME ControlInv, NEW r \in Readers, PrepareToWait(r)
  PROVE ControlInv'
<1> USE QueueAssumption DEF ControlInv, TypeOK, queueVars, waitVars, callVars,
       histVars, PrepareToWait, Goto, NoDelivery, ReaderOnly
<1>1. (QueueTypes /\ TaskTypes)'
  BY DEF QueueTypes, TaskTypes, ReaderLabels, OwnerLabels
<1>2. (CallTypes /\ HistoryTypes)'
  BY DEF CallTypes, HistoryTypes, Errors, Node, Window, NoWindow
<1>3. (LockInv /\ ListInv /\ InflightInv)'
  BY DEF LockInv, ListInv, InflightInv, TaskTypes, Inside, ReaderLabels, OwnerLabels
<1>4. ASSUME NEW q \in Readers
      PROVE  (BufferOK(q) /\ DropCopyOK(q) /\ NodeCopyOK(q) /\ EofOK(q))'
  <2>1. CASE q # r
    BY <2>1 DEF LocalInv, BufferOK, DropCopyOK, NodeCopyOK, EofInv, EofOK,
       has_data, TaskTypes, CallTypes, LockInv, Inside, ReaderLabels
  <2>2. CASE q = r
    BY <2>2 DEF LocalInv, BufferOK, DropCopyOK, NodeCopyOK, EofInv, EofOK,
       has_data, TaskTypes, CallTypes, LockInv, Inside, ReaderLabels, Looping,
       Polling, Errors, InflightInv, QueueTypes, Window
  <2> QED BY <2>1, <2>2
<1> QED BY <1>1, <1>2, <1>3, <1>4 DEF LocalInv, EofInv

LEMMA WaitClosedKeeps ==
  ASSUME ControlInv, NEW r \in Readers, WaitClosed(r)
  PROVE ControlInv'
<1> USE QueueAssumption DEF ControlInv, TypeOK, queueVars, waitVars, callVars,
       histVars, WaitClosed, Goto, NoDelivery, ReaderOnly
<1>1. (QueueTypes /\ TaskTypes)'
  BY DEF QueueTypes, TaskTypes, ReaderLabels, OwnerLabels
<1>2. (CallTypes /\ HistoryTypes)'
  BY DEF CallTypes, HistoryTypes, Errors, Node, Window, NoWindow
<1>3. (LockInv /\ ListInv /\ InflightInv)'
  BY DEF LockInv, ListInv, InflightInv, TaskTypes, Inside, ReaderLabels, OwnerLabels
<1>4. ASSUME NEW q \in Readers
      PROVE  (BufferOK(q) /\ DropCopyOK(q) /\ NodeCopyOK(q) /\ EofOK(q))'
  <2>1. CASE q # r
    BY <2>1 DEF LocalInv, BufferOK, DropCopyOK, NodeCopyOK, EofInv, EofOK,
       has_data, TaskTypes, CallTypes, LockInv, Inside, ReaderLabels
  <2>2. CASE q = r
    BY <2>2, SMTT(20) DEF LocalInv, BufferOK, DropCopyOK, NodeCopyOK, EofInv, EofOK,
       has_data, TaskTypes, CallTypes, LockInv, Inside, ReaderLabels, Looping,
       Polling, Errors, InflightInv, QueueTypes, Window
  <2> QED BY <2>1, <2>2
<1> QED BY <1>1, <1>2, <1>3, <1>4 DEF LocalInv, EofInv

LEMMA WaitDataKeeps ==
  ASSUME ControlInv, NEW r \in Readers, WaitData(r)
  PROVE ControlInv'
<1> USE QueueAssumption DEF ControlInv, TypeOK, queueVars, waitVars, callVars,
       histVars, WaitData, StopRead, ERESTARTSYS, Goto, NoDelivery, ReaderOnly
<1>1. (QueueTypes /\ TaskTypes)'
  BY DEF QueueTypes, TaskTypes, ReaderLabels, OwnerLabels
<1>2. (CallTypes /\ HistoryTypes)'
  BY SMTT(20) DEF CallTypes, HistoryTypes, Errors, Node, Window, NoWindow
<1>3. (LockInv /\ ListInv /\ InflightInv)'
  BY DEF LockInv, ListInv, InflightInv, TaskTypes, Inside, ReaderLabels, OwnerLabels
<1>4. ASSUME NEW q \in Readers
      PROVE  (BufferOK(q) /\ DropCopyOK(q) /\ NodeCopyOK(q) /\ EofOK(q))'
  <2>1. CASE q # r
    BY <2>1 DEF LocalInv, BufferOK, DropCopyOK, NodeCopyOK, EofInv, EofOK,
       has_data, TaskTypes, CallTypes, LockInv, Inside, ReaderLabels
  <2>2. CASE q = r
    <3>1. copied[r] = 0 /\ nodes[r] = {} /\ losses[r] = {}
      BY DEF LocalInv, BufferOK, Polling
    <3>2. nodes'[r] = {} /\ losses'[r] = {}
      BY <3>1
    <3>3. \/ rpc'[r] \in {"ready", "asleep"} /\ copied'[r] = 0
          \/ rpc'[r] = "unlock" /\ copied'[r] = -512
      BY <3>1 DEF TaskTypes, CallTypes
    <3> HIDE DEF ControlInv, WaitData
    <3> QED
      BY <2>2, <3>2, <3>3 DEF BufferOK, DropCopyOK, NodeCopyOK, EofOK, Looping, Polling
  <2> QED BY <2>1, <2>2
<1> QED BY <1>1, <1>2, <1>3, <1>4 DEF LocalInv, EofInv

LEMMA WakeupKeeps ==
  ASSUME ControlInv, NEW r \in Readers, Wakeup(r)
  PROVE ControlInv'
<1> USE QueueAssumption DEF ControlInv, TypeOK, queueVars, waitVars, callVars,
       histVars, Wakeup, Goto, NoDelivery, ReaderOnly
<1>1. (QueueTypes /\ TaskTypes)'
  BY DEF QueueTypes, TaskTypes, ReaderLabels, OwnerLabels
<1>2. (CallTypes /\ HistoryTypes)'
  BY DEF CallTypes, HistoryTypes, Errors, Node, Window, NoWindow
<1>3. (LockInv /\ ListInv /\ InflightInv)'
  BY DEF LockInv, ListInv, InflightInv, TaskTypes, Inside, ReaderLabels, OwnerLabels
<1>4. ASSUME NEW q \in Readers
      PROVE  (BufferOK(q) /\ DropCopyOK(q) /\ NodeCopyOK(q) /\ EofOK(q))'
  <2>1. CASE q # r
    BY <2>1 DEF LocalInv, BufferOK, DropCopyOK, NodeCopyOK, EofInv, EofOK,
       has_data, TaskTypes, CallTypes, LockInv, Inside, ReaderLabels
  <2>2. CASE q = r
    BY <2>2 DEF LocalInv, BufferOK, DropCopyOK, NodeCopyOK, EofInv, EofOK,
       has_data, TaskTypes, CallTypes, LockInv, Inside, ReaderLabels, Looping,
       Polling, Errors, InflightInv, QueueTypes, Window
  <2> QED BY <2>1, <2>2
<1> QED BY <1>1, <1>2, <1>3, <1>4 DEF LocalInv, EofInv

LEMMA DropCollectKeeps ==
  ASSUME ControlInv, NEW r \in Readers, DropCollect(r)
  PROVE ControlInv'
<1> USE QueueAssumption DEF ControlInv, TypeOK, waitVars, callVars, DropCollect,
       StopRead, EMSGSIZE, Goto, NoDelivery, ReaderOnly
<1>1. (QueueTypes /\ TaskTypes)'
  BY SMTT(20) DEF QueueTypes, TaskTypes, ReaderLabels, Window, NoWindow
<1>2. copied[r] \in Nat /\ dropped \in Window /\ dropped.n \in Nat
  BY DEF LocalInv, BufferOK, Looping, QueueTypes, Window
<1>3. (CallTypes /\ HistoryTypes)'
  BY <1>2 DEF CallTypes, HistoryTypes, Errors
<1>4. (LockInv /\ ListInv)'
  BY DEF LockInv, ListInv, TaskTypes, Inside, ReaderLabels
<1>5. InflightInv'
  BY DEF InflightInv, LockInv, TaskTypes, Inside, ReaderLabels
<1>6. inflight.n = 0
  BY DEF InflightInv, LockInv, TaskTypes, Inside, ReaderLabels
<1>7. ASSUME NEW q \in Readers
      PROVE  (BufferOK(q) /\ DropCopyOK(q) /\ NodeCopyOK(q) /\ EofOK(q))'
  <2>0. q # r => rpc'[q] = rpc[q] /\ copied'[q] = copied[q] /\ rpc[q] \in {"idle", "lock"}
                 /\ nodes'[q] = nodes[q] /\ losses'[q] = losses[q]
    BY DEF TaskTypes, CallTypes, LockInv, Inside, ReaderLabels
  <2>1. CASE q # r
    BY <2>0, <2>1 DEF LocalInv, BufferOK, DropCopyOK, NodeCopyOK, EofInv, EofOK
  <2>2. BufferOK(r)'
    BY <1>2 DEF LocalInv, BufferOK, TaskTypes, CallTypes, Looping, Polling
  <2>3. DropCopyOK(r)' /\ NodeCopyOK(r)'
    BY DEF DropCopyOK, NodeCopyOK, TaskTypes, CallTypes
  <2>4. EofOK(r)'
    BY <1>2, <1>6 DEF EofInv, EofOK, TaskTypes, CallTypes, has_data
  <2> QED BY <2>1, <2>2, <2>3, <2>4
<1> QED BY <1>1, <1>3, <1>4, <1>5, <1>7 DEF LocalInv, EofInv

LEMMA DropDoneKeeps ==
  ASSUME ControlInv, NEW r \in Readers, DropDone(r)
  PROVE ControlInv'
<1> USE QueueAssumption DEF ControlInv, TypeOK, waitVars, callVars, DropDone,
       Copied, Goto, NoDelivery, ReaderOnly, record_size, HdrSize, InfoSize
<1>1. (QueueTypes /\ TaskTypes)'
  BY DEF QueueTypes, TaskTypes, ReaderLabels, Window, NoWindow
<1>2. copied[r] \in Nat /\ count[r] - 2 \in Nat /\ Covered(info[r]) \subseteq Nat
  <2>1. copied[r] \in Nat
    BY DEF LocalInv, BufferOK, Looping
  <2>2. count[r] \in Nat /\ count[r] >= 2
    BY DEF LocalInv, DropCopyOK, CallTypes
  <2>3. Covered(info[r]) \subseteq Nat
    BY DEF Covered, HistoryTypes
  <2> QED BY <2>1, <2>2, <2>3
<1>3. (CallTypes /\ HistoryTypes)'
  BY <1>2 DEF CallTypes, HistoryTypes
<1>4. (LockInv /\ ListInv /\ InflightInv)'
  BY DEF LockInv, ListInv, InflightInv, TaskTypes, Inside, ReaderLabels, NoWindow
<1>5. ASSUME NEW q \in Readers
      PROVE  (BufferOK(q) /\ DropCopyOK(q) /\ NodeCopyOK(q) /\ EofOK(q))'
  <2>1. CASE q # r
    BY <2>1 DEF LocalInv, BufferOK, DropCopyOK, NodeCopyOK, EofInv, EofOK,
       TaskTypes, CallTypes, LockInv, Inside, ReaderLabels
  <2>2. CASE q = r
    BY <1>2, <2>2 DEF LocalInv, BufferOK, DropCopyOK, NodeCopyOK, EofOK, TaskTypes,
       CallTypes, Looping, Polling
  <2> QED BY <2>1, <2>2
<1> QED BY <1>1, <1>3, <1>4, <1>5 DEF LocalInv, EofInv

LEMMA DropRestoreKeeps ==
  ASSUME ControlInv, NEW r \in Readers, DropRestore(r)
  PROVE ControlInv'
<1> USE QueueAssumption DEF ControlInv, TypeOK, waitVars, callVars, DropRestore,
       StopRead, EFAULT, Goto, NoDelivery, ReaderOnly
<1>1. dropped' \in Window /\ inflight' \in Window
  <2>1. CASE dropped.n = 0
    BY <2>1 DEF QueueTypes, Window, NoWindow, Restored
  <2>2. CASE dropped.n # 0
    BY <2>2 DEF QueueTypes, Window, NoWindow, Restored
  <2> QED BY <2>1, <2>2
<1>2. (QueueTypes /\ TaskTypes)'
  BY <1>1 DEF QueueTypes, TaskTypes, ReaderLabels
<1>3. (CallTypes /\ HistoryTypes)'
  BY DEF CallTypes, HistoryTypes, Errors
<1>4. (LockInv /\ ListInv /\ InflightInv)'
  BY DEF LockInv, ListInv, InflightInv, TaskTypes, Inside, ReaderLabels, NoWindow
<1>5. ASSUME NEW q \in Readers
      PROVE  (BufferOK(q) /\ DropCopyOK(q) /\ NodeCopyOK(q) /\ EofOK(q))'
  <2>1. CASE q # r
    BY <2>1 DEF LocalInv, BufferOK, DropCopyOK, NodeCopyOK, EofInv, EofOK,
       TaskTypes, CallTypes, LockInv, Inside, ReaderLabels
  <2>2. CASE q = r
    BY <2>2 DEF LocalInv, BufferOK, DropCopyOK, NodeCopyOK, EofOK, TaskTypes,
       CallTypes, Looping, Polling, Errors
  <2> QED BY <2>1, <2>2
<1> QED BY <1>2, <1>3, <1>4, <1>5 DEF LocalInv, EofInv

LEMMA NodePeekKeeps ==
  ASSUME ControlInv, NEW r \in Readers, NodePeek(r)
  PROVE ControlInv'
<1> USE QueueAssumption DEF ControlInv, TypeOK, queueVars, waitVars, callVars,
       NodePeek, StopRead, EMSGSIZE, Goto, NoDelivery, ReaderOnly
<1>1. (QueueTypes /\ TaskTypes)'
  BY DEF QueueTypes, TaskTypes, ReaderLabels
<1>2. copied[r] \in Nat /\ (pending # <<>> => Head(pending) \in Node)
  BY DEF LocalInv, BufferOK, Looping, QueueTypes
<1>3. (CallTypes /\ HistoryTypes)'
  <2>1. copied' \in [Readers -> Nat \cup Errors]
    BY <1>2 DEF CallTypes, Errors
  <2>2. node' \in [Readers -> Node]
    BY <1>2 DEF CallTypes
  <2> QED BY <2>1, <2>2 DEF CallTypes, HistoryTypes
<1>4. (LockInv /\ ListInv /\ InflightInv)'
  BY DEF LockInv, ListInv, InflightInv, TaskTypes, Inside, ReaderLabels
<1>5. inflight.n = 0
  BY DEF InflightInv, LockInv, TaskTypes, Inside, ReaderLabels
<1>6. ASSUME NEW q \in Readers
      PROVE  (BufferOK(q) /\ DropCopyOK(q) /\ NodeCopyOK(q) /\ EofOK(q))'
  <2>1. CASE q # r
    BY <2>1 DEF LocalInv, BufferOK, DropCopyOK, NodeCopyOK, EofInv, EofOK,
       has_data, TaskTypes, CallTypes, LockInv, Inside, ReaderLabels
  <2>2. BufferOK(r)'
    BY <1>2 DEF LocalInv, BufferOK, TaskTypes, CallTypes, Looping, Polling
  <2>3. DropCopyOK(r)' /\ NodeCopyOK(r)'
    BY DEF DropCopyOK, NodeCopyOK, TaskTypes, CallTypes
  <2>4. EofOK(r)'
    BY <1>2, <1>5 DEF EofInv, EofOK, TaskTypes, CallTypes, has_data
  <2> QED BY <2>1, <2>2, <2>3, <2>4
<1> QED BY <1>1, <1>3, <1>4, <1>6 DEF LocalInv, EofInv

LEMMA NodeFaultKeeps ==
  ASSUME ControlInv, NEW r \in Readers, NodeFault(r)
  PROVE ControlInv'
<1> USE QueueAssumption DEF ControlInv, TypeOK, queueVars, waitVars, callVars,
       histVars, NodeFault, StopRead, EFAULT, Goto, NoDelivery, ReaderOnly
<1>1. (QueueTypes /\ TaskTypes)'
  BY DEF QueueTypes, TaskTypes, ReaderLabels, OwnerLabels
<1>2. (CallTypes /\ HistoryTypes)'
  BY DEF CallTypes, HistoryTypes, Errors, Node, Window, NoWindow
<1>3. (LockInv /\ ListInv /\ InflightInv)'
  BY DEF LockInv, ListInv, InflightInv, TaskTypes, Inside, ReaderLabels, OwnerLabels
<1>4. ASSUME NEW q \in Readers
      PROVE  (BufferOK(q) /\ DropCopyOK(q) /\ NodeCopyOK(q) /\ EofOK(q))'
  <2>1. CASE q # r
    BY <2>1 DEF LocalInv, BufferOK, DropCopyOK, NodeCopyOK, EofInv, EofOK,
       has_data, TaskTypes, CallTypes, LockInv, Inside, ReaderLabels
  <2>2. CASE q = r
    BY <2>2 DEF LocalInv, BufferOK, DropCopyOK, NodeCopyOK, EofInv, EofOK,
       has_data, TaskTypes, CallTypes, LockInv, Inside, ReaderLabels, Looping,
       Polling, Errors, InflightInv, QueueTypes, Window
  <2> QED BY <2>1, <2>2
<1> QED BY <1>1, <1>2, <1>3, <1>4 DEF LocalInv, EofInv

LEMMA NodeDelKeeps ==
  ASSUME ControlInv, NEW r \in Readers, NodeDel(r)
  PROVE ControlInv'
<1> USE QueueAssumption DEF ControlInv, TypeOK, waitVars, callVars, NodeDel,
       Copied, Goto, NoDelivery, ReaderOnly
<1>1. pending \in Seq(Node) /\ pending # <<>> /\ pending[1] = node[r]
  BY DEF LocalInv, NodeCopyOK, QueueTypes
<1>2. \A i \in 1..Len(pending) : pending[i] = node[r] => i = 1
  BY <1>1 DEF ListInv
<1>3. /\ pending' \in Seq(Node)
      /\ Len(pending') = Len(pending) - 1
      /\ \A i \in 1..Len(pending') : pending'[i] = pending[i + 1]
  BY <1>1, <1>2 DEF Unlink
<1>4. node[r].seq \in Nat /\ node[r].len \in Nat
  BY DEF CallTypes, Node
<1>5. copied[r] \in Nat /\ count[r] \in Nat /\ count[r] >= 1 + node[r].len
  BY DEF LocalInv, BufferOK, NodeCopyOK, Looping, CallTypes, record_size, HdrSize
<1>6. (QueueTypes /\ TaskTypes)'
  BY <1>1, <1>3 DEF QueueTypes, TaskTypes, ReaderLabels, ListInv
<1>7. (CallTypes /\ HistoryTypes)'
  <2>1. count' \in [Readers -> Nat]
    BY <1>4, <1>5 DEF CallTypes, record_size, HdrSize
  <2>2. copied' \in [Readers -> Nat \cup Errors]
    BY <1>4, <1>5 DEF CallTypes, record_size, HdrSize
  <2>3. nodes' \in [Readers -> SUBSET Nat] /\ losses' \in [Readers -> SUBSET Nat]
    BY <1>4 DEF CallTypes
  <2> QED BY <2>1, <2>2, <2>3 DEF CallTypes, HistoryTypes
<1>8. (LockInv /\ InflightInv)'
  BY DEF LockInv, InflightInv, TaskTypes, Inside, ReaderLabels
<1>9. ListInv'
  <2>1. \A i \in 1..Len(pending') : i + 1 \in 1..Len(pending)
    BY <1>1, <1>3
  <2>2. queued' = Len(pending')
    BY <1>3 DEF ListInv
  <2>3. \A i \in 1..Len(pending') : pending'[i].seq \in 1..(next_seq' - 1)
    BY <1>3, <2>1 DEF ListInv
  <2>4. ASSUME NEW i \in 1..Len(pending'), NEW j \in 1..Len(pending'), i < j
        PROVE  pending'[i].seq < pending'[j].seq
    <3>1. i + 1 \in 1..Len(pending) /\ j + 1 \in 1..Len(pending) /\ i + 1 < j + 1
      BY <2>1, <2>4
    <3>2. pending'[i] = pending[i + 1] /\ pending'[j] = pending[j + 1]
      BY <1>3
    <3> QED BY <3>1, <3>2 DEF ListInv
  <2> QED BY <2>2, <2>3, <2>4 DEF ListInv
<1>10. ASSUME NEW q \in Readers
      PROVE  (BufferOK(q) /\ DropCopyOK(q) /\ NodeCopyOK(q) /\ EofOK(q))'
  <2>1. CASE q # r
    BY <2>1 DEF LocalInv, BufferOK, DropCopyOK, NodeCopyOK, EofInv, EofOK,
       TaskTypes, CallTypes, LockInv, Inside, ReaderLabels
  <2>2. copied'[r] \in Nat \ {0} /\ rpc'[r] \in {"drop", "unlock"}
    BY <1>4, <1>5 DEF TaskTypes, CallTypes, record_size, HdrSize
  <2>3. CASE q = r
    BY <2>2, <2>3 DEF BufferOK, DropCopyOK, NodeCopyOK, EofOK, Polling
  <2> QED BY <2>1, <2>3
<1> QED BY <1>6, <1>7, <1>8, <1>9, <1>10 DEF LocalInv, EofInv

LEMMA ReadReturnKeeps ==
  ASSUME ControlInv, NEW r \in Readers, ReadReturn(r)
  PROVE ControlInv'
<1> USE QueueAssumption DEF ControlInv, TypeOK, queueVars, waitVars, callVars,
       histVars, ReadReturn, ResetLocals, NoNode, Goto, ReaderOnly
<1>1. (QueueTypes /\ TaskTypes)'
  BY DEF QueueTypes, TaskTypes, ReaderLabels, OwnerLabels
<1>2. (CallTypes /\ HistoryTypes)'
  BY DEF CallTypes, HistoryTypes, Errors, Node, Window, NoWindow
<1>3. (LockInv /\ ListInv /\ InflightInv)'
  BY DEF LockInv, ListInv, InflightInv, TaskTypes, Inside, ReaderLabels, OwnerLabels
<1>4. ASSUME NEW q \in Readers
      PROVE  (BufferOK(q) /\ DropCopyOK(q) /\ NodeCopyOK(q) /\ EofOK(q))'
  <2>1. CASE q # r
    BY <2>1 DEF LocalInv, BufferOK, DropCopyOK, NodeCopyOK, EofInv, EofOK,
       has_data, TaskTypes, CallTypes, LockInv, Inside, ReaderLabels
  <2>2. CASE q = r
    BY <2>2 DEF LocalInv, BufferOK, DropCopyOK, NodeCopyOK, EofInv, EofOK,
       has_data, TaskTypes, CallTypes, LockInv, Inside, ReaderLabels, Looping,
       Polling, Errors, InflightInv, QueueTypes, Window
  <2> QED BY <2>1, <2>2
<1> QED BY <1>1, <1>2, <1>3, <1>4 DEF LocalInv, EofInv

LEMMA PollWaitKeeps ==
  ASSUME ControlInv, NEW p \in Pollers, PollWait(p)
  PROVE ControlInv'
<1> USE QueueAssumption DEF ControlInv, TypeOK, queueVars, waitVars, callVars,
       histVars, PollWait
<1>1. (QueueTypes /\ TaskTypes)'
  BY DEF QueueTypes, TaskTypes, ReaderLabels, OwnerLabels
<1>2. (CallTypes /\ HistoryTypes)'
  BY DEF CallTypes, HistoryTypes, Errors, Node, Window, NoWindow
<1>3. (LockInv /\ ListInv /\ InflightInv)'
  BY DEF LockInv, ListInv, InflightInv, TaskTypes, Inside, ReaderLabels, OwnerLabels
<1>4. (LocalInv /\ EofInv)'
  BY DEF LocalInv, BufferOK, DropCopyOK, NodeCopyOK, EofInv, EofOK, has_data
<1> QED BY <1>1, <1>2, <1>3, <1>4

LEMMA PollMaskKeeps ==
  ASSUME ControlInv, NEW p \in Pollers, PollMask(p)
  PROVE ControlInv'
<1> USE QueueAssumption DEF ControlInv, TypeOK, queueVars, waitVars, callVars,
       histVars, PollMask
<1>1. (QueueTypes /\ TaskTypes)'
  BY DEF QueueTypes, TaskTypes, ReaderLabels, OwnerLabels
<1>2. (CallTypes /\ HistoryTypes)'
  BY DEF CallTypes, HistoryTypes, Errors, Node, Window, NoWindow
<1>3. (LockInv /\ ListInv /\ InflightInv)'
  BY DEF LockInv, ListInv, InflightInv, TaskTypes, Inside, ReaderLabels, OwnerLabels
<1>4. (LocalInv /\ EofInv)'
  BY DEF LocalInv, BufferOK, DropCopyOK, NodeCopyOK, EofInv, EofOK, has_data
<1> QED BY <1>1, <1>2, <1>3, <1>4

LEMMA CloseKeeps ==
  ASSUME ControlInv, close
  PROVE ControlInv'
<1> USE QueueAssumption DEF ControlInv, TypeOK, queueVars, waitVars, callVars,
       histVars, close, mark_closed, Stored, OwnerOnly
<1>1. (QueueTypes /\ TaskTypes)'
  BY DEF QueueTypes, TaskTypes, ReaderLabels, OwnerLabels
<1>2. (CallTypes /\ HistoryTypes)'
  BY DEF CallTypes, HistoryTypes, Errors, Node, Window, NoWindow
<1>3. (LockInv /\ ListInv /\ InflightInv)'
  BY DEF LockInv, ListInv, InflightInv, TaskTypes, Inside, ReaderLabels, OwnerLabels
<1>4. (LocalInv /\ EofInv)'
  BY DEF LocalInv, BufferOK, DropCopyOK, NodeCopyOK, EofInv, EofOK, has_data
<1> QED BY <1>1, <1>2, <1>3, <1>4

LEMMA DestroyKeeps ==
  ASSUME ControlInv, destroy
  PROVE ControlInv'
<1> USE QueueAssumption DEF ControlInv, TypeOK, queueVars, waitVars, callVars,
       histVars, destroy, mark_closed, Stored, OwnerOnly
<1>1. (QueueTypes /\ TaskTypes)'
  BY DEF QueueTypes, TaskTypes, ReaderLabels, OwnerLabels
<1>2. (CallTypes /\ HistoryTypes)'
  BY DEF CallTypes, HistoryTypes, Errors, Node, Window, NoWindow
<1>3. (LockInv /\ ListInv /\ InflightInv)'
  BY DEF LockInv, ListInv, InflightInv, TaskTypes, Inside, ReaderLabels, OwnerLabels
<1>4. (LocalInv /\ EofInv)'
  BY DEF LocalInv, BufferOK, DropCopyOK, NodeCopyOK, EofInv, EofOK, has_data
<1> QED BY <1>1, <1>2, <1>3, <1>4

LEMMA OwnerWakesKeeps ==
  ASSUME ControlInv, OwnerWakes
  PROVE ControlInv'
<1> USE QueueAssumption DEF ControlInv, TypeOK, queueVars, waitVars, callVars,
       histVars, OwnerWakes, AfterWake, wake_up, Stored, OwnerOnly
<1>1. (QueueTypes /\ TaskTypes)'
  BY DEF QueueTypes, TaskTypes, ReaderLabels, OwnerLabels
<1>2. (CallTypes /\ HistoryTypes)'
  BY DEF CallTypes, HistoryTypes, Errors, Node, Window, NoWindow
<1>3. (LockInv /\ ListInv /\ InflightInv)'
  BY DEF LockInv, ListInv, InflightInv, TaskTypes, Inside, ReaderLabels, OwnerLabels
<1>4. (LocalInv /\ EofInv)'
  BY DEF LocalInv, BufferOK, DropCopyOK, NodeCopyOK, EofInv, EofOK, has_data
<1> QED BY <1>1, <1>2, <1>3, <1>4

LEMMA DestroyLockKeeps ==
  ASSUME ControlInv, DestroyLock
  PROVE ControlInv'
<1> USE QueueAssumption DEF ControlInv, TypeOK, queueVars, waitVars, callVars,
       histVars, DestroyLock, Stored, OwnerOnly
<1>1. (QueueTypes /\ TaskTypes)'
  BY DEF QueueTypes, TaskTypes, ReaderLabels, OwnerLabels
<1>2. (CallTypes /\ HistoryTypes)'
  BY DEF CallTypes, HistoryTypes, Errors, Node, Window, NoWindow
<1>3. (LockInv /\ ListInv /\ InflightInv)'
  BY DEF LockInv, ListInv, InflightInv, TaskTypes, Inside, ReaderLabels, OwnerLabels
<1>4. (LocalInv /\ EofInv)'
  BY DEF LocalInv, BufferOK, DropCopyOK, NodeCopyOK, EofInv, EofOK, has_data
<1> QED BY <1>1, <1>2, <1>3, <1>4

LEMMA DestroyPurgeKeeps ==
  ASSUME ControlInv, DestroyPurge
  PROVE ControlInv'
<1> USE QueueAssumption DEF ControlInv, TypeOK, waitVars, callVars, DestroyPurge,
       OwnerOnly
<1>1. \A r \in Readers : rpc[r] \in {"idle", "lock"}
  BY DEF LockInv, TaskTypes, Inside
<1>2. (QueueTypes /\ TaskTypes)'
  BY DEF QueueTypes, TaskTypes, OwnerLabels, Window, NoWindow
<1>3. purged' \subseteq Nat
  <2>1. \A i \in 1..Len(pending) : pending[i] \in Node
    BY DEF QueueTypes
  <2>2. PendingSeqs \subseteq Nat
    BY <2>1 DEF PendingSeqs, Node
  <2>3. Covered(dropped) \subseteq Nat /\ Covered(inflight) \subseteq Nat
    BY DEF Covered, HistoryTypes
  <2> QED BY <2>2, <2>3 DEF HistoryTypes
<1>4. (CallTypes /\ HistoryTypes)'
  BY <1>3 DEF CallTypes, HistoryTypes
<1>5. (LockInv /\ ListInv /\ InflightInv)'
  BY DEF LockInv, ListInv, InflightInv, NoWindow, QueueTypes
<1>6. (LocalInv /\ EofInv)'
  BY <1>1 DEF LocalInv, BufferOK, DropCopyOK, NodeCopyOK, EofInv, EofOK
<1> QED BY <1>2, <1>4, <1>5, <1>6

LEMMA DestroyUnlockKeeps ==
  ASSUME ControlInv, DestroyUnlock
  PROVE ControlInv'
<1> USE QueueAssumption DEF ControlInv, TypeOK, queueVars, waitVars, callVars,
       histVars, DestroyUnlock, Stored, OwnerOnly
<1>1. (QueueTypes /\ TaskTypes)'
  BY DEF QueueTypes, TaskTypes, ReaderLabels, OwnerLabels
<1>2. (CallTypes /\ HistoryTypes)'
  BY DEF CallTypes, HistoryTypes, Errors, Node, Window, NoWindow
<1>3. (LockInv /\ ListInv /\ InflightInv)'
  BY DEF LockInv, ListInv, InflightInv, TaskTypes, Inside, ReaderLabels, OwnerLabels
<1>4. (LocalInv /\ EofInv)'
  BY DEF LocalInv, BufferOK, DropCopyOK, NodeCopyOK, EofInv, EofOK, has_data
<1> QED BY <1>1, <1>2, <1>3, <1>4

-----------------------------------------------------------------------------
LEMMA ControlInit == Init => ControlInv
<1> SUFFICES ASSUME Init PROVE ControlInv
  OBVIOUS
<1> USE QueueAssumption DEF Init, NoWindow, NoNode
<1>1. TypeOK
  <2>1. QueueTypes /\ HistoryTypes
    <3>1. pending \in Seq(Node)
      OBVIOUS
    <3>2. dropped \in Window /\ inflight \in Window
      BY DEF Window
    <3>3. closed \in BOOLEAN
      OBVIOUS
    <3>4. queued \in Nat /\ next_seq \in Nat /\ dropped_total \in Nat
      OBVIOUS
    <3> QED BY <3>1, <3>2, <3>3, <3>4 DEF QueueTypes, HistoryTypes
  <2>2. TaskTypes
    BY DEF TaskTypes, ReaderLabels, OwnerLabels
  <2>3. CallTypes
    BY DEF CallTypes, Node, Window
  <2> QED BY <2>1, <2>2, <2>3 DEF TypeOK
<1>2. LockInv /\ ListInv /\ InflightInv
  BY DEF LockInv, ListInv, InflightInv, Inside, ReaderLabels
<1>3. LocalInv /\ EofInv
  BY DEF LocalInv, BufferOK, DropCopyOK, NodeCopyOK, EofInv, EofOK, Looping
<1> QED BY <1>1, <1>2, <1>3 DEF ControlInv

LEMMA ControlStep == ControlInv /\ [Next]_vars => ControlInv'
<1> SUFFICES ASSUME ControlInv, [Next]_vars PROVE ControlInv'
  OBVIOUS
<1>1. ASSUME NEW w \in Writers, WriterNext(w) PROVE ControlInv'
  BY <1>1, PushKeeps, DropKeeps, WriterWakesKeeps DEF WriterNext
<1>2. ASSUME NEW r \in Readers, ReaderStep(r) PROVE ControlInv'
  BY <1>2, ReadyDataKeeps, ReadyClosedKeeps, PrepareToWaitKeeps, WaitClosedKeeps,
     WaitDataKeeps, WakeupKeeps, DropCollectKeeps, DropDoneKeeps, DropRestoreKeeps,
     NodePeekKeeps, NodeDelKeeps, NodeFaultKeeps, ReadReturnKeeps
  DEF ReaderStep
<1>3. ASSUME NEW r \in Readers, ReaderNext(r) PROVE ControlInv'
  BY <1>2, <1>3, ReadEnterKeeps, ReadLockKeeps, ReadLockInterruptedKeeps, SignalKeeps
  DEF ReaderNext
<1>4. ASSUME NEW p \in Pollers, PollerNext(p) PROVE ControlInv'
  BY <1>4, PollWaitKeeps, PollMaskKeeps DEF PollerNext
<1>5. ASSUME OwnerNext PROVE ControlInv'
  BY <1>5, CloseKeeps, DestroyKeeps, OwnerWakesKeeps, DestroyLockKeeps,
     DestroyPurgeKeeps, DestroyUnlockKeeps
  DEF OwnerNext, OwnerStep
<1>6. CASE UNCHANGED vars
  <2> USE <1>6 DEF vars, queueVars, waitVars, procVars, callVars, histVars, ControlInv
  <2>1. TypeOK'
    BY DEF TypeOK, QueueTypes, TaskTypes, CallTypes, HistoryTypes
  <2>2. LockInv' /\ ListInv' /\ InflightInv'
    BY DEF LockInv, ListInv, InflightInv
  <2>3. LocalInv' /\ EofInv'
    BY DEF LocalInv, BufferOK, DropCopyOK, NodeCopyOK, EofInv, EofOK, has_data
  <2> QED BY <2>1, <2>2, <2>3
<1> QED BY <1>1, <1>3, <1>4, <1>5, <1>6 DEF Next

(* The control invariant holds in every state of every behaviour.          *)
THEOREM ControlCorrect == Spec => []ControlInv
BY ControlInit, ControlStep, PTL DEF Spec

(* No variable leaves its type: the reader's remaining count, the list     *)
(* counter and the loss counters never go below zero.                      *)
THEOREM TypeCorrect == Spec => []TypeOK
<1>1. ControlInv => TypeOK
  BY DEF ControlInv
<1> QED BY <1>1, ControlCorrect, PTL

(* read_node() unlinks the node it copied: nobody freed it meanwhile.      *)
THEOREM PeekCorrect == Spec => []PeekedNodeIsHead
<1>1. ControlInv => PeekedNodeIsHead
  BY DEF ControlInv, LocalInv, NodeCopyOK, PeekedNodeIsHead
<1> QED BY <1>1, ControlCorrect, PTL

(* A read that returns 0 is the end of a closed and empty queue.           *)
THEOREM EofCorrect == Spec => []EofIsFinal
<1>1. ControlInv => EofIsFinal
  BY DEF ControlInv, EofInv, EofOK, EofIsFinal
<1> QED BY <1>1, ControlCorrect, PTL

(* A read of the queue is safe for any number of readers and writers: it   *)
(* never touches a freed node and ends the log only at its end.            *)
THEOREM ReadCorrect == Spec => []ReadSafe
<1>1. TypeOK /\ PeekedNodeIsHead /\ EofIsFinal => ReadSafe
  BY DEF ReadSafe
<1> QED BY <1>1, TypeCorrect, PeekCorrect, EofCorrect, PTL

-----------------------------------------------------------------------------
(* The accounts: what became of each number, and which report owes it.     *)

NumbersInv ==
    /\ lost \cup Delivered \cup purged \subseteq 1..(next_seq - 1)
    /\ Reported \subseteq lost

(* The losses that no report has taken yet are the latest ones, and those  *)
(* of the window being copied are next to those noted meanwhile, which is  *)
(* what lets out_restore join the two windows.                             *)
OrderInv ==
    /\ dropped.n # 0 => \A s \in lost : s <= dropped.last
    /\ inflight.n # 0 => \A s \in lost :
          s > inflight.last => dropped.n # 0 /\ s >= dropped.first
    /\ inflight.n # 0 /\ dropped.n # 0 => inflight.last < dropped.first

AccountInv == NumbersInv /\ OrderInv /\ EventsAccounted

\* Windows over a given set of losses.
CoveredIn(w, L) == IF w.n = 0 THEN {} ELSE {s \in L : w.first <= s /\ s <= w.last}

WindowOK(w, L) == /\ w.n = Cardinality(CoveredIn(w, L))
                  /\ w.n # 0 => w.first \in L /\ w.last \in L

LEMMA CoveredElements ==
  \A w, L, s : s \in CoveredIn(w, L) <=> /\ w.n # 0 /\ s \in L
                                       /\ w.first <= s /\ s <= w.last
BY DEF CoveredIn

LEMMA LossesFinite ==
  ASSUME NEW n \in Nat, NEW L \in SUBSET (1..(n - 1))
  PROVE  IsFiniteSet(L) /\ \A w : IsFiniteSet(CoveredIn(w, L))
<1>1. IsFiniteSet(1..(n - 1))
  BY FS_Interval
<1>2. IsFiniteSet(L)
  BY <1>1, FS_Subset
<1>3. \A w : CoveredIn(w, L) \in SUBSET L
  BY DEF CoveredIn
<1> QED BY <1>2, <1>3, FS_Subset

\* A new loss is outside every window that is not told of it.
LEMMA WindowIgnores ==
  ASSUME NEW n \in Nat, NEW L \in SUBSET (1..(n - 1)), NEW w \in Window, WindowOK(w, L)
  PROVE  CoveredIn(w, L \cup {n}) = CoveredIn(w, L) /\ WindowOK(w, L \cup {n})
<1>1. w.n # 0 => ~(n <= w.last)
  BY DEF WindowOK, Window
<1>2. CoveredIn(w, L \cup {n}) = CoveredIn(w, L)
  BY <1>1 DEF CoveredIn
<1> QED BY <1>2 DEF WindowOK

\* note_drop() extends the pending window by the new loss.
LEMMA WindowNotes ==
  ASSUME NEW n \in Nat, NEW L \in SUBSET (1..(n - 1)), NEW w \in Window, WindowOK(w, L),
         w.n # 0 => \A s \in L : s <= w.last,
         NEW v, v = [n |-> w.n + 1, first |-> IF w.n = 0 THEN n ELSE w.first, last |-> n]
  PROVE  CoveredIn(v, L \cup {n}) = CoveredIn(w, L) \cup {n} /\ WindowOK(v, L \cup {n})
<1>1. w.n \in Nat /\ w.first \in Nat /\ v.n = w.n + 1 /\ v.n # 0 /\ v.last = n
      /\ v.first = IF w.n = 0 THEN n ELSE w.first
  BY DEF Window
<1>2. \A s \in L : s \in Nat /\ s < n
  OBVIOUS
<1>3. CoveredIn(v, L \cup {n}) = CoveredIn(w, L) \cup {n}
  <2>0. \A s : /\ s \in CoveredIn(v, L \cup {n}) <=>
                     s \in L \cup {n} /\ v.first <= s /\ s <= n
               /\ s \in CoveredIn(w, L) <=>
                     w.n # 0 /\ s \in L /\ w.first <= s /\ s <= w.last
    BY <1>1, CoveredElements
  <2>1. ASSUME NEW s, s \in CoveredIn(v, L \cup {n})
        PROVE  s \in CoveredIn(w, L) \cup {n}
    <3>1. v.first <= s /\ (s = n \/ s \in L)
      BY <2>0, <2>1, Zenon
    <3>2. CASE s \in L
      <4>1. s \in Nat /\ s < n
        BY <3>2, <1>2
      <4>2. w.n # 0
        BY <4>1, <3>1, <1>1
      <4>3. w.first <= s /\ s <= w.last
        BY <4>2, <3>1, <3>2, <1>1
      <4> QED BY <4>2, <4>3, <3>2, <2>0, Zenon
    <3> QED BY <3>1, <3>2
  <2>2. ASSUME NEW s \in CoveredIn(w, L)
        PROVE  s \in CoveredIn(v, L \cup {n})
    <3>1. s \in L /\ w.n # 0 /\ w.first <= s
      BY <2>0, <2>2, Zenon
    <3>2. s \in Nat /\ s < n
      BY <3>1, <1>2
    <3>3. v.first <= s /\ s <= n
      BY <3>1, <3>2, <1>1
    <3> QED BY <2>0, <3>1, <3>3, Zenon
  <2>3. v.first <= n
    BY <1>1, <1>2 DEF WindowOK
  <2>4. n \in CoveredIn(v, L \cup {n})
    BY <2>3, <1>1, CoveredElements
  <2> QED BY <2>1, <2>2, <2>4
<1>4. n \notin CoveredIn(w, L)
  BY <1>2 DEF CoveredIn
<1>5. Cardinality(CoveredIn(v, L \cup {n})) = Cardinality(CoveredIn(w, L)) + 1
  BY <1>3, <1>4, LossesFinite, FS_AddElement
<1> QED BY <1>1, <1>3, <1>5 DEF WindowOK

\* out_restore joins two windows that have no loss between them.
LEMMA WindowsJoin ==
  ASSUME NEW n \in Nat, NEW L \in SUBSET (1..(n - 1)),
         NEW a \in Window, WindowOK(a, L), a.n # 0,
         NEW b \in Window, WindowOK(b, L), b.n # 0,
         a.last < b.first, \A s \in L : s > a.last => s >= b.first,
         \A s \in L : s <= b.last,
         NEW v, v = [n |-> b.n + a.n, first |-> a.first, last |-> b.last]
  PROVE  CoveredIn(v, L) = CoveredIn(a, L) \cup CoveredIn(b, L) /\ WindowOK(v, L)
<1>1. /\ v.n = b.n + a.n /\ v.first = a.first /\ v.last = b.last
      /\ a.n \in Nat /\ b.n \in Nat /\ v.n # 0
      /\ a.first \in Nat /\ a.last \in Nat /\ b.first \in Nat /\ b.last \in Nat
  BY DEF Window
<1>2. \A s \in L : s \in Nat
  OBVIOUS
<1>3. Cardinality(CoveredIn(a, L)) # 0 /\ Cardinality(CoveredIn(b, L)) # 0
  BY DEF WindowOK
<1>4. a.first <= a.last /\ b.first <= b.last
  <2>1. CoveredIn(a, L) # {} /\ CoveredIn(b, L) # {}
    BY <1>3, FS_EmptySet
  <2>2. PICK s, t : s \in CoveredIn(a, L) /\ t \in CoveredIn(b, L)
    BY <2>1
  <2>3. s \in Nat /\ t \in Nat /\ a.first <= s /\ s <= a.last /\ b.first <= t /\ t <= b.last
    BY <2>2, <1>2, CoveredElements
  <2> QED BY <2>3, <1>1
<1>5. CoveredIn(v, L) = CoveredIn(a, L) \cup CoveredIn(b, L)
  <2>1. ASSUME NEW s \in L
        PROVE  s \in CoveredIn(v, L) <=> s \in CoveredIn(a, L) \/ s \in CoveredIn(b, L)
    BY <1>1, <1>2, <1>4, CoveredElements
  <2> QED BY <2>1, CoveredElements
<1>6. CoveredIn(a, L) \cap CoveredIn(b, L) = {}
  <2>1. ASSUME NEW s \in L
        PROVE  ~(s \in CoveredIn(a, L) /\ s \in CoveredIn(b, L))
    BY <1>1, <1>2, CoveredElements
  <2> QED BY <2>1, CoveredElements
<1>7. Cardinality(CoveredIn(v, L)) = Cardinality(CoveredIn(a, L)) + Cardinality(CoveredIn(b, L))
  <2>1. IsFiniteSet(CoveredIn(a, L)) /\ IsFiniteSet(CoveredIn(b, L))
    BY LossesFinite
  <2>2. Cardinality(CoveredIn(a, L)) \in Nat /\ Cardinality(CoveredIn(b, L)) \in Nat
    BY <2>1, FS_CardinalityType
  <2>3. Cardinality({}) = 0
    BY FS_EmptySet
  <2>4. Cardinality(CoveredIn(a, L) \cup CoveredIn(b, L))
        = Cardinality(CoveredIn(a, L)) + Cardinality(CoveredIn(b, L))
          - Cardinality(CoveredIn(a, L) \cap CoveredIn(b, L))
    BY <2>1, FS_Union
  <2>5. Cardinality(CoveredIn(a, L) \cap CoveredIn(b, L)) = 0
    BY <2>3, <1>6
  <2>6. Cardinality(CoveredIn(a, L) \cup CoveredIn(b, L))
        = Cardinality(CoveredIn(a, L)) + Cardinality(CoveredIn(b, L))
    BY <2>2, <2>4, <2>5
  <2> QED BY <2>6, <1>5
<1> QED BY <1>1, <1>5, <1>7 DEF WindowOK

Windows == /\ dropped_total = Cardinality(lost)
           /\ WindowOK(dropped, lost) /\ WindowOK(inflight, lost)
           /\ \A r \in Readers : WindowOK(info[r], lost)

LEMMA ReportsAsWindows == ReportsExact <=> Windows
BY DEF ReportsExact, Windows, WindowOK, Covered, CoveredIn

LEMMA AccountParts ==
  /\ AccountInv <=> /\ NumbersInv /\ OrderInv /\ OneFatePerEvent
                    /\ OneReportPerLoss /\ Windows
  /\ AccountInv' <=> /\ NumbersInv' /\ OrderInv' /\ OneFatePerEvent'
                     /\ OneReportPerLoss' /\ Windows'
<1>1. AccountInv <=> /\ NumbersInv /\ OrderInv /\ OneFatePerEvent
                     /\ OneReportPerLoss /\ Windows
  BY ReportsAsWindows DEF AccountInv, EventsAccounted
<1> QED BY <1>1, PTL

\* What the accounts are made of.
booksVars == <<pending, next_seq, dropped_total, dropped, inflight, info, nodes,
               losses, histVars>>

LEMMA BooksKept ==
  ASSUME AccountInv, UNCHANGED booksVars
  PROVE  AccountInv'
<1> USE DEF booksVars, histVars
<1>1. Delivered' = Delivered /\ Reported' = Reported /\ PendingSeqs' = PendingSeqs
  BY DEF Delivered, Reported, PendingSeqs
<1>2. Covered(dropped)' = Covered(dropped) /\ Covered(inflight)' = Covered(inflight)
  BY DEF Covered
<1>3. NumbersInv' /\ OrderInv'
  BY <1>1, AccountParts DEF NumbersInv, OrderInv
<1>4. OneFatePerEvent' /\ OneReportPerLoss'
  BY <1>1, <1>2, AccountParts DEF OneFatePerEvent, OneReportPerLoss, InOne
<1>5. Windows'
  BY AccountParts DEF Windows
<1> QED BY <1>3, <1>4, <1>5, AccountParts

LEMMA PushBooks ==
  ASSUME ControlInv, AccountInv, NEW w \in Writers, NEW len \in Lens, push(w, len)
  PROVE  PendingSeqs' = PendingSeqs \cup {next_seq} /\ AccountInv'
<1>1. /\ next_seq' = next_seq + 1 /\ next_seq \in Nat
      /\ pending' = Append(pending, [seq |-> next_seq, len |-> len])
      /\ pending \in Seq(Node)
      /\ UNCHANGED <<dropped_total, dropped, inflight, info, nodes, losses, histVars>>
  BY DEF push, NewSeq, WriterOnly, callVars, ControlInv, TypeOK, QueueTypes, histVars
<1>2. PendingSeqs' = PendingSeqs \cup {next_seq}
  <2>1. /\ Len(pending') = Len(pending) + 1
        /\ \A i \in 1..Len(pending) : pending'[i] = pending[i]
        /\ pending'[Len(pending) + 1].seq = next_seq
    BY <1>1
  <2>2. Len(pending) \in Nat /\ \A i \in 1..Len(pending') : i \in 1..Len(pending) \/ i = Len(pending) + 1
    BY <1>1, <2>1
  <2>3. Len(pending) + 1 \in 1..Len(pending') /\ \A i \in 1..Len(pending) : i \in 1..Len(pending')
    BY <2>1, <2>2
  <2>4. ASSUME NEW s \in PendingSeqs'
        PROVE  s \in PendingSeqs \cup {next_seq}
    <3>1. PICK i \in 1..Len(pending') : s = pending'[i].seq
      BY DEF PendingSeqs
    <3> QED BY <3>1, <2>1, <2>2 DEF PendingSeqs
  <2>5. ASSUME NEW s \in PendingSeqs
        PROVE  s \in PendingSeqs'
    <3>1. PICK i \in 1..Len(pending) : s = pending[i].seq
      BY DEF PendingSeqs
    <3> QED BY <3>1, <2>1, <2>3 DEF PendingSeqs
  <2>6. next_seq \in PendingSeqs'
    BY <2>1, <2>3 DEF PendingSeqs
  <2> QED BY <2>4, <2>5, <2>6
<1>3. Delivered' = Delivered /\ Reported' = Reported
  BY <1>1 DEF Delivered, Reported, histVars
<1>4. Covered(dropped)' = Covered(dropped) /\ Covered(inflight)' = Covered(inflight)
  BY <1>1 DEF Covered, histVars
<1>5. NumbersInv' /\ OrderInv'
  BY <1>1, <1>3, AccountParts DEF NumbersInv, OrderInv, histVars
<1>6. OneReportPerLoss' /\ Windows'
  BY <1>1, <1>3, <1>4, AccountParts DEF OneReportPerLoss, InOne, Windows, histVars
<1>7. OneFatePerEvent'
  <2> SUFFICES ASSUME NEW s \in 1..next_seq
               PROVE  InOne(s, lost, Delivered, PendingSeqs \cup {next_seq}, purged \ lost)
    BY <1>1, <1>2, <1>3 DEF OneFatePerEvent, InOne, histVars
  <2>1. CASE s = next_seq
    <3>1. s \notin lost /\ s \notin Delivered /\ s \notin purged
      BY <2>1, <1>1, AccountParts DEF NumbersInv
    <3> QED BY <2>1, <3>1 DEF InOne
  <2>2. CASE s # next_seq
    <3>1. s \in 1..(next_seq - 1)
      BY <2>2, <1>1
    <3> QED BY <2>2, <3>1, AccountParts DEF OneFatePerEvent, InOne
  <2> QED BY <2>1, <2>2
<1> QED BY <1>2, <1>5, <1>6, <1>7, AccountParts

LEMMA DropBooks ==
  ASSUME ControlInv, AccountInv, NEW w \in Writers, drop(w)
  PROVE  /\ Covered(dropped)' = Covered(dropped) \cup {next_seq}
         /\ Covered(inflight)' = Covered(inflight)
         /\ AccountInv'
<1>1. /\ next_seq' = next_seq + 1 /\ next_seq \in Nat /\ dropped_total' = dropped_total + 1
      /\ dropped' = [n |-> dropped.n + 1,
                     first |-> IF dropped.n = 0 THEN next_seq ELSE dropped.first,
                     last |-> next_seq]
      /\ lost' = lost \cup {next_seq}
      /\ dropped \in Window /\ inflight \in Window /\ info \in [Readers -> Window]
      /\ UNCHANGED <<pending, inflight, info, nodes, losses, got, told, purged>>
  BY DEF drop, note_drop, NewSeq, WriterOnly, callVars, ControlInv, TypeOK, QueueTypes, CallTypes
<1>2. lost \in SUBSET (1..(next_seq - 1))
  BY AccountParts DEF NumbersInv
<1>3. /\ Covered(dropped) = CoveredIn(dropped, lost)
      /\ Covered(inflight) = CoveredIn(inflight, lost)
      /\ Covered(dropped)' = CoveredIn(dropped', lost \cup {next_seq})
      /\ Covered(inflight)' = CoveredIn(inflight, lost \cup {next_seq})
  BY <1>1 DEF Covered, CoveredIn
<1>4. /\ CoveredIn(dropped', lost \cup {next_seq}) = CoveredIn(dropped, lost) \cup {next_seq}
      /\ WindowOK(dropped', lost \cup {next_seq})
  BY <1>1, <1>2, WindowNotes, AccountParts DEF Windows, OrderInv
<1>5. /\ CoveredIn(inflight, lost \cup {next_seq}) = CoveredIn(inflight, lost)
      /\ WindowOK(inflight, lost \cup {next_seq})
  BY <1>1, <1>2, WindowIgnores, AccountParts DEF Windows
<1>6. \A r \in Readers : WindowOK(info[r], lost \cup {next_seq})
  BY <1>1, <1>2, WindowIgnores, AccountParts DEF Windows
<1>7. Windows'
  <2>1. next_seq \notin lost
    BY <1>1, <1>2
  <2>2. Cardinality(lost \cup {next_seq}) = Cardinality(lost) + 1
    BY <2>1, <1>1, <1>2, LossesFinite, FS_AddElement
  <2> QED BY <1>1, <1>4, <1>5, <1>6, <2>2, AccountParts DEF Windows
<1>8. Delivered' = Delivered /\ Reported' = Reported /\ PendingSeqs' = PendingSeqs
  BY <1>1 DEF Delivered, Reported, PendingSeqs
<1>9. NumbersInv'
  <2>1. next_seq >= 1
    BY DEF ControlInv, ListInv
  <2>2. next_seq \in 1..(next_seq' - 1) /\ 1..(next_seq - 1) \subseteq 1..(next_seq' - 1)
    BY <2>1, <1>1
  <2>3. lost \cup Delivered \cup purged \subseteq 1..(next_seq - 1) /\ Reported \subseteq lost
    BY AccountParts DEF NumbersInv
  <2> QED BY <2>2, <2>3, <1>1, <1>8 DEF NumbersInv
<1>10. next_seq \notin Delivered /\ next_seq \notin purged /\ next_seq \notin lost
       /\ next_seq \notin Reported /\ next_seq \notin PendingSeqs
       /\ next_seq \notin Covered(inflight)
  <2>1. next_seq \notin Delivered /\ next_seq \notin purged /\ next_seq \notin lost
        /\ next_seq \notin Reported
    BY <1>1, AccountParts DEF NumbersInv
  <2>2. next_seq \notin PendingSeqs
    BY <1>1 DEF PendingSeqs, ControlInv, ListInv
  <2> QED BY <2>1, <2>2 DEF Covered
<1>11. OneFatePerEvent'
  <2> SUFFICES ASSUME NEW s \in 1..next_seq
               PROVE  InOne(s, lost \cup {next_seq}, Delivered, PendingSeqs,
                            purged \ (lost \cup {next_seq}))
    BY <1>1, <1>8 DEF OneFatePerEvent, InOne
  <2>1. CASE s = next_seq
    BY <2>1, <1>10 DEF InOne
  <2>2. CASE s # next_seq
    <3>1. s \in 1..(next_seq - 1)
      BY <2>2, <1>1
    <3> QED BY <2>2, <3>1, AccountParts DEF OneFatePerEvent, InOne
  <2> QED BY <2>1, <2>2
<1>12. OneReportPerLoss'
  <2> SUFFICES ASSUME NEW s \in lost \cup {next_seq}
               PROVE  InOne(s, Reported, Covered(dropped) \cup {next_seq}, Covered(inflight), purged)
    BY <1>1, <1>3, <1>4, <1>5, <1>8 DEF OneReportPerLoss, InOne
  <2>1. CASE s = next_seq
    BY <2>1, <1>10 DEF InOne
  <2>2. CASE s # next_seq
    BY <2>2, AccountParts DEF OneReportPerLoss, InOne
  <2> QED BY <2>1, <2>2
<1>13. OrderInv'
  <2>1. \A s \in lost : s \in Nat /\ s < next_seq
    BY <1>1, <1>2
  <2>2. dropped'.n # 0 /\ dropped'.last = next_seq
        /\ dropped'.first = IF dropped.n = 0 THEN next_seq ELSE dropped.first
    BY <1>1 DEF Window
  <2>3. \A s \in lost' : s <= dropped'.last
    BY <1>1, <2>1, <2>2
  <2>4. inflight.n # 0 => inflight.last \in lost
    BY AccountParts DEF Windows, WindowOK
  <2>5. inflight.n # 0 => inflight.last < dropped'.first
    BY <2>1, <2>2, <2>4, AccountParts DEF OrderInv
  <2>6. inflight.n # 0 => \A s \in lost' : s > inflight.last => s >= dropped'.first
    <3> SUFFICES ASSUME inflight.n # 0, NEW s \in lost', s > inflight.last PROVE s >= dropped'.first
      OBVIOUS
    <3>1. CASE s = next_seq
      <4>1. dropped.n # 0 => dropped.first \in lost
        BY AccountParts DEF Windows, WindowOK
      <4> QED BY <4>1, <3>1, <2>1, <2>2, <1>1
    <3>2. CASE s # next_seq
      <4>1. s \in lost /\ dropped.n # 0 /\ s >= dropped.first
        BY <3>2, <1>1, AccountParts DEF OrderInv
      <4> QED BY <4>1, <2>2
    <3> QED BY <3>1, <3>2
  <2> QED BY <1>1, <2>2, <2>3, <2>5, <2>6 DEF OrderInv
<1> QED BY <1>3, <1>4, <1>5, <1>7, <1>9, <1>11, <1>12, <1>13, AccountParts

\* A read that ends, or never began, hands over what it holds and no more.
LEMMA ResetHandsOver ==
  ASSUME ControlInv, NEW r \in Readers, ResetLocals(r),
         \/ copied[r] > 0 /\ got' = got \cup nodes[r] /\ told' = told \cup losses[r]
         \/ ~(copied[r] > 0) /\ got' = got /\ told' = told
  PROVE  Delivered' = Delivered /\ Reported' = Reported
<1>1. copied[r] > 0 \/ (nodes[r] = {} /\ losses[r] = {})
  BY DEF ControlInv, LocalInv, BufferOK
<1>2. nodes' = [nodes EXCEPT ![r] = {}] /\ losses' = [losses EXCEPT ![r] = {}]
  BY DEF ResetLocals
<1>3. nodes \in [Readers -> SUBSET Nat] /\ losses \in [Readers -> SUBSET Nat]
  BY DEF ControlInv, TypeOK, CallTypes
<1>4. got' = got \cup nodes[r] /\ told' = told \cup losses[r]
  BY <1>1
<1>5. /\ \A q \in Readers : nodes'[q] = IF q = r THEN {} ELSE nodes[q]
      /\ \A q \in Readers : losses'[q] = IF q = r THEN {} ELSE losses[q]
  BY <1>2, <1>3
<1>6. \A s : s \in Delivered' <=> s \in Delivered
  BY <1>4, <1>5 DEF Delivered
<1>7. \A s : s \in Reported' <=> s \in Reported
  BY <1>4, <1>5 DEF Reported
<1> QED BY <1>6, <1>7

\* The books of a step that changes neither queue nor losses.
LEMMA SameQueueBooks ==
  ASSUME ControlInv, AccountInv,
         UNCHANGED <<pending, next_seq, dropped_total, dropped, inflight, lost, purged>>,
         Delivered' = Delivered, Reported' = Reported,
         \A r \in Readers : info'[r] \in {NoWindow, info[r]}
  PROVE  AccountInv'
<1>1. PendingSeqs' = PendingSeqs
  BY DEF PendingSeqs
<1>2. Covered(dropped)' = Covered(dropped) /\ Covered(inflight)' = Covered(inflight)
  BY DEF Covered
<1>3. NumbersInv' /\ OrderInv'
  BY AccountParts DEF NumbersInv, OrderInv
<1>4. OneFatePerEvent' /\ OneReportPerLoss'
  BY <1>1, <1>2, AccountParts DEF OneFatePerEvent, OneReportPerLoss, InOne
<1>5. Windows'
  <2>1. WindowOK(NoWindow, lost)
    BY FS_EmptySet DEF WindowOK, CoveredIn, NoWindow
  <2> QED BY <2>1, AccountParts DEF Windows
<1> QED BY <1>3, <1>4, <1>5, AccountParts

LEMMA ReadLockInterruptedBooks ==
  ASSUME ControlInv, AccountInv, NEW r \in Readers, ReadLockInterrupted(r)
  PROVE  Delivered' = Delivered /\ Reported' = Reported /\ AccountInv'
<1>1. ResetLocals(r) /\ copied[r] = 0 /\ got' = got /\ told' = told
  BY DEF ReadLockInterrupted, NoDelivery, ControlInv, LocalInv, BufferOK
<1>2. Delivered' = Delivered /\ Reported' = Reported
  BY <1>1, ResetHandsOver
<1>3. \A q \in Readers : info'[q] \in {NoWindow, info[q]}
  BY <1>1 DEF ResetLocals, ControlInv, TypeOK, CallTypes
<1> QED BY <1>2, <1>3, SameQueueBooks DEF ReadLockInterrupted, NoDelivery, ReaderOnly, queueVars

LEMMA ReadReturnBooks ==
  ASSUME ControlInv, AccountInv, NEW r \in Readers, ReadReturn(r)
  PROVE  Delivered' = Delivered /\ Reported' = Reported /\ AccountInv'
<1>1. /\ ResetLocals(r)
      /\ \/ copied[r] > 0 /\ got' = got \cup nodes[r] /\ told' = told \cup losses[r]
         \/ ~(copied[r] > 0) /\ got' = got /\ told' = told
  BY DEF ReadReturn
<1>2. Delivered' = Delivered /\ Reported' = Reported
  BY <1>1, ResetHandsOver
<1>3. \A q \in Readers : info'[q] \in {NoWindow, info[q]}
  BY <1>1 DEF ResetLocals, ControlInv, TypeOK, CallTypes
<1> QED BY <1>2, <1>3, SameQueueBooks DEF ReadReturn, ReaderOnly, queueVars

\* read_drop() moves the pending window to the reader's stack.
LEMMA DropCollectBooks ==
  ASSUME ControlInv, AccountInv, NEW r \in Readers, DropCollect(r)
  PROVE  /\ Delivered' = Delivered /\ Reported' = Reported
         /\ Covered(dropped)' \cup Covered(inflight)' = Covered(dropped) \cup Covered(inflight)
         /\ AccountInv'
<1>1. /\ UNCHANGED <<pending, next_seq, dropped_total, closed, got, told, lost, purged>>
      /\ UNCHANGED <<nodes, losses>>
  BY DEF DropCollect, NoDelivery, ReaderOnly, StopRead, callVars
<1>2. Delivered' = Delivered /\ Reported' = Reported /\ PendingSeqs' = PendingSeqs
  BY <1>1 DEF Delivered, Reported, PendingSeqs
<1>3. CASE UNCHANGED <<dropped, inflight, info>>
  <2>1. AccountInv'
    BY <1>1, <1>3, BooksKept DEF booksVars, histVars
  <2>2. Covered(dropped)' = Covered(dropped) /\ Covered(inflight)' = Covered(inflight)
    BY <1>1, <1>3 DEF Covered
  <2> QED BY <2>1, <2>2, <1>2
<1>4. CASE ~(UNCHANGED <<dropped, inflight, info>>)
  <2>1. /\ dropped.n # 0 /\ rpc[r] = "drop"
        /\ info' = [info EXCEPT ![r] = dropped] /\ inflight' = dropped /\ dropped' = NoWindow
    BY <1>4 DEF DropCollect, StopRead, callVars
  <2>2. inflight.n = 0
    BY <2>1 DEF ControlInv, InflightInv, LockInv, Inside, ReaderLabels
  <2>3. /\ Covered(inflight)' = Covered(dropped) /\ Covered(dropped)' = {}
        /\ Covered(inflight) = {}
    BY <2>1, <2>2, <1>1 DEF Covered, NoWindow
  <2>4. NumbersInv'
    BY <1>1, <1>2, AccountParts DEF NumbersInv
  <2>5. OrderInv'
    <3>1. lost \subseteq Nat /\ dropped \in Window
      BY DEF ControlInv, TypeOK, HistoryTypes, QueueTypes
    <3>2. \A s \in lost : ~(s > dropped.last)
      BY <2>1, <3>1, AccountParts DEF OrderInv, Window
    <3> QED BY <2>1, <3>2, <1>1 DEF OrderInv, NoWindow
  <2>6. OneFatePerEvent'
    BY <1>1, <1>2, AccountParts DEF OneFatePerEvent, InOne
  <2>7. OneReportPerLoss'
    BY <1>1, <1>2, <2>3, AccountParts DEF OneReportPerLoss, InOne
  <2>8. Windows'
    <3>1. WindowOK(NoWindow, lost)
      BY FS_EmptySet DEF WindowOK, CoveredIn, NoWindow
    <3>2. \A q \in Readers : info'[q] = IF q = r THEN dropped ELSE info[q]
      BY <2>1 DEF ControlInv, TypeOK, CallTypes
    <3> QED BY <2>1, <3>1, <3>2, <1>1, AccountParts DEF Windows
  <2> QED BY <2>3, <2>4, <2>5, <2>6, <2>7, <2>8, <1>2, AccountParts
<1> QED BY <1>3, <1>4

\* A copied report tells of the losses of the inflight window.
LEMMA DropDoneBooks ==
  ASSUME ControlInv, AccountInv, NEW r \in Readers, DropDone(r)
  PROVE  /\ Delivered' = Delivered /\ Reported' = Reported \cup Covered(inflight)
         /\ Covered(dropped)' = Covered(dropped) /\ Covered(inflight)' = {}
         /\ AccountInv'
<1>1. /\ UNCHANGED <<pending, next_seq, dropped_total, dropped, closed, got, told, lost, purged, info>>
      /\ inflight' = NoWindow /\ info[r] = inflight
      /\ nodes' = [nodes EXCEPT ![r] = @ \cup {}]
      /\ losses' = [losses EXCEPT ![r] = @ \cup Covered(info[r])]
  BY DEF DropDone, Copied, NoDelivery, ReaderOnly, ControlInv, LocalInv, DropCopyOK
<1>2. PendingSeqs' = PendingSeqs
  BY <1>1 DEF PendingSeqs
<1>3. Covered(info[r]) = Covered(inflight)
  BY <1>1
<1>4. /\ \A q \in Readers : nodes'[q] = nodes[q]
      /\ \A q \in Readers : losses'[q] = IF q = r THEN losses[q] \cup Covered(inflight) ELSE losses[q]
  BY <1>1, <1>3 DEF ControlInv, TypeOK, CallTypes
<1>5. Delivered' = Delivered
  <2>1. \A s : s \in Delivered' <=> s \in Delivered
    BY <1>1, <1>4 DEF Delivered
  <2> QED BY <2>1
<1>6. Reported' = Reported \cup Covered(inflight)
  <2>1. \A s : s \in Reported' <=> s \in Reported \/ s \in Covered(inflight)
    BY <1>1, <1>4 DEF Reported
  <2> QED BY <2>1
<1>7. Covered(dropped)' = Covered(dropped) /\ Covered(inflight)' = {}
  BY <1>1 DEF Covered, NoWindow
<1>8. NumbersInv'
  <2>1. Covered(inflight) \subseteq lost
    BY DEF Covered
  <2> QED BY <2>1, <1>1, <1>5, <1>6, AccountParts DEF NumbersInv
<1>9. OrderInv'
  BY <1>1, AccountParts DEF OrderInv, NoWindow
<1>10. OneFatePerEvent'
  BY <1>1, <1>2, <1>5, AccountParts DEF OneFatePerEvent, InOne
<1>11. OneReportPerLoss'
  BY <1>1, <1>6, <1>7, AccountParts DEF OneReportPerLoss, InOne
<1>12. Windows'
  <2>1. WindowOK(NoWindow, lost)
    BY FS_EmptySet DEF WindowOK, CoveredIn, NoWindow
  <2> QED BY <2>1, <1>1, AccountParts DEF Windows
<1> QED BY <1>5, <1>6, <1>7, <1>8, <1>9, <1>10, <1>11, <1>12, AccountParts

\* A fault gives the collected losses back, joined with those noted meanwhile.
LEMMA DropRestoreBooks ==
  ASSUME ControlInv, AccountInv, NEW r \in Readers, DropRestore(r)
  PROVE  /\ Delivered' = Delivered /\ Reported' = Reported
         /\ Covered(dropped)' = Covered(dropped) \cup Covered(inflight)
         /\ Covered(inflight)' = {}
         /\ AccountInv'
<1>1. /\ UNCHANGED <<pending, next_seq, dropped_total, closed, got, told, lost, purged, info, nodes, losses>>
      /\ inflight' = NoWindow /\ dropped' = Restored
      /\ dropped \in Window /\ inflight \in Window /\ next_seq \in Nat
  BY DEF DropRestore, StopRead, NoDelivery, ReaderOnly, ControlInv, TypeOK, QueueTypes
<1>0. inflight.n # 0
  BY DEF DropRestore, ControlInv, LocalInv, DropCopyOK
<1>2. Delivered' = Delivered /\ Reported' = Reported /\ PendingSeqs' = PendingSeqs
  BY <1>1 DEF Delivered, Reported, PendingSeqs
<1>3. lost \in SUBSET (1..(next_seq - 1))
  BY AccountParts DEF NumbersInv
<1>4. /\ Covered(dropped) = CoveredIn(dropped, lost)
      /\ Covered(inflight) = CoveredIn(inflight, lost)
      /\ Covered(dropped)' = CoveredIn(Restored, lost)
  BY <1>1 DEF Covered, CoveredIn
<1>5. Covered(inflight)' = {}
  BY <1>1 DEF Covered, NoWindow
<1>6. /\ Covered(dropped)' = Covered(dropped) \cup Covered(inflight)
      /\ WindowOK(Restored, lost)
      /\ Restored.n # 0 => \A s \in lost : s <= Restored.last
  <2>1. CASE dropped.n = 0
    <3>1. Restored = inflight /\ CoveredIn(dropped, lost) = {}
      BY <2>1 DEF Restored, CoveredIn
    <3>2. inflight.n # 0 => \A s \in lost : ~(s > inflight.last)
      BY <2>1, AccountParts DEF OrderInv
    <3>3. \A s \in lost : s \in Nat
      BY <1>1, <1>3
    <3> QED BY <3>1, <3>2, <3>3, <1>1, <1>4, AccountParts DEF Windows, Window
  <2>2. CASE dropped.n # 0
    <3>1. Restored = [n |-> dropped.n + inflight.n, first |-> inflight.first, last |-> dropped.last]
      BY <2>2 DEF Restored
    <3>2. /\ WindowOK(dropped, lost) /\ WindowOK(inflight, lost)
          /\ inflight.last < dropped.first
          /\ \A s \in lost : s > inflight.last => s >= dropped.first
          /\ \A s \in lost : s <= dropped.last
      BY <2>2, <1>0, AccountParts DEF Windows, OrderInv
    <3>3. /\ CoveredIn(Restored, lost) = CoveredIn(inflight, lost) \cup CoveredIn(dropped, lost)
          /\ WindowOK(Restored, lost)
      BY <3>1, <3>2, <2>2, <1>0, <1>1, <1>3, WindowsJoin
    <3> QED BY <3>1, <3>2, <3>3, <1>4
  <2> QED BY <2>1, <2>2, <1>0
<1>7. NumbersInv' /\ OneFatePerEvent'
  BY <1>1, <1>2, AccountParts DEF NumbersInv, OneFatePerEvent, InOne
<1>8. OrderInv'
  BY <1>1, <1>6 DEF OrderInv, NoWindow
<1>9. OneReportPerLoss'
  <2> SUFFICES ASSUME NEW s \in lost
               PROVE  InOne(s, Reported, Covered(dropped) \cup Covered(inflight), {}, purged)
    BY <1>1, <1>2, <1>5, <1>6 DEF OneReportPerLoss, InOne
  <2> QED BY AccountParts DEF OneReportPerLoss, InOne
<1>10. Windows'
  <2>1. WindowOK(NoWindow, lost)
    BY FS_EmptySet DEF WindowOK, CoveredIn, NoWindow
  <2> QED BY <2>1, <1>1, <1>6, AccountParts DEF Windows
<1> QED BY <1>2, <1>5, <1>6, <1>7, <1>8, <1>9, <1>10, AccountParts

\* The node that read_node() unlinks is the oldest, and its event is delivered.
LEMMA NodeDelBooks ==
  ASSUME ControlInv, AccountInv, NEW r \in Readers, NodeDel(r)
  PROVE  /\ pending # <<>>
         /\ Len(pending') = Len(pending) - 1
         /\ \A i \in 1..Len(pending') : pending'[i] = pending[i + 1]
         /\ Delivered' = Delivered \cup {Head(pending).seq} /\ Reported' = Reported
         /\ AccountInv'
<1>1. pending \in Seq(Node) /\ pending # <<>> /\ pending[1] = node[r]
  BY DEF NodeDel, ControlInv, TypeOK, LocalInv, NodeCopyOK, QueueTypes
<1>2. \A i \in 1..Len(pending) : pending[i] = node[r] => i = 1
  BY <1>1 DEF ControlInv, ListInv
<1>3. /\ Len(pending') = Len(pending) - 1 /\ Len(pending) \in Nat \ {0}
      /\ \A i \in 1..Len(pending') : pending'[i] = pending[i + 1]
  BY <1>1, <1>2 DEF NodeDel, Unlink
<1>4. /\ UNCHANGED <<next_seq, dropped_total, dropped, inflight, closed, got, told, lost, purged, info>>
      /\ nodes' = [nodes EXCEPT ![r] = @ \cup {node[r].seq}]
      /\ losses' = [losses EXCEPT ![r] = @ \cup {}]
  BY DEF NodeDel, Copied, NoDelivery, ReaderOnly
<1>5. /\ \A q \in Readers : nodes'[q] = IF q = r THEN nodes[q] \cup {node[r].seq} ELSE nodes[q]
      /\ \A q \in Readers : losses'[q] = losses[q]
  BY <1>4 DEF ControlInv, TypeOK, CallTypes
<1>6. Delivered' = Delivered \cup {node[r].seq}
  <2>1. \A s : s \in Delivered' <=> s \in Delivered \/ s = node[r].seq
    BY <1>4, <1>5 DEF Delivered
  <2> QED BY <2>1
<1>7. Reported' = Reported
  <2>1. \A s : s \in Reported' <=> s \in Reported
    BY <1>4, <1>5 DEF Reported
  <2> QED BY <2>1
<1>8. PendingSeqs' = PendingSeqs \ {node[r].seq} /\ node[r].seq \in PendingSeqs
  <2>1. \A i \in 1..Len(pending) : i = 1 \/ (i - 1 \in 1..Len(pending') /\ (i - 1) + 1 = i)
    BY <1>3
  <2>2. \A i \in 1..Len(pending') : i + 1 \in 1..Len(pending) /\ 1 < i + 1 /\ 1 \in 1..Len(pending)
    BY <1>3
  <2>3. \A i \in 1..Len(pending') : pending[i + 1].seq # node[r].seq
    BY <2>2, <1>1 DEF ControlInv, ListInv
  <2>4. ASSUME NEW s \in PendingSeqs'
        PROVE  s \in PendingSeqs /\ s # node[r].seq
    <3>1. PICK i \in 1..Len(pending') : s = pending'[i].seq
      BY DEF PendingSeqs
    <3> QED BY <3>1, <2>2, <2>3, <1>3 DEF PendingSeqs
  <2>5. ASSUME NEW s \in PendingSeqs, s # node[r].seq
        PROVE  s \in PendingSeqs'
    <3>1. PICK i \in 1..Len(pending) : s = pending[i].seq
      BY DEF PendingSeqs
    <3>2. i # 1
      BY <3>1, <2>5, <1>1
    <3>3. pending'[i - 1] = pending[i] /\ i - 1 \in 1..Len(pending')
      BY <3>2, <2>1, <1>3
    <3> QED BY <3>1, <3>3 DEF PendingSeqs
  <2>6. node[r].seq \in PendingSeqs
    <3>1. 1 \in 1..Len(pending)
      BY <1>3
    <3> QED BY <3>1, <1>1 DEF PendingSeqs
  <2> QED BY <2>4, <2>5, <2>6
<1>9. Covered(dropped)' = Covered(dropped) /\ Covered(inflight)' = Covered(inflight)
  BY <1>4 DEF Covered
<1>10. NumbersInv'
  <2>1. node[r].seq \in 1..(next_seq - 1)
    BY <1>1, <1>3 DEF ControlInv, ListInv
  <2> QED BY <2>1, <1>4, <1>6, <1>7, AccountParts DEF NumbersInv
<1>11. OneFatePerEvent'
  <2> SUFFICES ASSUME NEW s \in 1..(next_seq - 1)
               PROVE  InOne(s, lost, Delivered \cup {node[r].seq},
                            PendingSeqs \ {node[r].seq}, purged \ lost)
    BY <1>4, <1>6, <1>8 DEF OneFatePerEvent, InOne
  <2>1. InOne(s, lost, Delivered, PendingSeqs, purged \ lost)
    BY AccountParts DEF OneFatePerEvent
  <2> QED BY <2>1, <1>8 DEF InOne
<1>12. OrderInv' /\ OneReportPerLoss' /\ Windows'
  BY <1>4, <1>7, <1>9, AccountParts DEF OrderInv, OneReportPerLoss, InOne, Windows
<1>13. Head(pending) = node[r]
  BY <1>1
<1> QED BY <1>1, <1>3, <1>6, <1>7, <1>10, <1>11, <1>12, <1>13, AccountParts

LEMMA DestroyPurgeBooks ==
  ASSUME ControlInv, AccountInv, DestroyPurge
  PROVE  /\ Delivered' = Delivered /\ Reported' = Reported
         /\ Covered(dropped)' = {} /\ Covered(inflight)' = {}
         /\ AccountInv'
<1>1. /\ UNCHANGED <<next_seq, dropped_total, closed, got, told, lost, info, nodes, losses>>
      /\ pending' = <<>> /\ inflight' = NoWindow /\ dropped' = NoWindow
      /\ purged' = purged \cup PendingSeqs \cup Covered(dropped) \cup Covered(inflight)
  BY DEF DestroyPurge, OwnerOnly, callVars
<1>2. Delivered' = Delivered /\ Reported' = Reported /\ PendingSeqs' = {}
  BY <1>1 DEF Delivered, Reported, PendingSeqs
<1>3. Covered(dropped)' = {} /\ Covered(inflight)' = {}
  BY <1>1 DEF Covered, NoWindow
<1>4. Covered(dropped) \subseteq lost /\ Covered(inflight) \subseteq lost
  BY DEF Covered
<1>5. PendingSeqs \subseteq 1..(next_seq - 1)
  BY DEF PendingSeqs, ControlInv, ListInv
<1>6. NumbersInv' /\ OrderInv'
  BY <1>1, <1>2, <1>4, <1>5, AccountParts DEF NumbersInv, OrderInv, NoWindow
<1>7. OneFatePerEvent'
  <2> SUFFICES ASSUME NEW s \in 1..(next_seq - 1)
               PROVE  InOne(s, lost, Delivered, {}, purged' \ lost)
    BY <1>1, <1>2 DEF OneFatePerEvent, InOne
  <2>1. InOne(s, lost, Delivered, PendingSeqs, purged \ lost)
    BY AccountParts DEF OneFatePerEvent
  <2> QED BY <2>1, <1>1, <1>4 DEF InOne
<1>8. OneReportPerLoss'
  <2> SUFFICES ASSUME NEW s \in lost
               PROVE  InOne(s, Reported, {}, {}, purged')
    BY <1>1, <1>2, <1>3 DEF OneReportPerLoss, InOne
  <2>1. InOne(s, Reported, Covered(dropped), Covered(inflight), purged)
    BY AccountParts DEF OneReportPerLoss
  <2>2. s \in 1..(next_seq - 1) /\ InOne(s, lost, Delivered, PendingSeqs, purged \ lost)
    BY AccountParts DEF OneFatePerEvent, NumbersInv
  <2>3. s \notin PendingSeqs
    BY <2>2 DEF InOne
  <2> QED BY <2>1, <2>3, <1>1 DEF InOne
<1>9. Windows'
  <2>1. WindowOK(NoWindow, lost)
    BY FS_EmptySet DEF WindowOK, CoveredIn, NoWindow
  <2> QED BY <2>1, <1>1, AccountParts DEF Windows
<1> QED BY <1>2, <1>3, <1>6, <1>7, <1>8, <1>9, AccountParts

\* Every other step leaves the books alone.
BookKeeper ==
    \/ \E w \in Writers : drop(w) \/ \E len \in Lens : push(w, len)
    \/ \E r \in Readers : \/ ReadLockInterrupted(r) \/ ReadReturn(r) \/ DropCollect(r)
                         \/ DropDone(r) \/ DropRestore(r) \/ NodeDel(r)
    \/ DestroyPurge

LEMMA OtherSteps ==
  ASSUME [Next]_vars
  PROVE  BookKeeper \/ UNCHANGED booksVars
<1> USE DEF booksVars, queueVars, callVars, histVars, waitVars
<1>1. ASSUME NEW w \in Writers, WriterWakes(w)
      PROVE  UNCHANGED booksVars
  BY <1>1 DEF WriterWakes
<1>2. ASSUME NEW r \in Readers, NEW size \in Counts, NEW nb \in BOOLEAN, ReadEnter(r, size, nb)
      PROVE  UNCHANGED booksVars
  BY <1>2 DEF ReadEnter, NoDelivery, ReaderOnly
<1>3. ASSUME NEW r \in Readers,
             \/ ReadLock(r) \/ Signal(r) \/ ReadyData(r) \/ ReadyClosed(r) \/ PrepareToWait(r)
             \/ WaitClosed(r) \/ WaitData(r) \/ Wakeup(r) \/ NodePeek(r) \/ NodeFault(r)
      PROVE  UNCHANGED booksVars
  BY <1>3 DEF ReadLock, Signal, ReadyData, ReadyClosed, PrepareToWait, WaitClosed, WaitData,
              Wakeup, NodePeek, NodeFault, StopRead, NoDelivery, ReaderOnly
<1>4. ASSUME NEW p \in Pollers, PollerNext(p)
      PROVE  UNCHANGED booksVars
  BY <1>4 DEF PollerNext, PollWait, PollMask
<1>5. ASSUME close \/ destroy \/ DestroyLock \/ OwnerWakes \/ DestroyUnlock
      PROVE  UNCHANGED booksVars
  BY <1>5 DEF close, destroy, mark_closed, DestroyLock, OwnerWakes, DestroyUnlock, OwnerOnly, Stored
<1>6. UNCHANGED vars => UNCHANGED booksVars
  BY DEF vars
<1>7. ASSUME NEW w \in Writers, WriterNext(w)
      PROVE  BookKeeper \/ UNCHANGED booksVars
  BY <1>1, <1>7 DEF WriterNext, BookKeeper
<1>8. ASSUME NEW r \in Readers, ReaderNext(r)
      PROVE  BookKeeper \/ UNCHANGED booksVars
  BY <1>2, <1>3, <1>8 DEF ReaderNext, ReaderStep, BookKeeper
<1>9. OwnerNext => BookKeeper \/ UNCHANGED booksVars
  BY <1>5 DEF OwnerNext, OwnerStep, BookKeeper
<1> QED BY <1>4, <1>6, <1>7, <1>8, <1>9 DEF Next

LEMMA AccountInit == Init => AccountInv
<1> SUFFICES ASSUME Init PROVE AccountInv
  OBVIOUS
<1>1. Delivered = {} /\ Reported = {} /\ lost = {} /\ next_seq = 1 /\ purged = {}
  BY DEF Init, Delivered, Reported
<1>2. WindowOK(NoWindow, lost)
  BY FS_EmptySet DEF WindowOK, CoveredIn, NoWindow
<1>3. Windows
  BY <1>2, FS_EmptySet DEF Windows, Init
<1>4. NumbersInv /\ OrderInv /\ OneFatePerEvent /\ OneReportPerLoss
  BY <1>1 DEF NumbersInv, OrderInv, OneFatePerEvent, OneReportPerLoss, Init, NoWindow
<1> QED BY <1>3, <1>4, AccountParts

LEMMA AccountStep == ControlInv /\ AccountInv /\ [Next]_vars => AccountInv'
<1> SUFFICES ASSUME ControlInv, AccountInv, [Next]_vars PROVE AccountInv'
  OBVIOUS
<1>1. CASE BookKeeper
  BY <1>1, PushBooks, DropBooks, ReadLockInterruptedBooks, ReadReturnBooks, DropCollectBooks,
     DropDoneBooks, DropRestoreBooks, NodeDelBooks, DestroyPurgeBooks DEF BookKeeper
<1>2. CASE UNCHANGED booksVars
  BY <1>2, BooksKept
<1> QED BY <1>1, <1>2, OtherSteps

LEMMA AccountInvariant == Spec => []AccountInv
BY AccountInit, AccountStep, ControlCorrect, PTL DEF Spec

(* Every number ksu_event_queue_push() or _drop() handed out has one fate, *)
(* every loss is reported once or still owed, and a report names the exact *)
(* extent of what was lost, for any number of writers and readers, faults  *)
(* of their copies included.                                               *)
THEOREM AccountsCorrect == Spec => []EventsAccounted
<1>1. AccountInv => EventsAccounted
  BY DEF AccountInv
<1> QED BY <1>1, AccountInvariant, PTL

-----------------------------------------------------------------------------
(* The queue implements the abstract log, step by step.                    *)

\* Only close() and destroy() end the time in which the queue is open.
ClosedInv == opc # "open" => closed

LEMMA ClosedOnce ==
  ASSUME [Next]_vars
  PROVE  UNCHANGED <<opc, closed>> \/ closed' = TRUE \/ (opc # "open" /\ closed' = closed)
<1> DEFINE Goal == UNCHANGED <<opc, closed>> \/ closed' = TRUE \/ (opc # "open" /\ closed' = closed)
<1> USE DEF queueVars, waitVars, procVars, callVars, histVars
<1>1. ASSUME NEW w \in Writers, WriterNext(w) PROVE Goal
  BY <1>1 DEF WriterNext, push, drop, WriterWakes, WriterOnly
<1>2. ASSUME NEW r \in Readers, ReaderNext(r) PROVE Goal
  <2>1. UNCHANGED <<opc, closed>>
    BY <1>2 DEF ReaderNext, ReaderStep, ReadEnter, ReadLock, ReadLockInterrupted, Signal,
       ReadyData, ReadyClosed, PrepareToWait, WaitClosed, WaitData, Wakeup, DropCollect,
       DropDone, DropRestore, NodePeek, NodeDel, NodeFault, ReadReturn, NoDelivery, ReaderOnly
  <2> QED BY <2>1
<1>3. ASSUME NEW p \in Pollers, PollerNext(p) PROVE Goal
  BY <1>3 DEF PollerNext, PollWait, PollMask
<1>4. ASSUME OwnerNext PROVE Goal
  BY <1>4 DEF OwnerNext, OwnerStep, close, destroy, mark_closed, OwnerWakes, AfterWake,
     DestroyLock, DestroyPurge, DestroyUnlock
<1>5. CASE UNCHANGED vars
  BY <1>5 DEF vars
<1> QED BY <1>1, <1>2, <1>3, <1>4, <1>5 DEF Next

LEMMA ClosedInvariant == Spec => []ClosedInv
<1>1. Init => ClosedInv
  BY DEF Init, ClosedInv
<1>2. ClosedInv /\ [Next]_vars => ClosedInv'
  BY ClosedOnce DEF ClosedInv
<1> QED BY <1>1, <1>2, PTL DEF Spec

\* The numbers in the list, oldest first, and the numbers of losses not yet
\* reported: what the log calls queue and owed.
LogQueue == [i \in 1..Len(pending) |-> pending[i].seq]
LogOwed  == Covered(dropped) \cup Covered(inflight)

LEMMA LogQueueLength == pending \in Seq(Node) => Len(LogQueue) = Len(pending)
BY DEF LogQueue

\* Books that do not change leave the log as it is, unless it is closed.
LEMMA SameLog ==
  ASSUME UNCHANGED <<pending, next_seq, purged>>,
         Delivered' = Delivered, Reported' = Reported, LogOwed' = LogOwed,
         closed' = closed \/ closed' = TRUE
  PROVE  [Log!Next]_Log!logVars
<1>1. LogQueue' = LogQueue
  BY DEF LogQueue
<1>2. CASE closed' = closed
  BY <1>1, <1>2 DEF Log!logVars, LogQueue, LogOwed
<1>3. CASE closed' = TRUE
  BY <1>1, <1>3 DEF Log!Next, Log!Close, LogQueue, LogOwed
<1> QED BY <1>2, <1>3

LEMMA PushAccepts ==
  ASSUME ControlInv, NEW w \in Writers, NEW len \in Lens, push(w, len)
  PROVE  Log!Accept
<1>1. /\ ~closed /\ ~Full /\ queued = Len(pending)
      /\ pending \in Seq(Node) /\ next_seq \in Nat
      /\ pending' = Append(pending, [seq |-> next_seq, len |-> len])
      /\ next_seq' = next_seq + 1
      /\ UNCHANGED <<dropped, inflight, closed, nodes, losses, histVars>>
  BY DEF push, NewSeq, WriterOnly, callVars, histVars, ControlInv, TypeOK, QueueTypes, ListInv
<1>2. LogQueue' = Append(LogQueue, next_seq)
  <2>1. Len(pending') = Len(pending) + 1 /\ Len(pending) \in Nat
    BY <1>1
  <2>2. \A i \in 1..Len(pending') : pending'[i].seq = IF i <= Len(pending) THEN pending[i].seq ELSE next_seq
    BY <1>1, <2>1
  <2>3. Append(LogQueue, next_seq) =
          [i \in 1..(Len(pending) + 1) |-> IF i <= Len(pending) THEN pending[i].seq ELSE next_seq]
    BY <2>1 DEF LogQueue
  <2> QED BY <2>1, <2>2, <2>3 DEF LogQueue
<1>3. MaxQueued # 0 => Len(LogQueue) < MaxQueued
  BY <1>1, QueueAssumption, LogQueueLength DEF Full
<1>4. Delivered' = Delivered /\ Reported' = Reported /\ LogOwed' = LogOwed
  BY <1>1 DEF Delivered, Reported, LogOwed, Covered, histVars
<1> QED BY <1>1, <1>2, <1>3, <1>4 DEF Log!Accept, LogQueue, LogOwed, histVars

LEMMA DropLoses ==
  ASSUME ControlInv, AccountInv, NEW w \in Writers, drop(w)
  PROVE  Log!Lose
<1>1. /\ ~closed /\ next_seq' = next_seq + 1
      /\ UNCHANGED <<pending, closed, nodes, losses, got, told, purged>>
  BY DEF drop, NewSeq, WriterOnly, callVars
<1>2. Delivered' = Delivered /\ Reported' = Reported /\ LogQueue' = LogQueue
  BY <1>1 DEF Delivered, Reported, LogQueue
<1>3. LogOwed' = LogOwed \cup {next_seq}
  BY DropBooks DEF LogOwed
<1> QED BY <1>1, <1>2, <1>3 DEF Log!Lose, LogQueue, LogOwed

LEMMA NodeDelDelivers ==
  ASSUME ControlInv, AccountInv, NEW r \in Readers, NodeDel(r)
  PROVE  Log!Deliver
<1>1. /\ UNCHANGED <<next_seq, dropped, inflight, closed, lost, purged>>
      /\ pending \in Seq(Node)
  BY DEF NodeDel, NoDelivery, ReaderOnly, ControlInv, TypeOK, QueueTypes
<1>2. /\ pending # <<>> /\ Len(pending') = Len(pending) - 1
      /\ \A i \in 1..Len(pending') : pending'[i] = pending[i + 1]
      /\ Delivered' = Delivered \cup {Head(pending).seq} /\ Reported' = Reported
  BY NodeDelBooks
<1>3. Len(LogQueue) = Len(pending) /\ Len(pending) \in Nat \ {0} /\ LogQueue \in Seq(Nat)
  <2>1. Len(pending) \in Nat \ {0} /\ \A i \in 1..Len(pending) : pending[i] \in Node
    BY <1>1, <1>2
  <2>2. \A i \in 1..Len(pending) : pending[i].seq \in Nat
    BY <2>1 DEF Node
  <2> QED BY <2>1, <2>2, <1>1, LogQueueLength DEF LogQueue
<1>4. LogQueue # <<>> /\ Head(LogQueue) = Head(pending).seq
  BY <1>1, <1>2, <1>3 DEF LogQueue
<1>5. LogQueue' = Tail(LogQueue)
  <2>1. /\ Tail(LogQueue) \in Seq(Nat) /\ Len(Tail(LogQueue)) = Len(pending) - 1
        /\ \A i \in 1..(Len(pending) - 1) : Tail(LogQueue)[i] = LogQueue[i + 1]
    BY <1>3, <1>4, HeadTailProperties
  <2>2. \A i \in 1..(Len(pending) - 1) : LogQueue[i + 1] = pending'[i].seq
    BY <1>2, <1>3 DEF LogQueue
  <2>3. LogQueue' = [i \in 1..(Len(pending) - 1) |-> pending'[i].seq]
    BY <1>2 DEF LogQueue
  <2>4. LogQueue' \in Seq(Nat) /\ Len(LogQueue') = Len(pending) - 1
    <3>1. \A i \in 1..(Len(pending) - 1) : i \in 1..Len(LogQueue) /\ i + 1 \in 1..Len(LogQueue)
      BY <1>3
    <3>2. \A i \in 1..(Len(pending) - 1) : pending'[i].seq \in Nat
      BY <3>1, <2>2, <1>3
    <3> QED BY <3>2, <2>3, <1>3
  <2> QED BY <2>1, <2>2, <2>3, <2>4, SeqEqual
<1>6. LogOwed' = LogOwed
  BY <1>1 DEF LogOwed, Covered
<1> QED BY <1>1, <1>2, <1>4, <1>5, <1>6 DEF Log!Deliver, LogQueue, LogOwed

\* A report tells of all losses up to the last of its window: the pending
\* window begins after it.
LEMMA DropDoneReports ==
  ASSUME ControlInv, AccountInv, NEW r \in Readers, DropDone(r)
  PROVE  Log!Report
<1>1. UNCHANGED <<pending, next_seq, dropped, closed, lost, purged>>
  BY DEF DropDone, NoDelivery, ReaderOnly
<1>2. inflight.n # 0 /\ inflight \in Window /\ dropped \in Window
      /\ \A s \in lost : s \in Nat
  BY DEF DropDone, ControlInv, LocalInv, DropCopyOK, TypeOK, QueueTypes, HistoryTypes
<1>3. /\ Delivered' = Delivered /\ Reported' = Reported \cup Covered(inflight)
      /\ LogOwed' = Covered(dropped)
  BY DropDoneBooks DEF LogOwed
<1>4. inflight.last \in Covered(inflight)
  <2>1. WindowOK(inflight, lost) /\ Covered(inflight) = CoveredIn(inflight, lost)
    BY AccountParts DEF Windows, Covered, CoveredIn
  <2>2. Covered(inflight) # {}
    BY <1>2, <2>1, FS_EmptySet DEF WindowOK
  <2>3. PICK s \in lost : inflight.first <= s /\ s <= inflight.last
    BY <1>2, <2>2 DEF Covered
  <2>4. inflight.first <= inflight.last /\ inflight.last <= inflight.last
    BY <1>2, <2>3 DEF Window
  <2> QED BY <1>2, <2>1, <2>4 DEF Covered, WindowOK
<1>5. \A s \in Covered(inflight) : s <= inflight.last
  BY <1>2 DEF Covered
<1>6. \A s \in Covered(dropped) : s > inflight.last /\ ~(s <= inflight.last)
  BY <1>2, AccountParts DEF Covered, OrderInv, Window
<1>7. \A s \in Covered(inflight) : ~(s > inflight.last)
  BY <1>2, <1>5 DEF Covered, Window
<1>8. /\ {s \in LogOwed : s <= inflight.last} = Covered(inflight)
      /\ {s \in LogOwed : s > inflight.last} = Covered(dropped)
  BY <1>5, <1>6, <1>7 DEF LogOwed
<1>9. LogQueue' = LogQueue
  BY <1>1 DEF LogQueue
<1>10. inflight.last \in LogOwed
  BY <1>4 DEF LogOwed
<1> QED BY <1>1, <1>3, <1>8, <1>9, <1>10 DEF Log!Report, LogQueue, LogOwed

LEMMA DestroyPurgeDiscards ==
  ASSUME ControlInv, AccountInv, ClosedInv, DestroyPurge
  PROVE  Log!Discard
<1>1. /\ closed /\ closed' = closed /\ next_seq' = next_seq /\ pending' = <<>>
      /\ purged' = purged \cup PendingSeqs \cup Covered(dropped) \cup Covered(inflight)
      /\ pending \in Seq(Node)
  BY DEF DestroyPurge, ClosedInv, OwnerOnly, ControlInv, TypeOK, QueueTypes
<1>2. /\ Delivered' = Delivered /\ Reported' = Reported /\ LogOwed' = {}
  BY DestroyPurgeBooks DEF LogOwed
<1>3. LogQueue' = <<>>
  BY <1>1 DEF LogQueue
<1>4. PendingSeqs = {LogQueue[i] : i \in 1..Len(LogQueue)}
  BY <1>1, LogQueueLength DEF PendingSeqs, LogQueue
<1> QED BY <1>1, <1>2, <1>3, <1>4 DEF Log!Discard, LogQueue, LogOwed

LEMMA LogInit == Init => Log!Init
<1> SUFFICES ASSUME Init PROVE Log!Init
  OBVIOUS
<1>1. Delivered = {} /\ Reported = {} /\ Covered(dropped) = {} /\ Covered(inflight) = {}
  BY DEF Init, Delivered, Reported, Covered, NoWindow
<1>2. LogQueue = <<>>
  BY DEF Init, LogQueue
<1> QED BY <1>1, <1>2 DEF Init, Log!Init, LogQueue

LEMMA LogStep ==
  ASSUME ControlInv, AccountInv, ClosedInv, [Next]_vars
  PROVE  [Log!Next]_Log!logVars
<1>1. ASSUME NEW w \in Writers, drop(w) \/ \E len \in Lens : push(w, len)
      PROVE  [Log!Next]_Log!logVars
  BY <1>1, PushAccepts, DropLoses DEF Log!Next
<1>2. ASSUME NEW r \in Readers, NodeDel(r) \/ DropDone(r)
      PROVE  [Log!Next]_Log!logVars
  BY <1>2, NodeDelDelivers, DropDoneReports DEF Log!Next
<1>3. CASE DestroyPurge
  BY <1>3, DestroyPurgeDiscards DEF Log!Next
<1>4. ASSUME NEW r \in Readers, \/ ReadLockInterrupted(r) \/ ReadReturn(r)
                                \/ DropCollect(r) \/ DropRestore(r)
      PROVE  [Log!Next]_Log!logVars
  <2>1. UNCHANGED <<pending, next_seq, purged, closed>>
    BY <1>4 DEF ReadLockInterrupted, ReadReturn, DropCollect, DropRestore, queueVars,
       NoDelivery, ReaderOnly
  <2>2. Delivered' = Delivered /\ Reported' = Reported
    BY <1>4, ReadLockInterruptedBooks, ReadReturnBooks, DropCollectBooks, DropRestoreBooks
  <2>3. LogOwed' = LogOwed
    <3>1. CASE DropCollect(r) \/ DropRestore(r)
      BY <3>1, DropCollectBooks, DropRestoreBooks DEF LogOwed
    <3>2. CASE ReadLockInterrupted(r) \/ ReadReturn(r)
      BY <3>2 DEF ReadLockInterrupted, ReadReturn, queueVars, NoDelivery, ReaderOnly,
         LogOwed, Covered
    <3> QED BY <1>4, <3>1, <3>2
  <2> QED BY <2>1, <2>2, <2>3, SameLog
<1>5. CASE UNCHANGED booksVars
  <2>1. closed' = closed \/ closed' = TRUE
    BY ClosedOnce
  <2>2. Delivered' = Delivered /\ Reported' = Reported /\ LogOwed' = LogOwed
    BY <1>5 DEF Delivered, Reported, LogOwed, Covered, booksVars, histVars
  <2> QED BY <1>5, <2>1, <2>2, SameLog DEF booksVars, histVars
<1> QED BY <1>1, <1>2, <1>3, <1>4, <1>5, OtherSteps DEF BookKeeper

(* Every behaviour of the queue is one of the log that its users rely on:  *)
(* events come out once and in order, a report covers the oldest losses,   *)
(* the list never holds more than max_queued events, and nothing enters    *)
(* after close().                                                          *)
THEOREM LogImplemented == Spec => ImplementsLog
BY LogInit, LogStep, ControlCorrect, AccountInvariant, ClosedInvariant, PTL
DEF Spec, ImplementsLog, Log!Spec
=============================================================================
