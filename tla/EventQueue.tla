----------------------------- MODULE EventQueue -----------------------------
(***************************************************************************)
(* The bounded kernel-to-user event queue of kernel/infra/event_queue.c.   *)
(*                                                                         *)
(* Writers (any kernel context) push events or record that one was lost;   *)
(* readers drain them through read(2) on a shared file, pollers wait for   *)
(* readiness, and the owner (the module's exit path) closes and destroys   *)
(* the queue.  A section under the spinlock `lock' is one action; what the *)
(* code does between two such sections is separate actions, so every       *)
(* interleaving of the unlocked copies, wake-ups and sleeps is explored.   *)
(*                                                                         *)
(* Sizes are in units of 24 bytes, the size of both ksu_event_record_hdr   *)
(* and ksu_event_queue_dropped_info.  Error numbers keep their values.     *)
(***************************************************************************)
EXTENDS Integers, Sequences, FiniteSets

CONSTANTS
    Writers,        \* kernel tasks that call push() or drop()
    Readers,        \* tasks that call read()
    Pollers,        \* tasks that call poll()
    Owner,          \* the module's exit path
    Nobody,         \* the free state of the read_lock mutex
    MaxQueued,      \* max_queued: capacity in events, 0 for no limit
    MaxPayload,     \* max_payload_len
    Lens,           \* payload lengths a writer may push
    Counts,         \* buffer sizes a reader may pass
    MaxSeq          \* bound: sequence numbers handed out

ASSUME QueueAssumption ==
    /\ MaxQueued \in Nat
    /\ MaxPayload \in Nat
    /\ Lens \subseteq Nat
    /\ Counts \subseteq Nat
    /\ MaxSeq \in Nat
    /\ Owner \notin Readers
    /\ Nobody \notin Readers \cup {Owner}

EAGAIN      == 11
EFAULT      == 14
EMSGSIZE    == 90
ERESTARTSYS == 512
Errors == {-EAGAIN, -EFAULT, -EMSGSIZE, -ERESTARTSYS}

HdrSize  == 1       \* sizeof(struct ksu_event_record_hdr)
InfoSize == 1       \* sizeof(struct ksu_event_queue_dropped_info)

VARIABLES
    pending,        \* the list of queued nodes, oldest first
    queued,         \* the counter the capacity test reads
    next_seq,
    dropped_total,
    dropped,        \* dropped_pending, dropped_first_seq, dropped_last_seq
    inflight,       \* dropped_inflight and its first and last seq
    closed,
    read_lock,      \* holder of the read_lock mutex
    read_wait,      \* tasks on the wait queue that no wake-up has hit yet
    wpc, rpc, ppc, opc      \* where each task is

(* The locals of each reader's call.                                       *)
VARIABLES
    count, copied,  \* read()'s variables of these names
    nonblock,       \* O_NONBLOCK is set
    intr,           \* a signal is pending
    node,           \* the entry read_node() peeked at
    info,           \* the report read_drop() built on its stack
    nodes, losses   \* the numbers the caller's buffer holds so far

(* What the outside world has seen.  Never read by the code's actions.    *)
VARIABLES
    lost,           \* sequence numbers whose event was dropped
    got,            \* event numbers that returned reads delivered
    told,           \* lost numbers covered by reports that reads delivered
    purged          \* numbers thrown away, event or loss, by destroy()

queueVars == <<pending, queued, next_seq, dropped_total, dropped, inflight,
               closed>>
waitVars  == <<read_lock, read_wait>>
procVars  == <<wpc, rpc, ppc, opc>>
callVars  == <<count, copied, nonblock, intr, node, info, nodes, losses>>
histVars  == <<lost, got, told, purged>>
vars      == <<queueVars, waitVars, procVars, callVars, histVars>>

Node   == [seq : Nat, len : Nat]
Window == [n : Nat, first : Nat, last : Nat]
NoWindow == [n |-> 0, first |-> 0, last |-> 0]
NoNode   == [seq |-> 0, len |-> 0]

-----------------------------------------------------------------------------
(* Helpers of the code *)

record_size(payload_len) == HdrSize + payload_len

\* Mutant: a report being copied does not count as data.
HasDataWithoutInflight == dropped.n # 0 \/ pending # <<>>

has_data == dropped.n # 0 \/ inflight.n # 0 \/ pending # <<>>

\* The lost sequence numbers that a window [first, last] covers.
Covered(w) == IF w.n = 0 THEN {} ELSE {s \in lost : w.first <= s /\ s <= w.last}

note_drop(seq) ==
    /\ dropped_total' = dropped_total + 1
    /\ dropped' = [n     |-> dropped.n + 1,
                   first |-> IF dropped.n = 0 THEN seq ELSE dropped.first,
                   last  |-> seq]
    /\ lost' = lost \cup {seq}

-----------------------------------------------------------------------------
Init ==
    /\ pending = <<>>
    /\ queued = 0
    /\ next_seq = 1
    /\ dropped_total = 0
    /\ dropped = NoWindow
    /\ inflight = NoWindow
    /\ closed = FALSE
    /\ read_lock = Nobody
    /\ read_wait = {}
    /\ wpc = [w \in Writers |-> "idle"]
    /\ rpc = [r \in Readers |-> "idle"]
    /\ ppc = [p \in Pollers |-> "idle"]
    /\ opc = "open"
    /\ count = [r \in Readers |-> 0]
    /\ copied = [r \in Readers |-> 0]
    /\ nonblock = [r \in Readers |-> FALSE]
    /\ intr = [r \in Readers |-> FALSE]
    /\ node = [r \in Readers |-> NoNode]
    /\ info = [r \in Readers |-> NoWindow]
    /\ nodes = [r \in Readers |-> {}]
    /\ losses = [r \in Readers |-> {}]
    /\ lost = {}
    /\ got = {}
    /\ told = {}
    /\ purged = {}

-----------------------------------------------------------------------------
(* Writers.  A push that is refused (EMSGSIZE, EPIPE) changes nothing.     *)

wake_up == read_wait' = {}

\* Mutant: the capacity test is off by one.
FullOffByOne == MaxQueued # 0 /\ queued > MaxQueued

Full == MaxQueued # 0 /\ queued >= MaxQueued

WriterOnly(w) ==
    /\ wpc[w] = "idle" /\ wpc' = [wpc EXCEPT ![w] = "wake"]
    /\ UNCHANGED <<inflight, closed, waitVars, rpc, ppc, opc, callVars,
                   got, told, purged>>

NewSeq == ~closed /\ next_seq <= MaxSeq /\ next_seq' = next_seq + 1

\* push() of an event that finds room ...
push(w, len) ==
    /\ len <= MaxPayload
    /\ NewSeq
    /\ ~Full
    /\ pending' = Append(pending, [seq |-> next_seq, len |-> len])
    /\ queued' = queued + 1
    /\ UNCHANGED <<dropped_total, dropped, lost>>
    /\ WriterOnly(w)

\* ... and one that is lost: push() without memory (ENOMEM) or room
\* (ENOSPC), which can happen to any event, and drop().
drop(w) ==
    /\ NewSeq
    /\ note_drop(next_seq)
    /\ UNCHANGED <<pending, queued>>
    /\ WriterOnly(w)

\* wake_up_interruptible_poll() after the spinlock is released.
WriterWakes(w) ==
    /\ wpc[w] = "wake"
    /\ wake_up
    /\ wpc' = [wpc EXCEPT ![w] = "idle"]
    /\ UNCHANGED <<queueVars, read_lock, rpc, ppc, opc, callVars, histVars>>

-----------------------------------------------------------------------------
(* Readers: ksu_event_queue_read().  rpc names the point the call is at.   *)

ReaderOnly == UNCHANGED <<wpc, ppc, opc, lost, purged>>
NoDelivery == UNCHANGED <<got, told>> /\ ReaderOnly

Goto(r, label) == rpc' = [rpc EXCEPT ![r] = label]

\* A read of zero bytes returns at once and changes nothing.
ReadEnter(r, size, nb) ==
    /\ rpc[r] = "idle"
    /\ size > 0
    /\ Goto(r, "lock")
    /\ count' = [count EXCEPT ![r] = size]
    /\ nonblock' = [nonblock EXCEPT ![r] = nb]
    /\ UNCHANGED <<copied, intr, node, info, nodes, losses>>
    /\ UNCHANGED <<waitVars, queueVars>> /\ NoDelivery

\* The call is over; its stack is gone.
ResetLocals(r) ==
    /\ count' = [count EXCEPT ![r] = 0]
    /\ copied' = [copied EXCEPT ![r] = 0]
    /\ nonblock' = [nonblock EXCEPT ![r] = FALSE]
    /\ intr' = [intr EXCEPT ![r] = FALSE]
    /\ node' = [node EXCEPT ![r] = NoNode]
    /\ info' = [info EXCEPT ![r] = NoWindow]
    /\ nodes' = [nodes EXCEPT ![r] = {}]
    /\ losses' = [losses EXCEPT ![r] = {}]

\* Mutant: read() does not exclude another reader.
ReadLockShared(r) ==
    /\ rpc[r] = "lock"
    /\ read_lock' = r
    /\ Goto(r, "ready")
    /\ UNCHANGED <<callVars, read_wait, queueVars>> /\ NoDelivery

\* mutex_lock_interruptible(): taken, or a signal arrives first.
ReadLock(r) ==
    /\ rpc[r] = "lock"
    /\ read_lock = Nobody
    /\ read_lock' = r
    /\ Goto(r, "ready")
    /\ UNCHANGED <<callVars, read_wait, queueVars>> /\ NoDelivery

ReadLockInterrupted(r) ==
    /\ rpc[r] = "lock"
    /\ Goto(r, "idle")
    /\ ResetLocals(r)
    /\ UNCHANGED <<waitVars, queueVars>> /\ NoDelivery

\* read() stops with an error, which is returned only when nothing has been
\* copied.
StopRead(r, err) ==
    /\ copied' = [copied EXCEPT ![r] = IF @ = 0 THEN -err ELSE @]
    /\ Goto(r, "unlock")
    /\ UNCHANGED <<count, nonblock, intr, node, info, nodes, losses>>

\* wait_ready(): data, then closed, then O_NONBLOCK.  wait_event() first
\* repeats the two tests; a repeat that succeeds leads back here and is
\* folded into the tests themselves.
ReadyData(r) ==
    /\ rpc[r] = "ready"
    /\ Goto(r, IF has_data THEN "drop" ELSE "closed")
    /\ UNCHANGED <<callVars, waitVars, queueVars>> /\ NoDelivery

ReadyClosed(r) ==
    /\ rpc[r] = "closed"
    /\ \/ closed /\ Goto(r, "drop") /\ UNCHANGED callVars
       \/ ~closed /\ nonblock[r] /\ StopRead(r, EAGAIN)
       \/ ~closed /\ ~nonblock[r] /\ Goto(r, "prepare") /\ UNCHANGED callVars
    /\ UNCHANGED <<waitVars, queueVars>> /\ NoDelivery

\* A signal for a reader that is about to sleep or asleep.
Signal(r) ==
    /\ rpc[r] \in {"prepare", "asleep"}
    /\ intr' = [intr EXCEPT ![r] = TRUE]
    /\ Goto(r, "prepare")
    /\ UNCHANGED <<count, copied, nonblock, node, info, nodes, losses>>
    /\ UNCHANGED <<waitVars, queueVars>> /\ NoDelivery

\* prepare_to_wait_event(): enqueue, unless a signal is pending.
PrepareToWait(r) ==
    /\ rpc[r] = "prepare"
    /\ \/ intr[r] /\ read_wait' = read_wait \ {r}
       \/ ~intr[r] /\ read_wait' = read_wait \cup {r}
    /\ Goto(r, "wait_closed")
    /\ UNCHANGED <<callVars, read_lock, queueVars>> /\ NoDelivery

\* The wait condition: queue->closed || ksu_event_queue_has_data(queue).
WaitClosed(r) ==
    /\ rpc[r] = "wait_closed"
    /\ \/ closed /\ read_wait' = read_wait \ {r} /\ Goto(r, "ready")
       \/ ~closed /\ Goto(r, "wait_data") /\ UNCHANGED read_wait
    /\ UNCHANGED <<callVars, read_lock, queueVars>> /\ NoDelivery

WaitData(r) ==
    /\ rpc[r] = "wait_data"
    /\ \/ /\ has_data
          /\ read_wait' = read_wait \ {r}
          /\ Goto(r, "ready") /\ UNCHANGED callVars
       \/ /\ ~has_data /\ intr[r]
          /\ StopRead(r, ERESTARTSYS) /\ UNCHANGED read_wait
       \/ /\ ~has_data /\ ~intr[r]
          /\ Goto(r, "asleep") /\ UNCHANGED <<callVars, read_wait>>
    /\ UNCHANGED <<read_lock, queueVars>> /\ NoDelivery

Wakeup(r) ==
    /\ rpc[r] = "asleep"
    /\ r \notin read_wait
    /\ Goto(r, "prepare")
    /\ UNCHANGED <<callVars, waitVars, queueVars>> /\ NoDelivery

\* The loop goes on with the buffer shortened by a record of `size'.
Copied(r, size, ns, ls) ==
    /\ count' = [count EXCEPT ![r] = @ - size]
    /\ copied' = [copied EXCEPT ![r] = @ + size]
    /\ nodes' = [nodes EXCEPT ![r] = @ \cup ns]
    /\ losses' = [losses EXCEPT ![r] = @ \cup ls]
    /\ Goto(r, IF count[r] > size THEN "drop" ELSE "unlock")
    /\ UNCHANGED <<nonblock, intr, node, info>>

\* read_drop(), first locked section.
DropCollect(r) ==
    /\ rpc[r] = "drop"
    /\ \/ /\ dropped.n = 0
          /\ Goto(r, "node")
          /\ UNCHANGED <<dropped, inflight, callVars>>
       \/ /\ dropped.n # 0 /\ count[r] < record_size(InfoSize)
          /\ StopRead(r, EMSGSIZE)
          /\ UNCHANGED <<dropped, inflight>>
       \/ /\ dropped.n # 0 /\ count[r] >= record_size(InfoSize)
          /\ info' = [info EXCEPT ![r] = dropped]
          /\ inflight' = dropped
          /\ dropped' = NoWindow
          /\ Goto(r, "drop_copy")
          /\ UNCHANGED <<count, copied, nonblock, intr, node, nodes, losses>>
    /\ UNCHANGED <<pending, queued, next_seq, dropped_total, closed, waitVars>>
    /\ NoDelivery

\* Both copy_to_user() calls succeeded while the spinlock was free ...
DropDone(r) ==
    /\ rpc[r] = "drop_copy"
    /\ inflight' = NoWindow
    /\ Copied(r, record_size(InfoSize), {}, Covered(info[r]))
    /\ UNCHANGED <<pending, queued, next_seq, dropped_total, dropped, closed,
                   waitVars>>
    /\ NoDelivery

\* Mutant: the collected window replaces the losses noted meanwhile.
RestoredReplaces == inflight

\* What out_restore makes of the collected window and of the losses noted
\* while it was being copied.
Restored == IF dropped.n = 0
            THEN inflight
            ELSE [n     |-> dropped.n + inflight.n,
                  first |-> inflight.first,
                  last  |-> dropped.last]

\* ... or one of them faulted.
DropRestore(r) ==
    /\ rpc[r] = "drop_copy"
    /\ dropped' = Restored
    /\ inflight' = NoWindow
    /\ StopRead(r, EFAULT)
    /\ UNCHANGED <<pending, queued, next_seq, dropped_total, closed, waitVars>>
    /\ NoDelivery

\* read_node(), first locked section: peek at the head.
NodePeek(r) ==
    /\ rpc[r] = "node"
    /\ \/ pending = <<>> /\ Goto(r, "unlock") /\ UNCHANGED callVars
       \/ /\ pending # <<>>
          /\ count[r] < record_size(Head(pending).len)
          /\ StopRead(r, EMSGSIZE)
       \/ /\ pending # <<>>
          /\ count[r] >= record_size(Head(pending).len)
          /\ node' = [node EXCEPT ![r] = Head(pending)]
          /\ Goto(r, "node_copy")
          /\ UNCHANGED <<count, copied, nonblock, intr, info, nodes, losses>>
    /\ UNCHANGED <<waitVars, queueVars>> /\ NoDelivery

\* copy_to_user() faulted; the node stays where it is.
NodeFault(r) ==
    /\ rpc[r] = "node_copy"
    /\ StopRead(r, EFAULT)
    /\ UNCHANGED <<waitVars, queueVars>> /\ NoDelivery

\* list_del(): unlink the node at position i, wherever it is by now.
Unlink(i) == [j \in 1..(Len(pending) - 1) |->
                 IF j < i THEN pending[j] ELSE pending[j + 1]]

NodeDel(r) ==
    /\ rpc[r] = "node_copy"
    /\ \E i \in 1..Len(pending) :
          /\ pending[i] = node[r]
          /\ pending' = Unlink(i)
    /\ queued' = queued - 1
    /\ Copied(r, record_size(node[r].len), {node[r].seq}, {})
    /\ UNCHANGED <<next_seq, dropped_total, dropped, inflight, closed, waitVars>>
    /\ NoDelivery

\* mutex_unlock() and return: a positive result hands over the buffer.
ReadReturn(r) ==
    /\ rpc[r] = "unlock"
    /\ read_lock' = Nobody
    /\ Goto(r, "idle")
    /\ got'  = IF copied[r] > 0 THEN got \cup nodes[r] ELSE got
    /\ told' = IF copied[r] > 0 THEN told \cup losses[r] ELSE told
    /\ ResetLocals(r)
    /\ UNCHANGED <<queueVars, read_wait>> /\ ReaderOnly

-----------------------------------------------------------------------------
(* Pollers: poll_wait() queues the task, the mask is computed under lock.  *)

PollWait(p) ==
    /\ \/ ppc[p] = "idle"
       \/ ppc[p] = "asleep" /\ p \notin read_wait
    /\ read_wait' = read_wait \cup {p}
    /\ ppc' = [ppc EXCEPT ![p] = "mask"]
    /\ UNCHANGED <<queueVars, read_lock, wpc, rpc, opc, callVars, histVars>>

PollMask(p) ==
    /\ ppc[p] = "mask"
    /\ IF has_data \/ closed
       THEN /\ read_wait' = read_wait \ {p}
            /\ ppc' = [ppc EXCEPT ![p] = "idle"]
       ELSE /\ ppc' = [ppc EXCEPT ![p] = "asleep"]
            /\ UNCHANGED read_wait
    /\ UNCHANGED <<queueVars, read_lock, wpc, rpc, opc, callVars, histVars>>

-----------------------------------------------------------------------------
(* The owner: close() and destroy().  The exit path calls close() first;   *)
(* destroy() alone is also a legal use.                                    *)

OwnerOnly == UNCHANGED <<next_seq, dropped_total, wpc, rpc, ppc, callVars,
                       lost, got, told>>
Stored    == <<pending, queued, dropped, inflight, purged>>

mark_closed(from, to) ==
    /\ opc \in from
    /\ opc' = to
    /\ closed' = TRUE
    /\ UNCHANGED <<Stored, waitVars>> /\ OwnerOnly

close   == mark_closed({"open"}, "close_wake")
destroy == mark_closed({"open", "closed"}, "destroy_wake")

\* The wake-ups of close() and of destroy(), and what follows each.
AfterWake == [close_wake |-> "closed", destroy_wake |-> "destroy_lock",
              destroyed_wake |-> "destroyed"]

\* Mutant: closing wakes nobody.
OwnerStaysSilent ==
    /\ opc \in DOMAIN AfterWake
    /\ opc' = AfterWake[opc]
    /\ UNCHANGED <<Stored, closed, waitVars>> /\ OwnerOnly

OwnerWakes ==
    /\ opc \in DOMAIN AfterWake
    /\ opc' = AfterWake[opc]
    /\ wake_up
    /\ UNCHANGED <<Stored, closed, read_lock>> /\ OwnerOnly

DestroyLock ==
    /\ opc = "destroy_lock"
    /\ opc' = "destroy_purge"
    /\ read_lock = Nobody
    /\ read_lock' = Owner
    /\ UNCHANGED <<Stored, closed, read_wait>> /\ OwnerOnly

PendingSeqs == {pending[i].seq : i \in 1..Len(pending)}

DestroyPurge ==
    /\ opc = "destroy_purge"
    /\ opc' = "destroy_unlock"
    /\ purged' = purged \cup PendingSeqs \cup Covered(dropped) \cup Covered(inflight)
    /\ pending' = <<>>
    /\ queued' = 0
    /\ dropped' = NoWindow
    /\ inflight' = NoWindow
    /\ UNCHANGED <<closed, waitVars>> /\ OwnerOnly

DestroyUnlock ==
    /\ opc = "destroy_unlock"
    /\ opc' = "destroyed_wake"
    /\ read_lock' = Nobody
    /\ UNCHANGED <<Stored, closed, read_wait>> /\ OwnerOnly

-----------------------------------------------------------------------------
WriterNext(w) ==
    \/ \E len \in Lens : push(w, len)
    \/ drop(w)
    \/ WriterWakes(w)

\* The steps a reader takes once it is inside read().
ReaderStep(r) ==
    \/ ReadyData(r) \/ ReadyClosed(r)
    \/ PrepareToWait(r) \/ WaitClosed(r) \/ WaitData(r) \/ Wakeup(r)
    \/ DropCollect(r) \/ DropDone(r) \/ DropRestore(r)
    \/ NodePeek(r) \/ NodeDel(r) \/ NodeFault(r)
    \/ ReadReturn(r)

ReaderNext(r) ==
    \/ \E size \in Counts, nb \in BOOLEAN : ReadEnter(r, size, nb)
    \/ ReadLock(r) \/ ReadLockInterrupted(r)
    \/ Signal(r)
    \/ ReaderStep(r)

PollerNext(p) == PollWait(p) \/ PollMask(p)

OwnerStep == OwnerWakes \/ DestroyPurge \/ DestroyUnlock

OwnerNext == close \/ destroy \/ DestroyLock \/ OwnerStep

Next ==
    \/ \E w \in Writers : WriterNext(w)
    \/ \E r \in Readers : ReaderNext(r)
    \/ \E p \in Pollers : PollerNext(p)
    \/ OwnerNext

Spec == Init /\ [][Next]_vars

(* A task that can run is run.  A mutex is handed to a waiter that keeps   *)
(* losing the race for it, hence strong fairness for the two acquisitions. *)
Fairness ==
    /\ \A w \in Writers : WF_vars(WriterWakes(w))
    /\ \A r \in Readers : WF_vars(ReaderStep(r)) /\ SF_vars(ReadLock(r))
    /\ \A p \in Pollers : WF_vars(ppc[p] # "idle" /\ PollerNext(p))
    /\ WF_vars(OwnerStep) /\ SF_vars(DestroyLock)

FairSpec == Spec /\ Fairness

-----------------------------------------------------------------------------
(* Properties *)

ReaderLabels == {"idle", "lock", "ready", "closed", "prepare", "wait_closed",
                 "wait_data", "asleep", "drop", "drop_copy", "node",
                 "node_copy", "unlock"}
OwnerLabels == {"open", "close_wake", "closed", "destroy_wake", "destroy_lock",
                "destroy_purge", "destroy_unlock", "destroyed_wake", "destroyed"}

QueueTypes ==
    /\ pending \in Seq(Node)
    /\ queued \in Nat /\ next_seq \in Nat /\ dropped_total \in Nat
    /\ dropped \in Window /\ inflight \in Window
    /\ closed \in BOOLEAN

TaskTypes ==
    /\ read_lock \in Readers \cup {Owner, Nobody}
    /\ read_wait \subseteq Readers \cup Pollers
    /\ wpc \in [Writers -> {"idle", "wake"}]
    /\ rpc \in [Readers -> ReaderLabels]
    /\ ppc \in [Pollers -> {"idle", "mask", "asleep"}]
    /\ opc \in OwnerLabels

CallTypes ==
    /\ count \in [Readers -> Nat]
    /\ copied \in [Readers -> Nat \cup Errors]
    /\ nonblock \in [Readers -> BOOLEAN] /\ intr \in [Readers -> BOOLEAN]
    /\ node \in [Readers -> Node]
    /\ info \in [Readers -> Window]
    /\ nodes \in [Readers -> SUBSET Nat] /\ losses \in [Readers -> SUBSET Nat]

HistoryTypes ==
    lost \subseteq Nat /\ got \subseteq Nat /\ told \subseteq Nat /\ purged \subseteq Nat

(* Every variable of the queue and of its tasks stays in its type: no      *)
(* counter goes below zero, in particular not a reader's remaining count.  *)
TypeOK == QueueTypes /\ TaskTypes /\ CallTypes /\ HistoryTypes

\* Event numbers and lost numbers that readers hold or have returned.
Delivered == got  \cup UNION {nodes[r]  : r \in Readers}
Reported  == told \cup UNION {losses[r] : r \in Readers}

\* s is in exactly one of the four sets.
InOne(s, A, B, C, D) ==
    /\ s \in A \cup B \cup C \cup D
    /\ s \in A => s \notin B \cup C \cup D
    /\ s \in B => s \notin C \cup D
    /\ s \in C => s \notin D

(* Every sequence number handed out has exactly one fate: it was dropped,  *)
(* its event is in the list, it was copied to a reader (read_node), or     *)
(* destroy() freed it.  No fault, short buffer, signal or concurrent       *)
(* reader loses or repeats an event.                                       *)
OneFatePerEvent ==
    \A s \in 1..(next_seq - 1) :
        InOne(s, lost, Delivered, PendingSeqs, purged \ lost)

(* Every lost number is announced by exactly one report, or still owed by  *)
(* exactly one of the pending and the inflight window: a fault while a     *)
(* report is copied (out_restore) forgets no loss and announces none twice *)
(* although writers note new losses during the copy.                       *)
OneReportPerLoss ==
    \A s \in lost :
        InOne(s, Reported, Covered(dropped), Covered(inflight), purged)

(* A drop report is exact: its count is the number of losses in its range  *)
(* and both ends of the range are losses; dropped_total is the number of   *)
(* losses ever.                                                            *)
ReportsExact ==
    /\ dropped_total = Cardinality(lost)
    /\ \A w \in {dropped, inflight} \cup {info[r] : r \in Readers} :
          /\ w.n = Cardinality(Covered(w))
          /\ w.n # 0 => {w.first, w.last} \subseteq lost

(* Nothing goes missing without a word: an event is delivered once or is   *)
(* lost, and the reader learns of every loss once, and of its exact        *)
(* extent, over faults of its copies and writers that run meanwhile.       *)
EventsAccounted == OneFatePerEvent /\ OneReportPerLoss /\ ReportsExact

(* The node that read_node() copies without the spinlock is still the head *)
(* of the list when it is unlinked: nobody frees it under the reader.      *)
PeekedNodeIsHead ==
    \A r \in Readers : rpc[r] = "node_copy" =>
        pending # <<>> /\ Head(pending) = node[r]

(* read() returns 0, end of file to the log daemon, only for a closed      *)
(* queue that has nothing left to deliver or to report.                    *)
EofIsFinal ==
    \A r \in Readers :
        rpc[r] = "unlock" /\ copied[r] = 0 => closed /\ ~has_data

(* A call of ksu_event_queue_read() computes with counts that stay in      *)
(* range, copies from a node that nobody frees under it, and takes nothing *)
(* but the end of the log for its end.                                     *)
ReadSafe == TypeOK /\ PeekedNodeIsHead /\ EofIsFinal

(* A task never stays asleep on read_wait while there is something for it: *)
(* the wake-up that follows the unlock is never lost.                      *)
SleeperWoken ==
    /\ \A r \in Readers : rpc[r] = "asleep" /\ (has_data \/ closed)
                             ~> rpc[r] # "asleep"
    /\ \A p \in Pollers : ppc[p] = "asleep" /\ (has_data \/ closed)
                             ~> ppc[p] # "asleep"

(* After close() every read() returns, a blocked one included.             *)
ClosedReadsReturn ==
    \A r \in Readers : closed /\ rpc[r] # "idle" ~> rpc[r] = "idle"

(* destroy() finishes: it never waits for ever for the reader's mutex.     *)
DestroyCompletes == opc = "destroy_wake" ~> opc = "destroyed"

(* Closing and destroying the queue ends every call on it.                 *)
ShutdownCompletes == ClosedReadsReturn /\ DestroyCompletes

-----------------------------------------------------------------------------
(* The queue implements the abstract log.                                  *)

Log == INSTANCE EventLog WITH
    Capacity <- MaxQueued,
    next     <- next_seq,
    queue    <- [i \in 1..Len(pending) |-> pending[i].seq],
    owed     <- Covered(dropped) \cup Covered(inflight),
    seen     <- Delivered,
    reported <- Reported,
    gone     <- purged,
    open     <- ~closed

(* Every behaviour of the queue is, step for step, one of the abstract     *)
(* log: events come out in order, losses are reported oldest first, and    *)
(* the list never exceeds max_queued.                                      *)
ImplementsLog == Log!Spec
=============================================================================
