------------------------------ MODULE EventLog ------------------------------
(***************************************************************************)
(* What kernel/infra/event_queue.c promises to its users, without locks,   *)
(* buffers or wake-ups: numbered events come out once, in order; events    *)
(* that found no room are reported, oldest losses first; after the queue   *)
(* is closed nothing enters, and what is left may be discarded.            *)
(***************************************************************************)
EXTENDS Naturals, Sequences

CONSTANT Capacity       \* 0 for no limit

VARIABLES
    next,       \* number of the next event
    queue,      \* numbers of the accepted events not yet delivered
    owed,       \* numbers lost and not yet reported
    seen,       \* numbers delivered
    reported,   \* lost numbers reported
    gone,       \* numbers discarded at the end
    open

logVars == <<next, queue, owed, seen, reported, gone, open>>

Init ==
    /\ next = 1
    /\ queue = <<>>
    /\ owed = {}
    /\ seen = {}
    /\ reported = {}
    /\ gone = {}
    /\ open = TRUE

Accept ==
    /\ open
    /\ Capacity # 0 => Len(queue) < Capacity
    /\ queue' = Append(queue, next)
    /\ next' = next + 1
    /\ UNCHANGED <<owed, seen, reported, gone, open>>

Lose ==
    /\ open
    /\ owed' = owed \cup {next}
    /\ next' = next + 1
    /\ UNCHANGED <<queue, seen, reported, gone, open>>

Deliver ==
    /\ queue # <<>>
    /\ seen' = seen \cup {Head(queue)}
    /\ queue' = Tail(queue)
    /\ UNCHANGED <<next, owed, reported, gone, open>>

\* All losses up to number `last' are reported at once.
Report ==
    \E last \in owed :
        /\ reported' = reported \cup {s \in owed : s <= last}
        /\ owed' = {s \in owed : s > last}
        /\ UNCHANGED <<next, queue, seen, gone, open>>

Close ==
    /\ open' = FALSE
    /\ UNCHANGED <<next, queue, owed, seen, reported, gone>>

Discard ==
    /\ ~open
    /\ gone' = gone \cup owed \cup {queue[i] : i \in 1..Len(queue)}
    /\ queue' = <<>>
    /\ owed' = {}
    /\ UNCHANGED <<next, seen, reported, open>>

Next == Accept \/ Lose \/ Deliver \/ Report \/ Close \/ Discard

Spec == Init /\ [][Next]_logVars
=============================================================================
