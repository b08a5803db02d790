------------------------------ MODULE KsudLog ------------------------------
(***************************************************************************)
(* sulogd, the daemon that writes the kernel's su events to files (sulog.rs *)
(* of ksud): one of them at a time by a lock, one reader of the queue at a *)
(* time by the kernel (sulog/fd.c), sessions that end and start anew, and  *)
(* files by day and size that expire.                                      *)
(*                                                                         *)
(* A line is [kind, first, last]: an event, a report of dropped events, a  *)
(* marker that a session writes first, or a part of a line with what was   *)
(* written behind it. Lines have the same length. The clock is never set   *)
(* back.                                                                   *)
(***************************************************************************)
EXTENDS Integers, Sequences, FiniteSets, FiniteSetsExt, SequencesExt, Functions

CONSTANTS
    Daemons,                    \* sulogd processes
    QueueLimit, ReadLimit,      \* records in the queue, and in the buffer of a read
    MaxFileSize, RetentionDays, \* the configuration
    MaxEvents, MaxDays, MaxFailures \* bounds

ASSUME KsudLogAssumption ==
    /\ "nobody" \notin Daemons /\ QueueLimit \in Nat
    /\ {ReadLimit, MaxFileSize, RetentionDays} \subseteq Nat \ {0}

VARIABLES
    today,
    files,      \* <<day, index>> -> lines
    queue,      \* events in the kernel
    dropped,    \* the events the kernel will report as dropped
    seq,        \* number of the last event
    daemon,     \* what each daemon does
    SULOGD_LOCK, sulog_fd,  \* who holds the lock and the reader's file
    failures,
    reported,   \* history: events a line reported as dropped
    unsaid      \* history: dropped events whose report was read and never written

logVars == <<today, files, queue, dropped, seq, daemon, SULOGD_LOCK, sulog_fd, failures, reported, unsaid>>

Nobody == "nobody"
Dead == [pc |-> "dead", buf |-> <<>>, at |-> <<0, 0>>, size |-> 0]
Line(kind, set) == [kind |-> kind, set |-> set]
Marker == Line("marker", {})

LogInit ==
    /\ today = 1 /\ files = [f \in {} |-> <<>>]
    /\ queue = <<>> /\ dropped = {} /\ seq = 0 /\ reported = {} /\ unsaid = {}
    /\ daemon = [d \in Daemons |-> Dead] /\ SULOGD_LOCK = Nobody /\ sulog_fd = Nobody /\ failures = 0

-----------------------------------------------------------------------------
(* The files *)

cleanup_expired_logs(fs) ==
    [f \in {g \in DOMAIN fs : g[1] >= today - (RetentionDays - 1)} |-> fs[f]]

SizeOf(fs, f) == IF f \in DOMAIN fs THEN Len(fs[f]) ELSE 0
Opened(fs, f) == [g \in DOMAIN fs \cup {f} |-> IF g \in DOMAIN fs THEN fs[g] ELSE <<>>]

\* Mutant: the first file of the day that has room.
FirstWithRoom(fs) ==
    LET room == {i \in 0..MaxEvents : SizeOf(fs, <<today, i>>) < MaxFileSize}
        at == <<today, Min(room)>>
    IN  [files |-> Opened(fs, at), at |-> at, size |-> SizeOf(fs, at)]

\* open_log_writer_for_day(): the last file of the day, or one behind it.
open_log_writer_for_day(fs) ==
    LET found == {f[2] : f \in {g \in DOMAIN fs : g[1] = today}}
        highest == IF found = {} THEN 0 ELSE Max(found)
        full == SizeOf(fs, <<today, highest>>) >= MaxFileSize
        at == <<today, IF full THEN highest + 1 ELSE highest>>
    IN  [files |-> Opened(fs, at), at |-> at, size |-> SizeOf(fs, at)]

\* DailyLogWriter::open(), and what rotate_if_needed() does on a new day.
OpenWriter(fs) == open_log_writer_for_day(cleanup_expired_logs(fs))

rotate_if_needed(d) ==
    LET w == daemon[d]
        next == <<w.at[1], w.at[2] + 1>>
    IN  IF w.at[1] # today THEN OpenWriter(files)
        ELSE IF w.size > 0 /\ w.size + 1 > MaxFileSize
        THEN [files |-> Opened(files, next), at |-> next, size |-> 0]
        ELSE [files |-> files, at |-> w.at, size |-> w.size]

\* Behind a part of a line the next one is not a line of its own.
Appended(lines, line) ==
    IF lines # <<>> /\ Last(lines).kind = "part"
    THEN [lines EXCEPT ![Len(lines)] = Line("glued", {})] ELSE Append(lines, line)

\* write_log_line()
write_log_line(d, line, next) ==
    LET w == rotate_if_needed(d)
    IN  /\ files' = [w.files EXCEPT ![w.at] = Appended(@, line)]
        /\ daemon' = [daemon EXCEPT ![d] = [next EXCEPT !.at = w.at, !.size = w.size + 1]]
        /\ reported' = IF line.kind = "dropped" THEN reported \cup line.set ELSE reported

-----------------------------------------------------------------------------
(* The daemon *)

Go(d, pc) == daemon' = [daemon EXCEPT ![d].pc = pc]

\* spawn_sulogd()
spawn_sulogd(d) ==
    /\ daemon[d] = Dead /\ Go(d, "lock")
    /\ UNCHANGED <<today, files, queue, dropped, seq, SULOGD_LOCK, sulog_fd, failures, reported, unsaid>>

\* SulogdLockGuard::acquire(): without the lock the process ends.
acquire(d) ==
    /\ daemon[d].pc = "lock"
    /\ IF SULOGD_LOCK = Nobody THEN SULOGD_LOCK' = d /\ Go(d, "open")
       ELSE daemon' = [daemon EXCEPT ![d] = Dead] /\ UNCHANGED SULOGD_LOCK
    /\ UNCHANGED <<today, files, queue, dropped, seq, sulog_fd, failures, reported, unsaid>>

\* run_sulog_session(): ksu_install_sulog_fd() refuses a second reader.
open_sulog_fd(d) ==
    /\ daemon[d].pc = "open"
    /\ IF sulog_fd # Nobody THEN Go(d, "sleep") /\ UNCHANGED <<files, sulog_fd>>
       ELSE LET w == OpenWriter(files)
            IN  /\ sulog_fd' = d /\ files' = w.files
                /\ daemon' = [daemon EXCEPT ![d] = [@ EXCEPT !.pc = "marker", !.at = w.at, !.size = w.size]]
    /\ UNCHANGED <<today, queue, dropped, seq, SULOGD_LOCK, failures, reported, unsaid>>

write_session_marker(d) ==
    /\ daemon[d].pc = "marker"
    /\ write_log_line(d, Marker, [daemon[d] EXCEPT !.pc = "wait"])
    /\ UNCHANGED <<today, queue, dropped, seq, SULOGD_LOCK, sulog_fd, failures, unsaid>>

\* read(2): a report of dropped events goes first; the records are out of the
\* queue then.
Read(d) ==
    /\ daemon[d].pc = "wait" /\ (queue # <<>> \/ dropped # {})
    /\ LET records == (IF dropped = {} THEN <<>> ELSE <<Line("dropped", dropped)>>)
                      \o [i \in DOMAIN queue |-> Line("event", {queue[i]})]
           n == IF Len(records) < ReadLimit THEN Len(records) ELSE ReadLimit
           taken == IF dropped = {} THEN n ELSE n - 1
       IN  /\ daemon' = [daemon EXCEPT ![d].pc = "write", ![d].buf = SubSeq(records, 1, n)]
           /\ queue' = SubSeq(queue, taken + 1, Len(queue)) /\ dropped' = {}
    /\ UNCHANGED <<today, files, seq, SULOGD_LOCK, sulog_fd, failures, reported, unsaid>>

\* handle_readable(): the records of a read, one line each.
handle_readable(d) ==
    /\ daemon[d].pc = "write"
    /\ LET rest == Tail(daemon[d].buf)
       IN  write_log_line(d, Head(daemon[d].buf),
                          [daemon[d] EXCEPT !.buf = rest, !.pc = IF rest = <<>> THEN "wait" ELSE "write"])
    /\ UNCHANGED <<today, queue, dropped, seq, SULOGD_LOCK, sulog_fd, failures, unsaid>>

\* The reports that are gone with the buffer of a session.
Forget(d) == unsaid' = unsaid \cup UNION {line.set : line \in {l \in Range(daemon[d].buf) : l.kind = "dropped"}}

\* A session ends: a step fails, perhaps in the middle of a line, or the
\* queue hangs up. What was read and not written is gone.
SessionEnds(d) ==
    /\ daemon[d].pc \in {"open", "marker", "wait", "write"} /\ failures < MaxFailures
    /\ failures' = failures + 1
    /\ daemon' = [daemon EXCEPT ![d] = [Dead EXCEPT !.pc = "sleep"]]
    /\ sulog_fd' = IF sulog_fd = d THEN Nobody ELSE sulog_fd
    /\ \/ UNCHANGED files
       \/ /\ daemon[d].pc \in {"marker", "write"} /\ daemon[d].at[1] = today /\ daemon[d].size < MaxFileSize
          /\ files' = [files EXCEPT ![daemon[d].at] = Appended(@, Line("part", {}))]
    /\ Forget(d)
    /\ UNCHANGED <<today, queue, dropped, seq, SULOGD_LOCK, reported>>

\* run_sulogd(): after SULOGD_RESTART_DELAY.
RestartSession(d) ==
    /\ daemon[d].pc = "sleep" /\ Go(d, "open")
    /\ UNCHANGED <<today, files, queue, dropped, seq, SULOGD_LOCK, sulog_fd, failures, reported, unsaid>>

-----------------------------------------------------------------------------
(* The rest of the system *)

Killed(d) ==
    /\ daemon[d] # Dead /\ failures < MaxFailures /\ failures' = failures + 1
    /\ daemon' = [daemon EXCEPT ![d] = Dead]
    /\ SULOGD_LOCK' = IF SULOGD_LOCK = d THEN Nobody ELSE SULOGD_LOCK
    /\ sulog_fd' = IF sulog_fd = d THEN Nobody ELSE sulog_fd
    /\ Forget(d)
    /\ UNCHANGED <<today, files, queue, dropped, seq, reported>>

\* The power goes: the queue, and the end of the last file, which is not synced.
PowerGone ==
    /\ failures < MaxFailures /\ failures' = failures + 1
    /\ daemon' = [d \in Daemons |-> Dead] /\ SULOGD_LOCK' = Nobody /\ sulog_fd' = Nobody
    /\ queue' = <<>> /\ dropped' = {}
    /\ \/ UNCHANGED files
       \/ \E f \in DOMAIN files : \E n \in 0..(Len(files[f]) - 1) :
             /\ \A g \in DOMAIN files : g[1] < f[1] \/ (g[1] = f[1] /\ g[2] <= f[2])
             /\ files' = [files EXCEPT ![f] = SubSeq(@, 1, n)]
    /\ UNCHANGED <<today, seq, reported, unsaid>>

\* ksu_event_queue_push(): a full queue drops the event.
Event ==
    /\ seq < MaxEvents /\ seq' = seq + 1
    /\ IF Len(queue) < QueueLimit THEN queue' = Append(queue, seq') /\ UNCHANGED dropped
       ELSE dropped' = dropped \cup {seq'} /\ UNCHANGED queue
    /\ UNCHANGED <<today, files, daemon, SULOGD_LOCK, sulog_fd, failures, reported, unsaid>>

Midnight ==
    /\ today < MaxDays /\ today' = today + 1
    /\ UNCHANGED <<files, queue, dropped, seq, daemon, SULOGD_LOCK, sulog_fd, failures, reported, unsaid>>

LogNext ==
    \/ \E d \in Daemons : \/ spawn_sulogd(d) \/ acquire(d) \/ open_sulog_fd(d) \/ write_session_marker(d)
                          \/ Read(d) \/ handle_readable(d) \/ SessionEnds(d) \/ RestartSession(d) \/ Killed(d)
    \/ PowerGone \/ Event \/ Midnight

LogSpec == LogInit /\ [][LogNext]_logVars

-----------------------------------------------------------------------------
\* The log is its files one after the other, by day and index.
Positions(fs) == UNION {{<<f, i>> : i \in DOMAIN fs[f]} : f \in DOMAIN fs}
LineAt(fs, p) == fs[p[1]][p[2]]
FileBefore(f, g) == f[1] < g[1] \/ (f[1] = g[1] /\ f[2] < g[2])
LineBefore(p, q) == FileBefore(p[1], q[1]) \/ (p[1] = q[1] /\ p[2] < q[2])
EventLines(fs) == {p \in Positions(fs) : LineAt(fs, p).kind = "event"}
Number(line) == CHOOSE s \in line.set : TRUE

InOrder(fs) ==
    \A p, q \in EventLines(fs) : LineBefore(p, q) => Number(LineAt(fs, p)) < Number(LineAt(fs, q))

\* Where nothing but reports is between two events, told has those in between.
Gapless(fs, told) ==
    \A p, q \in EventLines(fs) :
        /\ LineBefore(p, q)
        /\ \A r \in Positions(fs) : LineBefore(p, r) /\ LineBefore(r, q) => LineAt(fs, r).kind = "dropped"
        => \A s \in (Number(LineAt(fs, p)) + 1)..(Number(LineAt(fs, q)) - 1) : s \in told

\* Read file by file the log has the events in their order and none twice,
\* over rotations, restarts, kills and power failures, and where events are
\* missing between two lines they were reported as dropped or a session began
\* there; only a report that was read by a session that then failed is never
\* written, since the kernel gives it once. No file grows past its limit.
LogExplained ==
    /\ InOrder(files) /\ Gapless(files, reported \cup unsaid)
    /\ \A f \in DOMAIN files : Len(files[f]) <= MaxFileSize
=============================================================================
