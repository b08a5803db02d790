----------------------------- MODULE HooksProofs -----------------------------
(***************************************************************************)
(* Proofs about Hooks, for any tasks, system calls, missing symbols and    *)
(* missing pages: what is hooked is undone, selinux_hide is on entirely or *)
(* not at all, and a redirected call is served.                            *)
(*                                                                         *)
(* A function is a sequence of steps, and what matters of the ones that    *)
(* are left is which they are, which come before which, and which follow   *)
(* each other directly.                                                    *)
(***************************************************************************)
EXTENDS Hooks, FiniteSetTheorems, SequenceTheorems, TLAPS

Probes == {"regfunc", "unregfunc", "reboot", "input"}

InitSteps ==
    {<<"find_slot">>, <<"fake_init">>, <<"save_status">>, <<"patch_status">>, <<"rules">>,
     <<"trace">>, <<"live">>}
    \cup ({"record", "patch_table"} \X TableSlots) \cup ({"probe"} \X Probes)
    \cup ({"feature"} \X Features) \cup ({"register"} \X Nrs)

EnableSteps ==
    {<<"check_enable">>, <<"save_status">>, <<"patch_status">>, <<"lsm_track">>,
     <<"lsm_patch">>, <<"lsm_set">>, <<"running", TRUE>>}
    \cup ({"save", "patch"} \X HideSlots)

UnhookSteps ==
    {<<"lsm_restore">>, <<"lsm_untrack">>, <<"running", FALSE>>}
    \cup ({"restore"} \X (HideSlots \cup {"status_open"}))

ExitSteps ==
    {<<"untrace">>, <<"clear_hooks">>, <<"fake_free">>, <<"gone">>} \cup UnhookSteps
    \cup ({"restore_table"} \X TableSlots) \cup ({"unprobe"} \X Probes)
    \cup ({"unfeature"} \X Features) \cup ({"unregister"} \X Nrs)

Steps == InitSteps \cup EnableSteps \cup ExitSteps

\* A step of A comes before any of B.
Precedes(q, A, B) == \A i, j \in 1..Len(q) : q[i] \in A /\ q[j] \in B => i < j

\* b is first, or comes right after a.
Follows(q, a, b) == \A i \in 2..Len(q) : q[i] = b => q[i - 1] = a

\* a is not last, and b comes next.
Leads(q, a, b) == \A i \in 1..Len(q) : q[i] = a => i < Len(q) /\ q[i + 1] = b

Once(q, a) == \A i, j \in 1..Len(q) : q[i] = a /\ q[j] = a => i = j

AtEnd(q, a) == \A i \in 1..Len(q) : q[i] = a => i = Len(q)

First(q, a) == q # <<>> /\ q[1] = a

WorkTypes ==
    /\ work \in [Threads -> Seq(Steps)]
    /\ phase \in {"init", "live", "exit", "gone"}
    /\ enforcing \in {None, "permissive", "enforcing"}
    /\ hooked_entries \in Seq(TableSlots)
    /\ DOMAIN call = Tasks

-----------------------------------------------------------------------------
InitOrder(q) ==
    /\ Range(q) \subseteq InitSteps
    /\ Leads(q, <<"save_status">>, <<"patch_status">>)
    /\ \A s \in TableSlots : Follows(q, <<"record", s>>, <<"patch_table", s>>) /\ Once(q, <<"record", s>>)
    /\ Precedes(q, {<<"find_slot">>}, {<<"patch_table", "ni">>})
    /\ <<"find_slot">> \in Range(q) => <<"patch_table", "ni">> \in Range(q)
    /\ Precedes(q, {<<"find_slot">>, <<"patch_table", "ni">>}, {<<"trace">>})
    /\ late => <<"probe", "input">> \notin Range(q)
    /\ AtEnd(q, <<"live">>)

ExitOrder(q) ==
    /\ Range(q) \subseteq ExitSteps
    /\ Precedes(q, {"restore_table"} \X TableSlots, {<<"clear_hooks">>})
    /\ AtEnd(q, <<"gone">>)
    /\ Follows(q, <<"lsm_restore">>, <<"lsm_untrack">>)

OrderInv ==
    /\ phase = "init" => InitOrder(work["life"])
    /\ phase = "exit" => ExitOrder(work["life"])
    /\ phase \in {"live", "gone"} => work["life"] = <<>>
    /\ phase # "live" => work["ioctl"] = <<>>

-----------------------------------------------------------------------------
(* The system call table.                                                  *)
Patches(s) == Found("sys_call_table") /\ (s = "ni" => dispatcher)

TableInv ==
    /\ EntriesExact
    /\ \A s \in Slots : slot[s] = "ksu" => s \notin unmapped
    /\ phase \in {"init", "live"} => \A s \in TableSlots :
          /\ <<"record", s>> \in Range(work["life"]) => slot[s] = "kernel"
          /\ First(work["life"], <<"patch_table", s>>) =>
                /\ <<"record", s>> \notin Range(work["life"])
                /\ Patches(s) => s \in Range(hooked_entries) /\ orig[s] = "kernel"

\* The dispatcher's entry is patched when calls are redirected to it.
RouteInv ==
    /\ \A t \in Tasks : \/ call[t] = None
                        \/ call[t] \in {"redirected"} \X Nrs
                        \/ call[t] \in {"inside"} \X (Slots \ {"ni"})
    /\ \A t \in Tasks, s \in TableSlots : call[t] # None /\ call[t] = <<"inside", s>> => orig[s] # None
    /\ dispatcher => Found("sys_call_table")
    /\ phase \in {"init", "live"} =>
          /\ tracepoint => {<<"find_slot">>, <<"patch_table", "ni">>} \cap Range(work["life"]) = {}
          /\ dispatcher /\ <<"patch_table", "ni">> \notin Range(work["life"]) =>
                slot["ni"] = "ksu" \/ "ni" \in unmapped
          /\ \A t \in Tasks, nr \in Nrs : call[t] # None /\ call[t] = <<"redirected", nr>> =>
                nr \in syscall_hooks /\ (slot["ni"] = "ksu" \/ "ni" \in unmapped)
    /\ RedirectedIsServed

-----------------------------------------------------------------------------
(* What the exit has still to do. *)
PendingInv ==
    /\ probes \subseteq Probes
    /\ phase \in {"init", "live"} => (late => "input" \notin probes)
    /\ phase = "exit" =>
          /\ \A s \in TableSlots : slot[s] = "ksu" => <<"restore_table", s>> \in Range(work["life"])
          /\ syscall_hooks # {} => <<"clear_hooks">> \in Range(work["life"])
          /\ tracepoint => <<"untrace">> \in Range(work["life"])
          /\ \A p \in probes : <<"unprobe", p>> \in Range(work["life"])
          /\ \A f \in feature_handlers : <<"unfeature", f>> \in Range(work["life"])
    /\ UnloadClean

-----------------------------------------------------------------------------
(* selinux_hide: nothing, all, on the way up or on the way down.           *)
HideAll == HideSlots \cup {"setprocattr"}

Off == ~running /\ ~lsm_entry /\ \A s \in HideAll : slot[s] = "kernel"
On ==
    /\ running /\ lsm_entry
    /\ \A s \in HideAll : slot[s] = "ksu"
    /\ \A s \in HideSlots : orig[s] # None

\* What ksu_selinux_hide_enable() has done when its k-th step is next.
EnabledTo(k) ==
    /\ ~running /\ (k > 1 => backup)
    /\ (slot["context_write"] = "ksu" <=> k > 5) /\ (k > 4 => orig["context_write"] # None)
    /\ (slot["access_write"] = "ksu" <=> k > 7) /\ (k > 6 => orig["access_write"] # None)
    /\ (slot["setprocattr"] = "ksu" <=> k > 9) /\ (lsm_entry <=> k > 10)

EnableAt(k) == work["ioctl"] = SubSeq(ksu_selinux_hide_enable, k, 11) /\ EnabledTo(k)

Unhooking(q) ==
    /\ \A s \in HideSlots : slot[s] = "ksu" => <<"restore", s>> \in Range(q) /\ orig[s] # None
    /\ slot["setprocattr"] = "ksu" => lsm_entry /\ <<"lsm_restore">> \in Range(q)
    /\ lsm_entry => <<"lsm_untrack">> \in Range(q)
    /\ First(q, <<"lsm_untrack">>) => slot["setprocattr"] = "kernel"
    /\ running => <<"running", FALSE>> \in Range(q)

UnhookAt ==
    /\ Unhooking(work["ioctl"])
    /\ Range(work["ioctl"]) \subseteq UnhookSteps
    /\ Follows(work["ioctl"], <<"lsm_restore">>, <<"lsm_untrack">>)

HideInv ==
    /\ running => backup
    /\ phase = "init" => Off
    /\ phase = "live" =>
          \/ work["ioctl"] = <<>> /\ (On \/ Off)
          \/ \E k \in 1..11 : EnableAt(k)
          \/ work["ioctl"] # <<>> /\ UnhookAt
    /\ phase = "exit" => Unhooking(work["life"])

HooksInv == TypeOK /\ WorkTypes /\ OrderInv /\ TableInv /\ RouteInv /\ PendingInv /\ HideInv

-----------------------------------------------------------------------------
(* Sequences                                                               *)

LEMMA TailFacts ==
    ASSUME NEW S, NEW q \in Seq(S), q # <<>>
    PROVE  /\ Tail(q) \in Seq(S) /\ Len(q) \in Nat \ {0} /\ Len(Tail(q)) = Len(q) - 1
           /\ Head(q) = q[1] /\ q[1] \in S
           /\ \A i \in 1..Len(Tail(q)) : Tail(q)[i] = q[i + 1]
<1>1. Len(q) \in Nat \ {0}
    BY EmptySeq, LenProperties
<1> QED
    BY <1>1, HeadTailProperties

LEMMA RangeIs ==
    ASSUME NEW S, NEW q \in Seq(S)
    PROVE  \A x : x \in Range(q) <=> \E i \in 1..Len(q) : q[i] = x
BY DEF Range

LEMMA TailRange ==
    ASSUME NEW S, NEW q \in Seq(S), q # <<>>
    PROVE  /\ Range(Tail(q)) \subseteq Range(q) /\ q[1] \in Range(q)
           /\ \A x \in Range(q) : x = q[1] \/ x \in Range(Tail(q))
<1>1. /\ Tail(q) \in Seq(S) /\ Len(q) \in Nat \ {0} /\ Len(Tail(q)) = Len(q) - 1
      /\ \A i \in 1..Len(Tail(q)) : Tail(q)[i] = q[i + 1]
    BY TailFacts
<1>2. \A x : x \in Range(Tail(q)) <=> \E i \in 1..Len(Tail(q)) : Tail(q)[i] = x
    BY <1>1, RangeIs
<1>3. \A x : x \in Range(q) <=> \E i \in 1..Len(q) : q[i] = x
    BY RangeIs
<1>4. ASSUME NEW i \in 1..Len(q), i # 1
      PROVE  q[i] \in Range(Tail(q))
    <2>1. i - 1 \in 1..Len(Tail(q)) /\ (i - 1) + 1 = i
        BY <1>1, <1>4
    <2> QED
        BY <1>1, <1>2, <2>1
<1>5. Range(Tail(q)) \subseteq Range(q)
    <2> SUFFICES ASSUME NEW i \in 1..Len(Tail(q)) PROVE Tail(q)[i] \in Range(q)
        BY <1>2
    <2>1. i + 1 \in 1..Len(q)
        BY <1>1
    <2> QED
        BY <1>1, <1>3, <2>1
<1>6. 1 \in 1..Len(q)
    BY <1>1
<1> QED
    BY <1>3, <1>4, <1>5, <1>6

LEMMA RangeConcat ==
    ASSUME NEW S, NEW p \in Seq(S), NEW q \in Seq(S)
    PROVE  /\ p \o q \in Seq(S) /\ Len(p \o q) = Len(p) + Len(q) /\ Len(p) \in Nat /\ Len(q) \in Nat
           /\ Range(p \o q) = Range(p) \cup Range(q)
<1>1. /\ p \o q \in Seq(S) /\ Len(p \o q) = Len(p) + Len(q)
      /\ \A i \in 1 .. Len(p) + Len(q) : (p \o q)[i] = IF i <= Len(p) THEN p[i] ELSE q[i - Len(p)]
    BY ConcatProperties
<1>2. Len(p) \in Nat /\ Len(q) \in Nat
    BY LenProperties
<1>3. \A x : x \in Range(p \o q) <=> \E i \in 1..Len(p \o q) : (p \o q)[i] = x
    BY <1>1, RangeIs
<1>4. \A x : /\ x \in Range(p) <=> \E i \in 1..Len(p) : p[i] = x
             /\ x \in Range(q) <=> \E i \in 1..Len(q) : q[i] = x
    BY RangeIs
<1>5. ASSUME NEW i \in 1..Len(p \o q)
      PROVE  (p \o q)[i] \in Range(p) \cup Range(q)
    <2>1. CASE i <= Len(p)
        BY <2>1, <1>1, <1>2, <1>4
    <2>2. CASE ~(i <= Len(p))
        <3>1. i - Len(p) \in 1..Len(q)
            BY <2>2, <1>1, <1>2
        <3> QED
            BY <3>1, <2>2, <1>1, <1>4
    <2> QED
        BY <2>1, <2>2
<1>6. ASSUME NEW i \in 1..Len(p)
      PROVE  p[i] \in Range(p \o q)
    <2>1. i \in 1..Len(p \o q) /\ i <= Len(p)
        BY <1>1, <1>2
    <2> QED
        BY <2>1, <1>1, <1>3
<1>7. ASSUME NEW i \in 1..Len(q)
      PROVE  q[i] \in Range(p \o q)
    <2>1. i + Len(p) \in 1..Len(p \o q) /\ ~(i + Len(p) <= Len(p)) /\ (i + Len(p)) - Len(p) = i
        BY <1>1, <1>2
    <2> QED
        BY <2>1, <1>1, <1>3
<1> QED
    BY <1>1, <1>2, <1>3, <1>4, <1>5, <1>6, <1>7

\* What the order of a sequence says of its tail and of its first step.
LEMMA PrecedesTail ==
    ASSUME NEW S, NEW q \in Seq(S), q # <<>>, NEW A, NEW B, Precedes(q, A, B)
    PROVE  Precedes(Tail(q), A, B) /\ (q[1] \in B => Range(q) \cap A = {})
<1>1. /\ Tail(q) \in Seq(S) /\ Len(q) \in Nat \ {0} /\ Len(Tail(q)) = Len(q) - 1
      /\ \A i \in 1..Len(Tail(q)) : Tail(q)[i] = q[i + 1]
    BY TailFacts
<1>2. \A i \in 1..Len(Tail(q)) : i + 1 \in 1..Len(q)
    BY <1>1
<1>3. Precedes(Tail(q), A, B)
    <2> SUFFICES ASSUME NEW i \in 1..Len(Tail(q)), NEW j \in 1..Len(Tail(q)),
                        Tail(q)[i] \in A, Tail(q)[j] \in B
                 PROVE  i < j
        BY DEF Precedes
    <2>1. i + 1 < j + 1
        BY <1>1, <1>2 DEF Precedes
    <2> QED
        BY <2>1
<1>4. ASSUME q[1] \in B, NEW i \in 1..Len(q), q[i] \in A
      PROVE  FALSE
    <2>1. 1 \in 1..Len(q)
        BY <1>1
    <2>2. i < 1
        BY <1>4, <2>1 DEF Precedes
    <2> QED
        BY <2>2
<1>5. \A x : x \in Range(q) <=> \E i \in 1..Len(q) : q[i] = x
    BY RangeIs
<1> QED
    BY <1>3, <1>4, <1>5

LEMMA FollowsTail ==
    ASSUME NEW S, NEW q \in Seq(S), q # <<>>, NEW a, NEW b, Follows(q, a, b)
    PROVE  Follows(Tail(q), a, b) /\ (First(Tail(q), b) => q[1] = a)
<1>1. /\ Tail(q) \in Seq(S) /\ Len(q) \in Nat \ {0} /\ Len(Tail(q)) = Len(q) - 1
      /\ \A i \in 1..Len(Tail(q)) : Tail(q)[i] = q[i + 1]
    BY TailFacts
<1>2. ASSUME NEW i \in 2..Len(Tail(q)), Tail(q)[i] = b
      PROVE  Tail(q)[i - 1] = a
    <2>1. /\ i \in 1..Len(Tail(q)) /\ i - 1 \in 1..Len(Tail(q)) /\ i + 1 \in 2..Len(q)
          /\ (i - 1) + 1 = i /\ (i + 1) - 1 = i
        BY <1>1
    <2>2. q[i + 1] = b
        BY <2>1, <1>1, <1>2
    <2>3. q[(i + 1) - 1] = a
        BY <2>1, <2>2 DEF Follows
    <2> QED
        BY <2>1, <2>3, <1>1
<1>3. ASSUME First(Tail(q), b)
      PROVE  q[1] = a
    <2>1. Len(Tail(q)) # 0
        BY <1>1, <1>3, EmptySeq DEF First
    <2>2. 1 \in 1..Len(Tail(q)) /\ 1 + 1 \in 2..Len(q) /\ (1 + 1) - 1 = 1
        BY <1>1, <2>1
    <2>3. q[1 + 1] = b
        BY <2>2, <1>1, <1>3 DEF First
    <2> QED
        BY <2>2, <2>3 DEF Follows
<1> QED
    BY <1>2, <1>3 DEF Follows

LEMMA LeadsTail ==
    ASSUME NEW S, NEW q \in Seq(S), q # <<>>, NEW a, NEW b, Leads(q, a, b)
    PROVE  Leads(Tail(q), a, b) /\ (q[1] = a => First(Tail(q), b))
<1>1. /\ Tail(q) \in Seq(S) /\ Len(q) \in Nat \ {0} /\ Len(Tail(q)) = Len(q) - 1
      /\ \A i \in 1..Len(Tail(q)) : Tail(q)[i] = q[i + 1]
    BY TailFacts
<1>2. ASSUME NEW i \in 1..Len(Tail(q)), Tail(q)[i] = a
      PROVE  i < Len(Tail(q)) /\ Tail(q)[i + 1] = b
    <2>1. i + 1 \in 1..Len(q) /\ q[i + 1] = a
        BY <1>1, <1>2
    <2>2. i + 1 < Len(q) /\ q[(i + 1) + 1] = b
        BY <2>1 DEF Leads
    <2>3. i < Len(Tail(q)) /\ i + 1 \in 1..Len(Tail(q))
        BY <2>2, <1>1
    <2> QED
        BY <2>2, <2>3, <1>1
<1>3. ASSUME q[1] = a
      PROVE  First(Tail(q), b)
    <2>1. 1 \in 1..Len(q)
        BY <1>1
    <2>2. 1 < Len(q) /\ q[1 + 1] = b
        BY <1>3, <2>1 DEF Leads
    <2>3. 1 \in 1..Len(Tail(q)) /\ Len(Tail(q)) # 0
        BY <2>2, <1>1
    <2>4. Tail(q) # <<>>
        BY <2>3, <1>1, EmptySeq
    <2> QED
        BY <2>2, <2>3, <2>4, <1>1 DEF First
<1> QED
    BY <1>2, <1>3 DEF Leads

LEMMA OnceTail ==
    ASSUME NEW S, NEW q \in Seq(S), q # <<>>, NEW a, Once(q, a)
    PROVE  Once(Tail(q), a) /\ (q[1] = a => a \notin Range(Tail(q)))
<1>1. /\ Tail(q) \in Seq(S) /\ Len(q) \in Nat \ {0} /\ Len(Tail(q)) = Len(q) - 1
      /\ \A i \in 1..Len(Tail(q)) : Tail(q)[i] = q[i + 1]
    BY TailFacts
<1>2. \A i \in 1..Len(Tail(q)) : i + 1 \in 1..Len(q) /\ i + 1 # 1
    BY <1>1
<1>3. ASSUME NEW i \in 1..Len(Tail(q)), NEW j \in 1..Len(Tail(q)), Tail(q)[i] = a, Tail(q)[j] = a
      PROVE  i = j
    <2>1. i + 1 = j + 1
        BY <1>1, <1>2, <1>3 DEF Once
    <2> QED
        BY <2>1
<1>4. ASSUME q[1] = a, NEW i \in 1..Len(Tail(q)), Tail(q)[i] = a
      PROVE  FALSE
    <2>1. 1 \in 1..Len(q) /\ q[i + 1] = a /\ i + 1 \in 1..Len(q)
        BY <1>1, <1>2, <1>4
    <2>2. i + 1 = 1
        BY <1>4, <2>1 DEF Once
    <2> QED
        BY <2>2, <1>2
<1>5. \A x : x \in Range(Tail(q)) <=> \E i \in 1..Len(Tail(q)) : Tail(q)[i] = x
    BY <1>1, RangeIs
<1> QED
    BY <1>3, <1>4, <1>5 DEF Once

LEMMA AtEndTail ==
    ASSUME NEW S, NEW q \in Seq(S), q # <<>>, NEW a, AtEnd(q, a)
    PROVE  AtEnd(Tail(q), a) /\ (q[1] = a => Tail(q) = <<>>)
<1>1. /\ Tail(q) \in Seq(S) /\ Len(q) \in Nat \ {0} /\ Len(Tail(q)) = Len(q) - 1
      /\ \A i \in 1..Len(Tail(q)) : Tail(q)[i] = q[i + 1]
    BY TailFacts
<1>2. ASSUME NEW i \in 1..Len(Tail(q)), Tail(q)[i] = a
      PROVE  i = Len(Tail(q))
    <2>1. i + 1 \in 1..Len(q) /\ q[i + 1] = a
        BY <1>1, <1>2
    <2>2. i + 1 = Len(q)
        BY <2>1 DEF AtEnd
    <2> QED
        BY <2>2, <1>1
<1>3. ASSUME q[1] = a
      PROVE  Tail(q) = <<>>
    <2>1. 1 \in 1..Len(q)
        BY <1>1
    <2>2. 1 = Len(q)
        BY <1>3, <2>1 DEF AtEnd
    <2>3. Len(Tail(q)) = 0
        BY <2>2, <1>1
    <2> QED
        BY <2>3, <1>1, EmptySeq
<1> QED
    BY <1>2, <1>3 DEF AtEnd

\* The order of a concatenation, from the orders of its parts.
LEMMA ConcatAt ==
    ASSUME NEW S, NEW p \in Seq(S), NEW q \in Seq(S)
    PROVE  \A i \in 1..Len(p \o q) :
              \/ i \in 1..Len(p) /\ (p \o q)[i] = p[i] /\ p[i] \in Range(p)
              \/ i - Len(p) \in 1..Len(q) /\ (p \o q)[i] = q[i - Len(p)] /\ q[i - Len(p)] \in Range(q)
<1>1. /\ Len(p \o q) = Len(p) + Len(q)
      /\ \A i \in 1 .. Len(p) + Len(q) : (p \o q)[i] = IF i <= Len(p) THEN p[i] ELSE q[i - Len(p)]
    BY ConcatProperties
<1>2. Len(p) \in Nat /\ Len(q) \in Nat
    BY LenProperties
<1>3. \A x : /\ x \in Range(p) <=> \E i \in 1..Len(p) : p[i] = x
             /\ x \in Range(q) <=> \E i \in 1..Len(q) : q[i] = x
    BY RangeIs
<1> SUFFICES ASSUME NEW i \in 1..Len(p \o q)
             PROVE  \/ i \in 1..Len(p) /\ (p \o q)[i] = p[i] /\ p[i] \in Range(p)
                    \/ i - Len(p) \in 1..Len(q) /\ (p \o q)[i] = q[i - Len(p)] /\ q[i - Len(p)] \in Range(q)
    OBVIOUS
<1>4. CASE i <= Len(p)
    <2>1. i \in 1..Len(p)
        BY <1>2, <1>4
    <2> QED
        BY <2>1, <1>1, <1>3, <1>4
<1>5. CASE ~(i <= Len(p))
    <2>1. i - Len(p) \in 1..Len(q)
        BY <1>1, <1>2, <1>5
    <2> QED
        BY <2>1, <1>1, <1>3, <1>5
<1> QED
    BY <1>4, <1>5

LEMMA PrecedesConcat ==
    ASSUME NEW S, NEW p \in Seq(S), NEW q \in Seq(S), NEW A, NEW B,
           Precedes(p, A, B), Precedes(q, A, B), Range(p) \cap B = {} \/ Range(q) \cap A = {}
    PROVE  Precedes(p \o q, A, B)
<1>1. Len(p \o q) = Len(p) + Len(q) /\ Len(p) \in Nat /\ Len(q) \in Nat
    BY RangeConcat
<1> SUFFICES ASSUME NEW i \in 1..Len(p \o q), NEW j \in 1..Len(p \o q),
                    (p \o q)[i] \in A, (p \o q)[j] \in B
             PROVE  i < j
    BY DEF Precedes
<1>2. /\ \/ i \in 1..Len(p) /\ (p \o q)[i] = p[i] /\ p[i] \in Range(p)
         \/ i - Len(p) \in 1..Len(q) /\ (p \o q)[i] = q[i - Len(p)] /\ q[i - Len(p)] \in Range(q)
      /\ \/ j \in 1..Len(p) /\ (p \o q)[j] = p[j] /\ p[j] \in Range(p)
         \/ j - Len(p) \in 1..Len(q) /\ (p \o q)[j] = q[j - Len(p)] /\ q[j - Len(p)] \in Range(q)
    BY ConcatAt
<1>3. CASE i \in 1..Len(p) /\ j \in 1..Len(p) /\ p[i] \in A /\ p[j] \in B
    BY <1>3 DEF Precedes
<1>4. CASE i \in 1..Len(p) /\ j - Len(p) \in 1..Len(q)
    BY <1>4, <1>1
<1>5. CASE i - Len(p) \in 1..Len(q) /\ j - Len(p) \in 1..Len(q) /\ q[i - Len(p)] \in A /\ q[j - Len(p)] \in B
    <2>1. i - Len(p) < j - Len(p)
        BY <1>5 DEF Precedes
    <2> QED
        BY <2>1, <1>1
<1> QED
    BY <1>2, <1>3, <1>4, <1>5

LEMMA FollowsConcat ==
    ASSUME NEW S, NEW p \in Seq(S), NEW q \in Seq(S), NEW a, NEW b,
           Follows(p, a, b), Follows(q, a, b), ~First(q, b)
    PROVE  Follows(p \o q, a, b)
<1>1. Len(p \o q) = Len(p) + Len(q) /\ Len(p) \in Nat /\ Len(q) \in Nat
    BY RangeConcat
<1> SUFFICES ASSUME NEW i \in 2..Len(p \o q), (p \o q)[i] = b
             PROVE  (p \o q)[i - 1] = a
    BY DEF Follows
<1>2. i \in 1..Len(p \o q) /\ i - 1 \in 1..Len(p \o q)
    BY <1>1
<1>3. (p \o q)[i - 1] = IF i - 1 <= Len(p) THEN p[i - 1] ELSE q[(i - 1) - Len(p)]
    BY <1>1, <1>2, ConcatProperties
<1>4. \/ i \in 1..Len(p) /\ (p \o q)[i] = p[i]
      \/ i - Len(p) \in 1..Len(q) /\ (p \o q)[i] = q[i - Len(p)]
    BY <1>2, ConcatAt
<1>5. CASE i \in 1..Len(p) /\ (p \o q)[i] = p[i]
    <2>1. i \in 2..Len(p) /\ i - 1 <= Len(p)
        BY <1>1, <1>2, <1>5
    <2> QED
        BY <2>1, <1>3, <1>5 DEF Follows
<1>6. CASE i - Len(p) \in 1..Len(q) /\ (p \o q)[i] = q[i - Len(p)]
    <2>1. i - Len(p) # 1
        BY <1>1, <1>6, EmptySeq DEF First
    <2>2. i - Len(p) \in 2..Len(q) /\ ~(i - 1 <= Len(p)) /\ (i - 1) - Len(p) = (i - Len(p)) - 1
        BY <2>1, <1>1, <1>6
    <2>3. q[(i - Len(p)) - 1] = a
        BY <2>2, <1>6 DEF Follows
    <2> QED
        BY <2>2, <2>3, <1>3
<1> QED
    BY <1>4, <1>5, <1>6

LEMMA LeadsConcat ==
    ASSUME NEW S, NEW p \in Seq(S), NEW q \in Seq(S), NEW a, NEW b,
           Leads(p, a, b), Leads(q, a, b)
    PROVE  Leads(p \o q, a, b)
<1>1. Len(p \o q) = Len(p) + Len(q) /\ Len(p) \in Nat /\ Len(q) \in Nat
    BY RangeConcat
<1> SUFFICES ASSUME NEW i \in 1..Len(p \o q), (p \o q)[i] = a
             PROVE  i < Len(p \o q) /\ (p \o q)[i + 1] = b
    BY DEF Leads
<1>2. \A k \in 1..Len(p \o q) : (p \o q)[k] = IF k <= Len(p) THEN p[k] ELSE q[k - Len(p)]
    BY <1>1, ConcatProperties
<1>3. \/ i \in 1..Len(p) /\ (p \o q)[i] = p[i]
      \/ i - Len(p) \in 1..Len(q) /\ (p \o q)[i] = q[i - Len(p)]
    BY ConcatAt
<1>4. CASE i \in 1..Len(p) /\ (p \o q)[i] = p[i]
    <2>1. i < Len(p) /\ p[i + 1] = b
        BY <1>4 DEF Leads
    <2>2. i + 1 \in 1..Len(p \o q) /\ i + 1 <= Len(p) /\ i < Len(p \o q)
        BY <2>1, <1>1, <1>4
    <2> QED
        BY <2>1, <2>2, <1>2
<1>5. CASE i - Len(p) \in 1..Len(q) /\ (p \o q)[i] = q[i - Len(p)]
    <2>1. i - Len(p) < Len(q) /\ q[(i - Len(p)) + 1] = b
        BY <1>5 DEF Leads
    <2>2. /\ i + 1 \in 1..Len(p \o q) /\ ~(i + 1 <= Len(p)) /\ i < Len(p \o q)
          /\ (i + 1) - Len(p) = (i - Len(p)) + 1
        BY <2>1, <1>1, <1>5
    <2> QED
        BY <2>1, <2>2, <1>2
<1> QED
    BY <1>3, <1>4, <1>5

LEMMA OnceConcat ==
    ASSUME NEW S, NEW p \in Seq(S), NEW q \in Seq(S), NEW a,
           Once(p, a), Once(q, a), a \notin Range(p) \cap Range(q)
    PROVE  Once(p \o q, a)
<1>1. Len(p \o q) = Len(p) + Len(q) /\ Len(p) \in Nat /\ Len(q) \in Nat
    BY RangeConcat
<1> SUFFICES ASSUME NEW i \in 1..Len(p \o q), NEW j \in 1..Len(p \o q),
                    (p \o q)[i] = a, (p \o q)[j] = a
             PROVE  i = j
    BY DEF Once
<1>2. /\ \/ i \in 1..Len(p) /\ (p \o q)[i] = p[i] /\ p[i] \in Range(p)
         \/ i - Len(p) \in 1..Len(q) /\ (p \o q)[i] = q[i - Len(p)] /\ q[i - Len(p)] \in Range(q)
      /\ \/ j \in 1..Len(p) /\ (p \o q)[j] = p[j] /\ p[j] \in Range(p)
         \/ j - Len(p) \in 1..Len(q) /\ (p \o q)[j] = q[j - Len(p)] /\ q[j - Len(p)] \in Range(q)
    BY ConcatAt
<1>3. CASE i \in 1..Len(p) /\ j \in 1..Len(p) /\ p[i] = a /\ p[j] = a
    BY <1>3 DEF Once
<1>4. CASE i - Len(p) \in 1..Len(q) /\ j - Len(p) \in 1..Len(q) /\ q[i - Len(p)] = a /\ q[j - Len(p)] = a
    <2>1. i - Len(p) = j - Len(p)
        BY <1>4 DEF Once
    <2> QED
        BY <2>1, <1>1
<1> QED
    BY <1>2, <1>3, <1>4

LEMMA AtEndConcat ==
    ASSUME NEW S, NEW p \in Seq(S), NEW q \in Seq(S), NEW a,
           a \notin Range(p), AtEnd(q, a)
    PROVE  AtEnd(p \o q, a)
<1>1. Len(p \o q) = Len(p) + Len(q) /\ Len(p) \in Nat /\ Len(q) \in Nat
    BY RangeConcat
<1> SUFFICES ASSUME NEW i \in 1..Len(p \o q), (p \o q)[i] = a
             PROVE  i = Len(p \o q)
    BY DEF AtEnd
<1>2. \/ i \in 1..Len(p) /\ (p \o q)[i] = p[i] /\ p[i] \in Range(p)
      \/ i - Len(p) \in 1..Len(q) /\ (p \o q)[i] = q[i - Len(p)]
    BY ConcatAt
<1>3. i - Len(p) \in 1..Len(q) /\ q[i - Len(p)] = a
    BY <1>2
<1>4. i - Len(p) = Len(q)
    BY <1>3 DEF AtEnd
<1> QED
    BY <1>1, <1>4

LEMMA FirstConcat ==
    ASSUME NEW S, NEW p \in Seq(S), NEW q \in Seq(S), NEW b, ~First(p, b), ~First(q, b)
    PROVE  ~First(p \o q, b)
<1>1. Len(p) \in Nat /\ Len(q) \in Nat /\ Len(p \o q) = Len(p) + Len(q) /\ p \o q \in Seq(S)
    BY RangeConcat
<1>2. CASE p = <<>>
    BY <1>2, ConcatEmptySeq
<1>3. CASE p # <<>>
    <2>1. 1 \in 1 .. Len(p) + Len(q) /\ 1 <= Len(p)
        BY <1>1, <1>3, EmptySeq
    <2>2. (p \o q)[1] = p[1]
        BY <2>1, ConcatProperties
    <2> QED
        BY <2>2, <1>3 DEF First
<1> QED
    BY <1>2, <1>3

\* What is not there has no order.
LEMMA OrderOfAbsent ==
    ASSUME NEW S, NEW q \in Seq(S)
    PROVE  /\ \A A, B : Range(q) \cap A = {} \/ Range(q) \cap B = {} => Precedes(q, A, B)
           /\ \A a, b : b \notin Range(q) => Follows(q, a, b) /\ ~First(q, b)
           /\ \A a, b : a \notin Range(q) => Leads(q, a, b) /\ Once(q, a) /\ AtEnd(q, a)
<1>1. Len(q) \in Nat
    BY LenProperties
<1>2. \A i \in 1..Len(q) : q[i] \in Range(q)
    BY RangeIs
<1>3. q # <<>> => 1 \in 1..Len(q)
    BY <1>1, EmptySeq
<1>4. \A i \in 2..Len(q) : i \in 1..Len(q)
    BY <1>1
<1> QED
    BY <1>2, <1>3, <1>4 DEF Precedes, Follows, Leads, Once, AtEnd, First

-----------------------------------------------------------------------------
(* The functions as sequences                                              *)

LEMMA SetToSeqIs ==
    ASSUME NEW T, IsFiniteSet(T)
    PROVE  SetToSeq(T) \in Seq(T) /\ Range(SetToSeq(T)) \subseteq T
<1>1. Cardinality(T) \in Nat /\ ExistsBijection(1..Cardinality(T), T)
    BY FS_CardinalityType
<1>2. PICK f \in [1..Cardinality(T) -> T] : IsInjective(f)
    BY <1>1 DEF ExistsBijection, Bijection, Injection, IsInjective
<1>3. SetToSeq(T) \in [1..Cardinality(T) -> T]
    BY <1>2, Zenon DEF SetToSeq
<1>4. SetToSeq(T) \in Seq(T)
    BY <1>1, <1>3
<1>5. \A i \in DOMAIN SetToSeq(T) : SetToSeq(T)[i] \in T
    BY <1>3
<1> QED
    BY <1>4, <1>5 DEF Range

LEMMA InitOrderConcat ==
    ASSUME NEW p \in Seq(InitSteps), NEW q \in Seq(InitSteps), InitOrder(p), InitOrder(q),
           \A s \in TableSlots : /\ ~First(q, <<"patch_table", s>>)
                                 /\ <<"record", s>> \notin Range(p) \cap Range(q),
           Range(q) \cap {<<"find_slot">>, <<"patch_table", "ni">>} = {}, <<"live">> \notin Range(p)
    PROVE  p \o q \in Seq(InitSteps) /\ InitOrder(p \o q)
<1>1. p \o q \in Seq(InitSteps) /\ Range(p \o q) = Range(p) \cup Range(q)
    BY RangeConcat
<1>2. Leads(p \o q, <<"save_status">>, <<"patch_status">>)
    BY LeadsConcat DEF InitOrder
<1>3. ASSUME NEW s \in TableSlots
      PROVE  Follows(p \o q, <<"record", s>>, <<"patch_table", s>>) /\ Once(p \o q, <<"record", s>>)
    BY FollowsConcat, OnceConcat DEF InitOrder
<1>4. Precedes(p \o q, {<<"find_slot">>}, {<<"patch_table", "ni">>})
    BY PrecedesConcat DEF InitOrder
<1>5. Precedes(p \o q, {<<"find_slot">>, <<"patch_table", "ni">>}, {<<"trace">>})
    BY PrecedesConcat DEF InitOrder
<1>6. AtEnd(p \o q, <<"live">>)
    BY AtEndConcat DEF InitOrder
<1> QED
    BY <1>1, <1>2, <1>3, <1>4, <1>5, <1>6 DEF InitOrder

\* A part of kernelsu_init() that touches neither the table nor the page of
\* selinux_hide keeps the order.
Plain(q) ==
    /\ q \in Seq(InitSteps)
    /\ Range(q) \cap ({"record", "patch_table"} \X TableSlots) = {}
    /\ <<"find_slot">> \notin Range(q)

LEMMA PlainOrder ==
    ASSUME NEW q, Plain(q), <<"save_status">> \notin Range(q), <<"probe", "input">> \notin Range(q),
           AtEnd(q, <<"live">>)
    PROVE  InitOrder(q)
<1>1. Range(q) \subseteq InitSteps
    BY DEF Range, Plain
<1>2. \A s \in TableSlots : <<"record", s>> \notin Range(q) /\ <<"patch_table", s>> \notin Range(q)
    BY DEF Plain
<1>3. "ni" \in TableSlots
    BY DEF TableSlots
<1>4. /\ Leads(q, <<"save_status">>, <<"patch_status">>)
      /\ \A s \in TableSlots : Follows(q, <<"record", s>>, <<"patch_table", s>>) /\ Once(q, <<"record", s>>)
      /\ Precedes(q, {<<"find_slot">>}, {<<"patch_table", "ni">>})
      /\ Precedes(q, {<<"find_slot">>, <<"patch_table", "ni">>}, {<<"trace">>})
    BY <1>2, <1>3, OrderOfAbsent DEF Plain
<1> QED
    BY <1>1, <1>4 DEF InitOrder, Plain

LEMMA PlainConcat ==
    ASSUME NEW p, NEW q, Plain(p), Plain(q)
    PROVE  Plain(p \o q) /\ Range(p \o q) = Range(p) \cup Range(q)
<1>1. p \o q \in Seq(InitSteps) /\ Range(p \o q) = Range(p) \cup Range(q)
    BY RangeConcat DEF Plain
<1> QED
    BY <1>1 DEF Plain

LEMMA StepsFinite ==
    ASSUME NEW name
    PROVE  IsFiniteSet({<<name, nr>> : nr \in Nrs})
<1> DEFINE T == {<<name, nr>> : nr \in Nrs}
           f == [nr \in Nrs |-> <<name, nr>>]
<1>1. f \in Surjection(Nrs, T)
    BY DEF Surjection
<1> HIDE DEF f, T
<1>2. IsFiniteSet(T)
    BY <1>1, HooksAssumption, FS_Surjection
<1> QED
    BY <1>2 DEF T

\* ksu_syscall_hook_manager_init().
LEMMA ManagerInitOrder ==
    /\ Plain(ksu_syscall_hook_manager_init)
    /\ {<<"save_status">>, <<"probe", "input">>, <<"live">>} \cap Range(ksu_syscall_hook_manager_init) = {}
<1> DEFINE a == <<<<"probe", "regfunc">>, <<"probe", "unregfunc">>>>
           T == {<<"register", nr>> : nr \in Nrs}
           c == <<<<"trace">>, <<"feature", "kernel_umount">>, <<"feature", "su_compat">>>>
<1>1. a \in Seq(InitSteps) /\ Range(a) = {<<"probe", "regfunc">>, <<"probe", "unregfunc">>}
    BY DEF InitSteps, Probes, Range
<1>2. c \in Seq(InitSteps) /\ Range(c) = {<<"trace">>, <<"feature", "kernel_umount">>, <<"feature", "su_compat">>}
    BY DEF InitSteps, Features, Range
<1>3. IsFiniteSet(T)
    BY StepsFinite
<1>4. SetToSeq(T) \in Seq(T) /\ Range(SetToSeq(T)) \subseteq T
    BY <1>3, SetToSeqIs
<1>5. T \subseteq InitSteps
    BY DEF InitSteps
<1>6. SetToSeq(T) \in Seq(InitSteps)
    BY <1>4, <1>5
<1>7. Plain(a) /\ Plain(c)
    BY <1>1, <1>2 DEF Plain, TableSlots
<1>8. Plain(SetToSeq(T)) /\ {<<"save_status">>, <<"probe", "input">>, <<"live">>} \cap Range(SetToSeq(T)) = {}
    BY <1>4, <1>6 DEF Plain, TableSlots
<1> HIDE DEF a, T, c
<1>9. Plain(a \o SetToSeq(T)) /\ Range(a \o SetToSeq(T)) = Range(a) \cup Range(SetToSeq(T))
    BY <1>7, <1>8, PlainConcat
<1>10. Plain((a \o SetToSeq(T)) \o c) /\ Range((a \o SetToSeq(T)) \o c) = Range(a \o SetToSeq(T)) \cup Range(c)
    BY <1>7, <1>9, PlainConcat
<1>11. ksu_syscall_hook_manager_init = (a \o SetToSeq(T)) \o c
    BY DEF ksu_syscall_hook_manager_init, a, T, c
<1> QED
    BY <1>1, <1>2, <1>8, <1>9, <1>10, <1>11

LEMMA SlotHookOrder ==
    /\ ksu_syscall_hook_init \in Seq(InitSteps) /\ InitOrder(ksu_syscall_hook_init)
    /\ Range(ksu_syscall_hook_init) = {<<"find_slot">>, <<"record", "ni">>, <<"patch_table", "ni">>}
<1> DEFINE q == ksu_syscall_hook_init
<1>1. Len(q) = 3 /\ q[1] = <<"find_slot">> /\ q[2] = <<"record", "ni">> /\ q[3] = <<"patch_table", "ni">>
    BY DEF ksu_syscall_hook_init
<1>2. q \in Seq(InitSteps)
    BY DEF ksu_syscall_hook_init, InitSteps, TableSlots
<1>3. Range(q) = {<<"find_slot">>, <<"record", "ni">>, <<"patch_table", "ni">>}
    BY DEF ksu_syscall_hook_init, Range
<1> HIDE DEF q
<1>4. \A i \in 1..Len(q) : i = 1 \/ i = 2 \/ i = 3
    BY <1>1
<1>5. Leads(q, <<"save_status">>, <<"patch_status">>) /\ AtEnd(q, <<"live">>)
    BY <1>2, <1>3, OrderOfAbsent
<1>6. ASSUME NEW s \in TableSlots
      PROVE  Follows(q, <<"record", s>>, <<"patch_table", s>>) /\ Once(q, <<"record", s>>)
    <2>1. Once(q, <<"record", s>>)
        BY <1>1, <1>4 DEF Once
    <2>2. \A i \in 2..Len(q) : i = 2 \/ (i = 3 /\ i - 1 = 2)
        BY <1>1
    <2>3. Follows(q, <<"record", s>>, <<"patch_table", s>>)
        BY <1>1, <2>2 DEF Follows
    <2> QED
        BY <2>1, <2>3
<1>7. Precedes(q, {<<"find_slot">>}, {<<"patch_table", "ni">>})
    BY <1>1, <1>4 DEF Precedes
<1>8. Precedes(q, {<<"find_slot">>, <<"patch_table", "ni">>}, {<<"trace">>})
    BY <1>2, <1>3, OrderOfAbsent
<1>9. <<"probe", "input">> \notin Range(q) /\ Range(q) \subseteq InitSteps
    BY <1>3 DEF InitSteps, TableSlots
<1> QED
    BY <1>2, <1>3, <1>5, <1>6, <1>7, <1>8, <1>9 DEF InitOrder, q

LEMMA SlotHookFirst == \A s : ~First(ksu_syscall_hook_init, <<"patch_table", s>>)
BY DEF First, ksu_syscall_hook_init

\* ksu_ksud_init(); not for a module that is loaded late.
LEMMA KsudInitOrder ==
    /\ ksu_ksud_init \in Seq(InitSteps) /\ (~late => InitOrder(ksu_ksud_init))
    /\ Range(ksu_ksud_init) = {<<"record", "read">>, <<"patch_table", "read">>, <<"record", "fstat">>,
                               <<"patch_table", "fstat">>, <<"probe", "input">>}
    /\ ksu_ksud_init[1] = <<"record", "read">>
<1> DEFINE q == ksu_ksud_init
<1>1. /\ Len(q) = 5 /\ q[1] = <<"record", "read">> /\ q[2] = <<"patch_table", "read">>
      /\ q[3] = <<"record", "fstat">> /\ q[4] = <<"patch_table", "fstat">> /\ q[5] = <<"probe", "input">>
    BY DEF ksu_ksud_init
<1>2. q \in Seq(InitSteps)
    BY DEF ksu_ksud_init, InitSteps, TableSlots, Probes
<1>3. Range(q) = {<<"record", "read">>, <<"patch_table", "read">>, <<"record", "fstat">>,
                  <<"patch_table", "fstat">>, <<"probe", "input">>}
    BY DEF ksu_ksud_init, Range
<1> HIDE DEF q
<1>4. \A i \in 1..Len(q) : i = 1 \/ i = 2 \/ i = 3 \/ i = 4 \/ i = 5
    BY <1>1
<1>5. Leads(q, <<"save_status">>, <<"patch_status">>) /\ AtEnd(q, <<"live">>)
    BY <1>2, <1>3, OrderOfAbsent
<1>6. ASSUME NEW s \in TableSlots
      PROVE  Follows(q, <<"record", s>>, <<"patch_table", s>>) /\ Once(q, <<"record", s>>)
    <2>1. Once(q, <<"record", s>>)
        BY <1>1, <1>4 DEF Once
    <2>2. \A i \in 2..Len(q) : (i = 2 /\ i - 1 = 1) \/ i = 3 \/ (i = 4 /\ i - 1 = 3) \/ i = 5
        BY <1>1
    <2>3. Follows(q, <<"record", s>>, <<"patch_table", s>>)
        BY <1>1, <2>2 DEF Follows
    <2> QED
        BY <2>1, <2>3
<1>7. Range(q) \cap {<<"find_slot">>, <<"patch_table", "ni">>} = {}
    BY <1>3
<1>8. /\ Precedes(q, {<<"find_slot">>}, {<<"patch_table", "ni">>})
      /\ Precedes(q, {<<"find_slot">>, <<"patch_table", "ni">>}, {<<"trace">>})
    BY <1>2, <1>7, OrderOfAbsent
<1>9. Range(q) \subseteq InitSteps
    BY <1>2 DEF Range
<1> QED
    BY <1>1, <1>2, <1>3, <1>5, <1>6, <1>8, <1>9 DEF InitOrder, q

LEMMA InitProgram == kernelsu_init \in Seq(InitSteps) /\ InitOrder(kernelsu_init)
                     /\ \A s \in TableSlots : ~First(kernelsu_init, <<"patch_table", s>>)
<1> DEFINE p == ksu_syscall_hook_init
           f == <<<<"feature", "sulog">>, <<"feature", "adb_root">>, <<"feature", "selinux_hide">>,
                  <<"fake_init">>, <<"save_status">>, <<"patch_status">>, <<"probe", "reboot">>>>
           m == ksu_syscall_hook_manager_init
           k == ksu_ksud_init
           rules == <<<<"rules">>>>
           live == <<<<"live">>>>
           b == IF late THEN rules \o m ELSE m \o k
           Early == {<<"find_slot">>, <<"patch_table", "ni">>}
<1>1. /\ f \in Seq(InitSteps)
      /\ Range(f) = {<<"feature", "sulog">>, <<"feature", "adb_root">>, <<"feature", "selinux_hide">>,
                     <<"fake_init">>, <<"save_status">>, <<"patch_status">>, <<"probe", "reboot">>}
    BY DEF InitSteps, Features, Probes, Range
<1>2. Leads(f, <<"save_status">>, <<"patch_status">>)
    <2>1. /\ Len(f) = 7 /\ f[1] = <<"feature", "sulog">> /\ f[2] = <<"feature", "adb_root">>
          /\ f[3] = <<"feature", "selinux_hide">> /\ f[4] = <<"fake_init">> /\ f[5] = <<"save_status">>
          /\ f[6] = <<"patch_status">> /\ f[7] = <<"probe", "reboot">>
        OBVIOUS
    <2> HIDE DEF f
    <2>2. \A i \in 1..Len(f) : i = 1 \/ i = 2 \/ i = 3 \/ i = 4 \/ i = 5 \/ i = 6 \/ i = 7
        BY <2>1
    <2>3. \A i \in 1..Len(f) : f[i] = <<"save_status">> => i = 5
        BY <2>1, <2>2
    <2>4. 5 < Len(f) /\ f[5 + 1] = <<"patch_status">>
        BY <2>1
    <2> QED
        BY <2>3, <2>4 DEF Leads
<1>3. rules \in Seq(InitSteps) /\ Range(rules) = {<<"rules">>} /\ live \in Seq(InitSteps) /\ Range(live) = {<<"live">>}
    BY DEF InitSteps, Range
<1> HIDE DEF f, rules, live
<1>4. Plain(f) /\ Plain(rules) /\ Plain(live)
    BY <1>1, <1>3 DEF Plain, TableSlots
<1>5. InitOrder(f)
    <2>1. Range(f) \subseteq InitSteps /\ <<"probe", "input">> \notin Range(f)
        BY <1>1 DEF Range
    <2>2. \A s \in TableSlots : <<"record", s>> \notin Range(f) /\ <<"patch_table", s>> \notin Range(f)
        BY <1>1
    <2>3. \A s \in TableSlots : Follows(f, <<"record", s>>, <<"patch_table", s>>) /\ Once(f, <<"record", s>>)
        BY <1>1, <2>2, OrderOfAbsent
    <2>4. Early \cap Range(f) = {}
        BY <1>1
    <2>5. /\ Precedes(f, {<<"find_slot">>}, {<<"patch_table", "ni">>})
          /\ Precedes(f, {<<"find_slot">>, <<"patch_table", "ni">>}, {<<"trace">>})
        BY <1>1, <2>4, OrderOfAbsent
    <2>6. AtEnd(f, <<"live">>)
        BY <1>1, OrderOfAbsent
    <2> QED
        BY <1>2, <2>1, <2>3, <2>4, <2>5, <2>6 DEF InitOrder
<1>6. /\ InitOrder(rules) /\ InitOrder(live) /\ InitOrder(m) /\ Plain(m)
      /\ {<<"save_status">>, <<"probe", "input">>, <<"live">>} \cap Range(m) = {}
    <2>1. /\ Plain(m) /\ {<<"save_status">>, <<"probe", "input">>, <<"live">>} \cap Range(m) = {}
        BY ManagerInitOrder
    <2>2. AtEnd(m, <<"live">>) /\ AtEnd(rules, <<"live">>)
        BY <1>3, <2>1, OrderOfAbsent DEF Plain
    <2>3. AtEnd(live, <<"live">>)
        BY DEF AtEnd, live
    <2> QED
        BY <1>3, <1>4, <2>1, <2>2, <2>3, PlainOrder
<1>7. /\ p \in Seq(InitSteps) /\ InitOrder(p)
      /\ Range(p) = {<<"find_slot">>, <<"record", "ni">>, <<"patch_table", "ni">>}
    BY SlotHookOrder
<1>8. /\ k \in Seq(InitSteps) /\ (~late => InitOrder(k)) /\ k[1] = <<"record", "read">>
      /\ Range(k) = {<<"record", "read">>, <<"patch_table", "read">>, <<"record", "fstat">>,
                     <<"patch_table", "fstat">>, <<"probe", "input">>}
    BY KsudInitOrder
<1>9. ASSUME NEW q, Plain(q)
      PROVE  /\ q \in Seq(InitSteps) /\ Range(q) \cap Early = {}
             /\ \A s \in TableSlots : ~First(q, <<"patch_table", s>>) /\ <<"record", s>> \notin Range(q)
    <2>1. \A s \in TableSlots : <<"record", s>> \notin Range(q) /\ <<"patch_table", s>> \notin Range(q)
        BY <1>9 DEF Plain
    <2>2. "ni" \in TableSlots
        BY DEF TableSlots
    <2>3. Range(q) \cap Early = {}
        BY <2>1, <2>2, <1>9 DEF Plain
    <2>4. \A s \in TableSlots : ~First(q, <<"patch_table", s>>)
        BY <2>1, <1>9, OrderOfAbsent DEF Plain
    <2> QED
        BY <2>1, <2>3, <2>4, <1>9 DEF Plain
<1> HIDE DEF p, m, k
<1>10. <<"live">> \notin Range(p) \cup Range(f) \cup Range(rules) \cup Range(m) \cup Range(k)
    BY <1>1, <1>3, <1>6, <1>7, <1>8
<1>11. p \o f \in Seq(InitSteps) /\ InitOrder(p \o f) /\ Range(p \o f) = Range(p) \cup Range(f)
    <2>1. /\ \A s \in TableSlots : /\ ~First(f, <<"patch_table", s>>)
                                    /\ <<"record", s>> \notin Range(p) \cap Range(f)
          /\ Range(f) \cap {<<"find_slot">>, <<"patch_table", "ni">>} = {}
        BY <1>4, <1>9
    <2>2. <<"live">> \notin Range(p)
        BY <1>10
    <2>3. InitOrder(p \o f)
        BY <1>1, <1>5, <1>7, <2>1, <2>2, InitOrderConcat
    <2> QED
        BY <1>1, <1>7, <2>3, RangeConcat
<1>12. /\ b \in Seq(InitSteps) /\ InitOrder(b) /\ Range(b) \cap Early = {}
       /\ <<"record", "ni">> \notin Range(b) /\ <<"live">> \notin Range(b)
       /\ \A s \in TableSlots : ~First(b, <<"patch_table", s>>)
    <2>1. CASE late
        <3>1. Plain(rules \o m) /\ Range(rules \o m) = Range(rules) \cup Range(m)
            BY <1>4, <1>6, PlainConcat
        <3>2. rules \o m \in Seq(InitSteps) /\ InitOrder(rules \o m)
            BY <1>4, <1>6, <1>9, <1>10, InitOrderConcat
        <3>3. "ni" \in TableSlots
            BY DEF TableSlots
        <3> QED
            BY <2>1, <3>1, <3>2, <3>3, <1>9, <1>10
    <2>2. CASE ~late
        <3>1. \A s \in TableSlots : ~First(k, <<"patch_table", s>>)
            BY <1>8 DEF First
        <3>2. Range(k) \cap Early = {} /\ <<"record", "ni">> \notin Range(k)
            BY <1>8
        <3>3. m \o k \in Seq(InitSteps) /\ InitOrder(m \o k)
            BY <2>2, <3>1, <3>2, <1>6, <1>8, <1>9, <1>10, InitOrderConcat
        <3>4. Range(m \o k) = Range(m) \cup Range(k)
            BY <1>6, <1>8, <1>9, RangeConcat
        <3>5. Range(m \o k) \cap Early = {} /\ <<"record", "ni">> \notin Range(m \o k)
            BY <3>2, <3>4, <1>6, <1>9 DEF TableSlots
        <3>6. \A s \in TableSlots : ~First(m \o k, <<"patch_table", s>>)
            BY <3>1, <1>6, <1>8, <1>9, FirstConcat
        <3> QED
            BY <2>2, <3>3, <3>4, <3>5, <3>6, <1>10
    <2> QED
        BY <2>1, <2>2
<1> HIDE DEF b
<1>13. ASSUME NEW s \in TableSlots
       PROVE  <<"record", s>> \notin Range(p \o f) \cap Range(b)
    BY <1>1, <1>7, <1>11, <1>12 DEF TableSlots
<1>14. /\ (p \o f) \o b \in Seq(InitSteps) /\ InitOrder((p \o f) \o b)
       /\ <<"live">> \notin Range((p \o f) \o b)
    <2>1. <<"live">> \notin Range(p \o f)
        BY <1>10, <1>11
    <2>2. (p \o f) \o b \in Seq(InitSteps) /\ InitOrder((p \o f) \o b)
        BY <1>11, <1>12, <1>13, <2>1, InitOrderConcat
    <2>3. Range((p \o f) \o b) = Range(p \o f) \cup Range(b)
        <3> DEFINE c == p \o f
        <3>1. c \in Seq(InitSteps) /\ b \in Seq(InitSteps)
            BY <1>11, <1>12
        <3> HIDE DEF c
        <3>2. Range(c \o b) = Range(c) \cup Range(b)
            BY <3>1, RangeConcat
        <3> QED
            BY <3>2 DEF c
    <2> QED
        BY <1>12, <2>1, <2>2, <2>3
<1>15. ((p \o f) \o b) \o live \in Seq(InitSteps) /\ InitOrder(((p \o f) \o b) \o live)
    BY <1>14, <1>4, <1>6, <1>9, InitOrderConcat
<1>16. kernelsu_init = ((p \o f) \o b) \o live
    BY DEF kernelsu_init, p, f, m, k, rules, live, b
<1>17. \A s \in TableSlots : ~First(p, <<"patch_table", s>>)
    BY <1>7, SlotHookFirst DEF p
<1>18. \A s \in TableSlots : ~First(kernelsu_init, <<"patch_table", s>>)
    BY <1>4, <1>9, <1>11, <1>12, <1>14, <1>16, <1>17, <1>7, FirstConcat
<1> QED
    BY <1>15, <1>16, <1>18

LEMMA ExitOrderConcat ==
    ASSUME NEW p \in Seq(ExitSteps), NEW q \in Seq(ExitSteps), ExitOrder(p), ExitOrder(q),
           <<"gone">> \notin Range(p), ~First(q, <<"lsm_untrack">>),
           <<"clear_hooks">> \notin Range(p) \/ Range(q) \cap ({"restore_table"} \X TableSlots) = {}
    PROVE  /\ p \o q \in Seq(ExitSteps) /\ ExitOrder(p \o q)
           /\ Range(p \o q) = Range(p) \cup Range(q)
<1>1. p \o q \in Seq(ExitSteps) /\ Range(p \o q) = Range(p) \cup Range(q)
    BY RangeConcat
<1>2. Precedes(p \o q, {"restore_table"} \X TableSlots, {<<"clear_hooks">>})
    BY PrecedesConcat DEF ExitOrder
<1>3. AtEnd(p \o q, <<"gone">>)
    BY AtEndConcat DEF ExitOrder
<1>4. Follows(p \o q, <<"lsm_restore">>, <<"lsm_untrack">>)
    BY FollowsConcat DEF ExitOrder
<1> QED
    BY <1>1, <1>2, <1>3, <1>4 DEF ExitOrder

\* A part of kernelsu_exit() whose order does not matter.
Loose(q) ==
    /\ q \in Seq(ExitSteps)
    /\ {<<"clear_hooks">>, <<"gone">>, <<"lsm_untrack">>} \cap Range(q) = {}
    /\ Range(q) \cap ({"restore_table"} \X TableSlots) = {}

LEMMA LooseOrder ==
    ASSUME NEW q, Loose(q)
    PROVE  ExitOrder(q) /\ ~First(q, <<"lsm_untrack">>)
<1>1. Range(q) \subseteq ExitSteps
    BY DEF Range, Loose
<1> QED
    BY <1>1, OrderOfAbsent DEF Loose, ExitOrder

\* ksu_selinux_hide_unhook().
LEMMA UnhookProgram ==
    /\ ksu_selinux_hide_unhook \in Seq(UnhookSteps) /\ ksu_selinux_hide_unhook # <<>>
    /\ Range(ksu_selinux_hide_unhook) = {<<"restore", "context_write">>, <<"restore", "access_write">>,
           <<"restore", "status_open">>, <<"lsm_restore">>, <<"lsm_untrack">>}
    /\ Follows(ksu_selinux_hide_unhook, <<"lsm_restore">>, <<"lsm_untrack">>)
    /\ ~First(ksu_selinux_hide_unhook, <<"lsm_untrack">>)
<1> DEFINE q == ksu_selinux_hide_unhook
<1>1. /\ Len(q) = 5 /\ q[1] = <<"restore", "context_write">> /\ q[2] = <<"restore", "access_write">>
      /\ q[3] = <<"restore", "status_open">> /\ q[4] = <<"lsm_restore">> /\ q[5] = <<"lsm_untrack">>
    BY DEF ksu_selinux_hide_unhook
<1>2. q \in Seq(UnhookSteps) /\ q # <<>>
    BY DEF ksu_selinux_hide_unhook, UnhookSteps, HideSlots
<1>3. Range(q) = {<<"restore", "context_write">>, <<"restore", "access_write">>,
                  <<"restore", "status_open">>, <<"lsm_restore">>, <<"lsm_untrack">>}
    BY DEF ksu_selinux_hide_unhook, Range
<1> HIDE DEF q
<1>4. \A i \in 2..Len(q) : i = 2 \/ i = 3 \/ i = 4 \/ (i = 5 /\ i - 1 = 4)
    BY <1>1
<1>5. Follows(q, <<"lsm_restore">>, <<"lsm_untrack">>)
    BY <1>1, <1>4 DEF Follows
<1> QED
    BY <1>1, <1>2, <1>3, <1>5 DEF First, q

LEMMA OneStep ==
    ASSUME NEW S, NEW x \in S
    PROVE  <<x>> \in Seq(S) /\ Range(<<x>>) = {x} /\ Len(<<x>>) = 1
BY DEF Range

\* The same with its end when the feature is set off.
UnhookRunning == ksu_selinux_hide_unhook \o <<<<"running", FALSE>>>>

LEMMA UnhookRunningProgram ==
    /\ UnhookRunning \in Seq(UnhookSteps) /\ UnhookRunning # <<>>
    /\ Range(UnhookRunning) = {<<"restore", "context_write">>, <<"restore", "access_write">>,
           <<"restore", "status_open">>, <<"lsm_restore">>, <<"lsm_untrack">>, <<"running", FALSE>>}
    /\ Follows(UnhookRunning, <<"lsm_restore">>, <<"lsm_untrack">>)
    /\ ~First(UnhookRunning, <<"lsm_untrack">>)
<1> DEFINE r == <<<<"running", FALSE>>>>
<1>1. r \in Seq(UnhookSteps) /\ Range(r) = {<<"running", FALSE>>} /\ Len(r) = 1
    <2>1. <<"running", FALSE>> \in UnhookSteps
        BY DEF UnhookSteps
    <2> QED
        BY <2>1, OneStep
<1> HIDE DEF r
<1>2. <<"lsm_untrack">> \notin Range(r)
    BY <1>1
<1>3. Follows(r, <<"lsm_restore">>, <<"lsm_untrack">>) /\ ~First(r, <<"lsm_untrack">>)
    BY <1>1, <1>2, OrderOfAbsent
<1>4. UnhookRunning = ksu_selinux_hide_unhook \o r
    BY DEF UnhookRunning, r
<1>5. /\ UnhookRunning \in Seq(UnhookSteps)
      /\ Range(UnhookRunning) = Range(ksu_selinux_hide_unhook) \cup Range(r)
      /\ Len(UnhookRunning) = Len(ksu_selinux_hide_unhook) + 1 /\ Len(ksu_selinux_hide_unhook) \in Nat
    <2> DEFINE u == ksu_selinux_hide_unhook
    <2>1. u \in Seq(UnhookSteps)
        BY UnhookProgram
    <2> HIDE DEF u
    <2>2. /\ u \o r \in Seq(UnhookSteps) /\ Len(u \o r) = Len(u) + Len(r) /\ Len(u) \in Nat
          /\ Range(u \o r) = Range(u) \cup Range(r)
        BY <1>1, <2>1, RangeConcat
    <2> QED
        BY <1>1, <1>4, <2>2 DEF u
<1>6. Len(UnhookRunning) # 0
    BY <1>5
<1>7. UnhookRunning # <<>>
    BY <1>5, <1>6, EmptySeq
<1>8. Follows(UnhookRunning, <<"lsm_restore">>, <<"lsm_untrack">>)
    BY <1>1, <1>3, <1>4, UnhookProgram, FollowsConcat
<1>9. ~First(UnhookRunning, <<"lsm_untrack">>)
    BY <1>1, <1>3, <1>4, UnhookProgram, FirstConcat
<1> QED
    BY <1>1, <1>5, <1>7, <1>8, <1>9, UnhookProgram

LEMMA UnhookIsExit == Seq(UnhookSteps) \subseteq Seq(ExitSteps) /\ UnhookSteps \subseteq ExitSteps
BY DEF ExitSteps

\* ksu_syscall_hook_exit().
LEMMA SlotExitOrder ==
    /\ ksu_syscall_hook_exit \in Seq(ExitSteps) /\ ExitOrder(ksu_syscall_hook_exit)
    /\ Range(ksu_syscall_hook_exit) = {<<"restore_table", "ni">>, <<"restore_table", "read">>,
                                       <<"restore_table", "fstat">>, <<"clear_hooks">>}
<1> DEFINE q == ksu_syscall_hook_exit
<1>1. /\ Len(q) = 4 /\ q[1] = <<"restore_table", "ni">> /\ q[2] = <<"restore_table", "read">>
      /\ q[3] = <<"restore_table", "fstat">> /\ q[4] = <<"clear_hooks">>
    BY DEF ksu_syscall_hook_exit
<1>2. q \in Seq(ExitSteps)
    BY DEF ksu_syscall_hook_exit, ExitSteps, TableSlots
<1>3. Range(q) = {<<"restore_table", "ni">>, <<"restore_table", "read">>,
                  <<"restore_table", "fstat">>, <<"clear_hooks">>}
    BY DEF ksu_syscall_hook_exit, Range
<1> HIDE DEF q
<1>4. \A i \in 1..Len(q) : i = 1 \/ i = 2 \/ i = 3 \/ i = 4
    BY <1>1
<1>5. \A i \in 1..Len(q) : /\ q[i] = <<"clear_hooks">> => i = 4
                           /\ q[i] \in {"restore_table"} \X TableSlots => i < 4
    BY <1>1, <1>4
<1>6. Precedes(q, {"restore_table"} \X TableSlots, {<<"clear_hooks">>})
    BY <1>5 DEF Precedes
<1>7. AtEnd(q, <<"gone">>) /\ Follows(q, <<"lsm_restore">>, <<"lsm_untrack">>)
    BY <1>2, <1>3, OrderOfAbsent
<1>8. Range(q) \subseteq ExitSteps
    BY <1>2 DEF Range
<1> QED
    BY <1>2, <1>3, <1>6, <1>7, <1>8 DEF ExitOrder, q

\* ksu_syscall_hook_manager_exit().
LEMMA ManagerExitOrder ==
    LET q == ksu_syscall_hook_manager_exit
    IN  /\ q \in Seq(ExitSteps) /\ ExitOrder(q) /\ <<"gone">> \notin Range(q)
        /\ ~First(q, <<"lsm_untrack">>)
        /\ {<<"untrace">>, <<"unprobe", "regfunc">>, <<"unprobe", "unregfunc">>, <<"clear_hooks">>,
            <<"restore_table", "ni">>, <<"restore_table", "read">>, <<"restore_table", "fstat">>,
            <<"unfeature", "su_compat">>, <<"unfeature", "kernel_umount">>} \subseteq Range(q)
<1> DEFINE a == <<<<"untrace">>, <<"unprobe", "regfunc">>, <<"unprobe", "unregfunc">>>>
           T == {<<"unregister", nr>> : nr \in Nrs}
           b == SetToSeq(T)
           x == ksu_syscall_hook_exit
           c == <<<<"unfeature", "su_compat">>, <<"unfeature", "kernel_umount">>>>
<1>1. /\ a \in Seq(ExitSteps)
      /\ Range(a) = {<<"untrace">>, <<"unprobe", "regfunc">>, <<"unprobe", "unregfunc">>}
    BY DEF ExitSteps, Probes, Range
<1>2. /\ c \in Seq(ExitSteps)
      /\ Range(c) = {<<"unfeature", "su_compat">>, <<"unfeature", "kernel_umount">>}
    BY DEF ExitSteps, Features, Range
<1>3. b \in Seq(T) /\ Range(b) \subseteq T
    BY StepsFinite, SetToSeqIs
<1>4. T \subseteq ExitSteps
    BY DEF ExitSteps
<1>5. b \in Seq(ExitSteps)
    BY <1>3, <1>4
<1>6. Loose(a) /\ Loose(c)
    BY <1>1, <1>2 DEF Loose, TableSlots
<1>7. Loose(b)
    BY <1>3, <1>5 DEF Loose, TableSlots
<1> HIDE DEF a, b, c, x, T
<1>8. /\ x \in Seq(ExitSteps) /\ ExitOrder(x)
      /\ Range(x) = {<<"restore_table", "ni">>, <<"restore_table", "read">>,
                     <<"restore_table", "fstat">>, <<"clear_hooks">>}
    BY SlotExitOrder DEF x
<1>9. ~First(x, <<"lsm_untrack">>)
    BY <1>8, OrderOfAbsent
<1>10. /\ ExitOrder(a) /\ ExitOrder(b) /\ ExitOrder(c)
       /\ ~First(a, <<"lsm_untrack">>) /\ ~First(b, <<"lsm_untrack">>) /\ ~First(c, <<"lsm_untrack">>)
    BY <1>6, <1>7, LooseOrder
<1>11. /\ a \o b \in Seq(ExitSteps) /\ ExitOrder(a \o b) /\ Range(a \o b) = Range(a) \cup Range(b)
       /\ ~First(a \o b, <<"lsm_untrack">>)
    BY <1>6, <1>7, <1>10, ExitOrderConcat, FirstConcat DEF Loose
<1>12. <<"gone">> \notin Range(a \o b) /\ <<"clear_hooks">> \notin Range(a \o b)
    BY <1>6, <1>7, <1>11 DEF Loose
<1>13. /\ (a \o b) \o x \in Seq(ExitSteps) /\ ExitOrder((a \o b) \o x)
       /\ Range((a \o b) \o x) = Range(a \o b) \cup Range(x)
    BY <1>8, <1>9, <1>11, <1>12, ExitOrderConcat
<1>14. ~First((a \o b) \o x, <<"lsm_untrack">>)
    BY <1>8, <1>9, <1>11, FirstConcat
<1>15. <<"gone">> \notin Range((a \o b) \o x)
    BY <1>8, <1>12, <1>13
<1>16. /\ ((a \o b) \o x) \o c \in Seq(ExitSteps) /\ ExitOrder(((a \o b) \o x) \o c)
       /\ Range(((a \o b) \o x) \o c) = Range((a \o b) \o x) \cup Range(c)
    BY <1>6, <1>10, <1>13, <1>15, ExitOrderConcat DEF Loose
<1>17. ~First(((a \o b) \o x) \o c, <<"lsm_untrack">>)
    BY <1>6, <1>10, <1>13, <1>14, FirstConcat DEF Loose
<1>18. <<"gone">> \notin Range(((a \o b) \o x) \o c)
    BY <1>15, <1>16, <1>6 DEF Loose
<1>19. ksu_syscall_hook_manager_exit = ((a \o b) \o x) \o c
    BY DEF ksu_syscall_hook_manager_exit, a, b, c, x, T
<1>20. {<<"untrace">>, <<"unprobe", "regfunc">>, <<"unprobe", "unregfunc">>, <<"clear_hooks">>,
        <<"restore_table", "ni">>, <<"restore_table", "read">>, <<"restore_table", "fstat">>,
        <<"unfeature", "su_compat">>, <<"unfeature", "kernel_umount">>}
          \subseteq Range(((a \o b) \o x) \o c)
    BY <1>1, <1>2, <1>8, <1>11, <1>13, <1>16
<1> QED
    BY <1>16, <1>17, <1>18, <1>19, <1>20

\* The end of kernelsu_exit(), after selinux_hide has been unhooked.
LEMMA ExitTailOrder ==
    LET z == <<<<"unfeature", "selinux_hide">>, <<"fake_free">>, <<"lsm_restore">>, <<"lsm_untrack">>,
               <<"unfeature", "adb_root">>, <<"unfeature", "sulog">>, <<"gone">>>>
    IN  /\ z \in Seq(ExitSteps) /\ ExitOrder(z) /\ ~First(z, <<"lsm_untrack">>)
        /\ Range(z) = {<<"unfeature", "selinux_hide">>, <<"fake_free">>, <<"lsm_restore">>, <<"lsm_untrack">>,
                       <<"unfeature", "adb_root">>, <<"unfeature", "sulog">>, <<"gone">>}
<1> DEFINE z == <<<<"unfeature", "selinux_hide">>, <<"fake_free">>, <<"lsm_restore">>, <<"lsm_untrack">>,
                  <<"unfeature", "adb_root">>, <<"unfeature", "sulog">>, <<"gone">>>>
<1>1. /\ Len(z) = 7 /\ z[1] = <<"unfeature", "selinux_hide">> /\ z[2] = <<"fake_free">>
      /\ z[3] = <<"lsm_restore">> /\ z[4] = <<"lsm_untrack">> /\ z[5] = <<"unfeature", "adb_root">>
      /\ z[6] = <<"unfeature", "sulog">> /\ z[7] = <<"gone">>
    OBVIOUS
<1>2. z \in Seq(ExitSteps)
    BY DEF ExitSteps, Features, UnhookSteps
<1>3. Range(z) = {<<"unfeature", "selinux_hide">>, <<"fake_free">>, <<"lsm_restore">>, <<"lsm_untrack">>,
                  <<"unfeature", "adb_root">>, <<"unfeature", "sulog">>, <<"gone">>}
    BY DEF Range
<1> HIDE DEF z
<1>4. \A i \in 1..Len(z) : i = 1 \/ i = 2 \/ i = 3 \/ i = 4 \/ i = 5 \/ i = 6 \/ i = 7
    BY <1>1
<1>5. AtEnd(z, <<"gone">>)
    BY <1>1, <1>4 DEF AtEnd
<1>6. \A i \in 2..Len(z) : z[i] = <<"lsm_untrack">> => i = 4 /\ i - 1 = 3
    <2>1. \A i \in 2..Len(z) : i \in 1..Len(z)
        BY <1>1
    <2>2. \A i \in 2..Len(z) : z[i] = <<"lsm_untrack">> => i = 4
        BY <1>1, <1>4, <2>1
    <2> QED
        BY <2>2
<1>7. Follows(z, <<"lsm_restore">>, <<"lsm_untrack">>)
    BY <1>1, <1>6 DEF Follows
<1>8. Precedes(z, {"restore_table"} \X TableSlots, {<<"clear_hooks">>})
    BY <1>2, <1>3, OrderOfAbsent
<1>9. Range(z) \subseteq ExitSteps /\ ~First(z, <<"lsm_untrack">>)
    <2>1. Range(z) \subseteq ExitSteps
        BY <1>2 DEF Range
    <2>2. ~First(z, <<"lsm_untrack">>)
        BY <1>1 DEF First
    <2> QED
        BY <2>1, <2>2
<1> QED
    BY <1>2, <1>3, <1>5, <1>7, <1>8, <1>9 DEF ExitOrder, z

LEMMA NothingLoose == <<>> \in Seq(ExitSteps) /\ Range(<<>>) = {} /\ Loose(<<>>)
BY DEF Loose, Range

LEMMA ExitProgram ==
    /\ kernelsu_exit \in Seq(ExitSteps) /\ ExitOrder(kernelsu_exit)
    /\ ~First(kernelsu_exit, <<"lsm_untrack">>)
    /\ {<<"untrace">>, <<"clear_hooks">>} \subseteq Range(kernelsu_exit)
    /\ \A s \in TableSlots : <<"restore_table", s>> \in Range(kernelsu_exit)
    /\ \A f \in Features : <<"unfeature", f>> \in Range(kernelsu_exit)
    /\ \A p \in Probes : p # "input" \/ ~late => <<"unprobe", p>> \in Range(kernelsu_exit)
    /\ running => Range(UnhookRunning) \subseteq Range(kernelsu_exit)
<1> DEFINE m == ksu_syscall_hook_manager_exit
           r == <<<<"unprobe", "reboot">>>>
           input == <<<<"unprobe", "input">>>>
           i == IF late THEN <<>> ELSE input
           h == IF running THEN UnhookRunning ELSE <<>>
           z == <<<<"unfeature", "selinux_hide">>, <<"fake_free">>, <<"lsm_restore">>, <<"lsm_untrack">>,
                  <<"unfeature", "adb_root">>, <<"unfeature", "sulog">>, <<"gone">>>>
<1>1. /\ m \in Seq(ExitSteps) /\ ExitOrder(m) /\ <<"gone">> \notin Range(m)
      /\ ~First(m, <<"lsm_untrack">>)
      /\ {<<"untrace">>, <<"unprobe", "regfunc">>, <<"unprobe", "unregfunc">>, <<"clear_hooks">>,
          <<"restore_table", "ni">>, <<"restore_table", "read">>, <<"restore_table", "fstat">>,
          <<"unfeature", "su_compat">>, <<"unfeature", "kernel_umount">>} \subseteq Range(m)
    BY ManagerExitOrder
<1>2. /\ z \in Seq(ExitSteps) /\ ExitOrder(z) /\ ~First(z, <<"lsm_untrack">>)
      /\ Range(z) = {<<"unfeature", "selinux_hide">>, <<"fake_free">>, <<"lsm_restore">>, <<"lsm_untrack">>,
                     <<"unfeature", "adb_root">>, <<"unfeature", "sulog">>, <<"gone">>}
    BY ExitTailOrder
<1>3. /\ r \in Seq(ExitSteps) /\ Range(r) = {<<"unprobe", "reboot">>}
      /\ input \in Seq(ExitSteps) /\ Range(input) = {<<"unprobe", "input">>}
    BY DEF ExitSteps, Probes, Range
<1> HIDE DEF m, r, input, z
<1>4. Loose(r) /\ Loose(input)
    BY <1>3 DEF Loose, TableSlots
<1>5. /\ Loose(i) /\ <<"gone">> \notin Range(i) /\ (~late => <<"unprobe", "input">> \in Range(i))
      /\ i \in Seq(ExitSteps)
    BY <1>3, <1>4, NothingLoose DEF Loose
<1> HIDE DEF i
<1>6. /\ ExitOrder(r) /\ ~First(r, <<"lsm_untrack">>) /\ ExitOrder(i) /\ ~First(i, <<"lsm_untrack">>)
    BY <1>4, <1>5, LooseOrder
<1>7. UnhookRunning \in Seq(ExitSteps) /\ ExitOrder(UnhookRunning)
      /\ <<"gone">> \notin Range(UnhookRunning) /\ Range(UnhookRunning) \cap ({"restore_table"} \X TableSlots) = {}
    <2> DEFINE u == UnhookRunning
    <2>1. /\ u \in Seq(ExitSteps) /\ Follows(u, <<"lsm_restore">>, <<"lsm_untrack">>)
          /\ Range(u) = {<<"restore", "context_write">>, <<"restore", "access_write">>,
                 <<"restore", "status_open">>, <<"lsm_restore">>, <<"lsm_untrack">>, <<"running", FALSE>>}
        BY UnhookRunningProgram, UnhookIsExit
    <2> HIDE DEF u
    <2>2. <<"gone">> \notin Range(u) /\ Range(u) \cap ({"restore_table"} \X TableSlots) = {}
        <3>1. ASSUME NEW x \in Range(u)
              PROVE  x[1] \notin {"gone", "restore_table"}
            <4>1. x = <<"running", FALSE>> \/
                  x \in {<<"restore", "context_write">>, <<"restore", "access_write">>,
                         <<"restore", "status_open">>, <<"lsm_restore">>, <<"lsm_untrack">>}
                BY <2>1
            <4>2. CASE x = <<"running", FALSE>>
                BY <4>2
            <4>3. CASE x \in {<<"restore", "context_write">>, <<"restore", "access_write">>,
                              <<"restore", "status_open">>, <<"lsm_restore">>, <<"lsm_untrack">>}
                BY <4>3
            <4> QED
                BY <4>1, <4>2, <4>3
        <3>2. <<"gone">>[1] = "gone" /\ \A x \in {"restore_table"} \X TableSlots : x[1] = "restore_table"
            OBVIOUS
        <3> QED
            BY <3>1, <3>2
    <2>3. Precedes(u, {"restore_table"} \X TableSlots, {<<"clear_hooks">>}) /\ AtEnd(u, <<"gone">>)
        BY <2>1, <2>2, OrderOfAbsent
    <2>4. Range(u) \subseteq ExitSteps
        BY <2>1 DEF Range
    <2>5. ExitOrder(u)
        BY <2>1, <2>3, <2>4 DEF ExitOrder
    <2> QED
        BY <2>1, <2>2, <2>5 DEF u
<1>8. /\ h \in Seq(ExitSteps) /\ ExitOrder(h) /\ ~First(h, <<"lsm_untrack">>)
      /\ <<"gone">> \notin Range(h) /\ Range(h) \cap ({"restore_table"} \X TableSlots) = {}
      /\ (running => Range(h) = Range(UnhookRunning))
    <2>1. CASE running
        BY <2>1, <1>7, UnhookRunningProgram
    <2>2. CASE ~running
        <3>1. h = <<>>
            BY <2>2
        <3>2. /\ <<>> \in Seq(ExitSteps) /\ ExitOrder(<<>>) /\ ~First(<<>>, <<"lsm_untrack">>)
              /\ <<"gone">> \notin Range(<<>>) /\ Range(<<>>) \cap ({"restore_table"} \X TableSlots) = {}
            BY NothingLoose, LooseOrder
        <3> QED
            BY <2>2, <3>1, <3>2
    <2> QED
        BY <2>1, <2>2
<1> HIDE DEF h
<1>9. /\ m \o r \in Seq(ExitSteps) /\ ExitOrder(m \o r) /\ Range(m \o r) = Range(m) \cup Range(r)
      /\ ~First(m \o r, <<"lsm_untrack">>)
    BY <1>1, <1>3, <1>4, <1>6, ExitOrderConcat, FirstConcat DEF Loose
<1>10. <<"gone">> \notin Range(m \o r)
    BY <1>1, <1>3, <1>9
<1>11. /\ (m \o r) \o i \in Seq(ExitSteps) /\ ExitOrder((m \o r) \o i)
       /\ Range((m \o r) \o i) = Range(m \o r) \cup Range(i) /\ ~First((m \o r) \o i, <<"lsm_untrack">>)
    BY <1>5, <1>6, <1>9, <1>10, ExitOrderConcat, FirstConcat DEF Loose
<1>12. <<"gone">> \notin Range((m \o r) \o i)
    BY <1>5, <1>10, <1>11
<1>13. /\ ((m \o r) \o i) \o h \in Seq(ExitSteps) /\ ExitOrder(((m \o r) \o i) \o h)
       /\ Range(((m \o r) \o i) \o h) = Range((m \o r) \o i) \cup Range(h)
    BY <1>8, <1>11, <1>12, ExitOrderConcat
<1>14. ~First(((m \o r) \o i) \o h, <<"lsm_untrack">>)
    BY <1>8, <1>11, FirstConcat
<1>15. <<"gone">> \notin Range(((m \o r) \o i) \o h)
    BY <1>8, <1>12, <1>13
<1>16. Range(z) \cap ({"restore_table"} \X TableSlots) = {}
    BY <1>2
<1>17. /\ (((m \o r) \o i) \o h) \o z \in Seq(ExitSteps) /\ ExitOrder((((m \o r) \o i) \o h) \o z)
       /\ Range((((m \o r) \o i) \o h) \o z) = Range(((m \o r) \o i) \o h) \cup Range(z)
    BY <1>2, <1>13, <1>15, <1>16, ExitOrderConcat
<1>18. ~First((((m \o r) \o i) \o h) \o z, <<"lsm_untrack">>)
    BY <1>2, <1>13, <1>14, FirstConcat
<1>19. kernelsu_exit = (((m \o r) \o i) \o h) \o z
    BY DEF kernelsu_exit, m, r, i, input, h, z, UnhookRunning
<1>20. Range(kernelsu_exit) = Range(m) \cup Range(r) \cup Range(i) \cup Range(h) \cup Range(z)
    BY <1>9, <1>11, <1>13, <1>17, <1>19
<1>21. /\ \A s \in TableSlots : <<"restore_table", s>> \in Range(m)
       /\ \A f \in Features : <<"unfeature", f>> \in Range(m) \cup Range(z)
    BY <1>1, <1>2 DEF TableSlots, Features
<1>22. \A p \in Probes : p # "input" \/ ~late => <<"unprobe", p>> \in Range(m) \cup Range(r) \cup Range(i)
    BY <1>1, <1>3, <1>5 DEF Probes
<1>23. {<<"untrace">>, <<"clear_hooks">>} \subseteq Range(m)
    BY <1>1
<1> QED
    BY <1>8, <1>17, <1>18, <1>19, <1>20, <1>21, <1>22, <1>23

-----------------------------------------------------------------------------
(* Which steps there are                                                   *)

InitNames == {"find_slot", "fake_init", "rules", "trace", "live", "record", "patch_table", "probe",
              "feature", "register"}
ExitNames == {"untrace", "clear_hooks", "fake_free", "gone", "lsm_restore", "lsm_untrack",
              "restore", "restore_table", "unprobe", "unfeature", "unregister"}
EnableNames == {"check_enable", "lsm_track", "lsm_patch", "lsm_set", "save", "patch"}
StatusNames == {"save_status", "patch_status"}

LEMMA InitKinds ==
    ASSUME NEW x \in InitSteps
    PROVE  /\ x[1] \in InitNames \cup StatusNames
           /\ x[1] \in {"record", "patch_table"} => x[2] \in TableSlots /\ x = <<x[1], x[2]>>
           /\ x[1] = "probe" => x[2] \in Probes /\ x = <<x[1], x[2]>>
           /\ x[1] = "feature" => x[2] \in Features
           /\ x[1] = "register" => x[2] \in Nrs
           /\ x[1] \in {"find_slot", "trace", "live", "save_status"} => x = <<x[1]>>
<1> USE DEF InitNames, StatusNames
<1>1. CASE x \in {<<"find_slot">>, <<"fake_init">>, <<"save_status">>, <<"patch_status">>, <<"rules">>,
                  <<"trace">>, <<"live">>}
    BY <1>1
<1>2. CASE x \in {"record", "patch_table"} \X TableSlots
    BY <1>2
<1>3. CASE x \in {"probe"} \X Probes
    BY <1>3
<1>4. CASE x \in {"feature"} \X Features
    BY <1>4
<1>5. CASE x \in {"register"} \X Nrs
    BY <1>5
<1> QED
    BY <1>1, <1>2, <1>3, <1>4, <1>5 DEF InitSteps

LEMMA ExitKinds ==
    ASSUME NEW x \in ExitSteps
    PROVE  /\ x[1] \in ExitNames \/ x = <<"running", FALSE>>
           /\ x[1] = "running" => x = <<"running", FALSE>>
           /\ x[1] = "restore_table" => x[2] \in TableSlots /\ x = <<x[1], x[2]>>
           /\ x[1] = "restore" => x[2] \in HideSlots \cup {"status_open"} /\ x = <<x[1], x[2]>>
           /\ x[1] = "unprobe" => x[2] \in Probes /\ x = <<x[1], x[2]>>
           /\ x[1] = "unfeature" => x[2] \in Features /\ x = <<x[1], x[2]>>
           /\ x[1] \in {"untrace", "clear_hooks", "gone", "lsm_restore", "lsm_untrack"} => x = <<x[1]>>
<1> DEFINE R == <<"running", FALSE>>
           Right == /\ x[1] \in ExitNames \/ x = R
                    /\ x[1] = "running" => x = R
                    /\ x[1] = "restore_table" => x[2] \in TableSlots /\ x = <<x[1], x[2]>>
                    /\ x[1] = "restore" => x[2] \in HideSlots \cup {"status_open"} /\ x = <<x[1], x[2]>>
                    /\ x[1] = "unprobe" => x[2] \in Probes /\ x = <<x[1], x[2]>>
                    /\ x[1] = "unfeature" => x[2] \in Features /\ x = <<x[1], x[2]>>
                    /\ x[1] \in {"untrace", "clear_hooks", "gone", "lsm_restore", "lsm_untrack"} => x = <<x[1]>>
<1>1. R[1] = "running"
    OBVIOUS
<1>2. \/ x \in {<<"untrace">>, <<"clear_hooks">>, <<"fake_free">>, <<"gone">>} \/ x \in UnhookSteps
      \/ x \in {"restore_table"} \X TableSlots \/ x \in {"unprobe"} \X Probes
      \/ x \in {"unfeature"} \X Features \/ x \in {"unregister"} \X Nrs
    BY DEF ExitSteps
<1>3. x \in UnhookSteps => \/ x = R \/ x \in {<<"lsm_restore">>, <<"lsm_untrack">>}
                           \/ x \in {"restore"} \X (HideSlots \cup {"status_open"})
    BY DEF UnhookSteps
<1> HIDE DEF R
<1> USE DEF ExitNames
<1>4. ASSUME x \in {<<"untrace">>, <<"clear_hooks">>, <<"fake_free">>, <<"gone">>} PROVE Right
    BY <1>4
<1>5. ASSUME x = R PROVE Right
    BY <1>1, <1>5
<1>6. ASSUME x \in {<<"lsm_restore">>, <<"lsm_untrack">>} PROVE Right
    BY <1>6
<1>7. ASSUME x \in {"restore"} \X (HideSlots \cup {"status_open"}) PROVE Right
    BY <1>7
<1>8. ASSUME x \in {"restore_table"} \X TableSlots PROVE Right
    BY <1>8
<1>9. ASSUME x \in {"unprobe"} \X Probes PROVE Right
    BY <1>9
<1>10. ASSUME x \in {"unfeature"} \X Features PROVE Right
    BY <1>10
<1>11. ASSUME x \in {"unregister"} \X Nrs PROVE Right
    BY <1>11
<1>12. Right
    BY <1>2, <1>3, <1>4, <1>5, <1>6, <1>7, <1>8, <1>9, <1>10, <1>11
<1> QED
    BY <1>12 DEF R

LEMMA ExitName == ASSUME NEW x \in ExitSteps PROVE x[1] \in ExitNames \cup {"running"}
<1> DEFINE R == <<"running", FALSE>>
<1>1. R[1] = "running"
    OBVIOUS
<1>2. x[1] \in ExitNames \/ x = R
    BY ExitKinds
<1> HIDE DEF R
<1> QED
    BY <1>1, <1>2

LEMMA EnableKinds ==
    ASSUME NEW x \in EnableSteps
    PROVE  /\ x[1] \in EnableNames \cup StatusNames \/ x = <<"running", TRUE>>
           /\ x[1] = "running" => x = <<"running", TRUE>>
           /\ x[1] \in {"save", "patch"} => x[2] \in HideSlots
<1> DEFINE R == <<"running", TRUE>>
           Right == /\ x[1] \in EnableNames \cup StatusNames \/ x = R
                    /\ x[1] = "running" => x = R
                    /\ x[1] \in {"save", "patch"} => x[2] \in HideSlots
<1>1. R[1] = "running"
    OBVIOUS
<1>2. \/ x \in {<<"check_enable">>, <<"save_status">>, <<"patch_status">>, <<"lsm_track">>,
                <<"lsm_patch">>, <<"lsm_set">>}
      \/ x = R \/ x \in {"save", "patch"} \X HideSlots
    BY DEF EnableSteps
<1> HIDE DEF R
<1> USE DEF EnableNames, StatusNames
<1>3. ASSUME x \in {<<"check_enable">>, <<"save_status">>, <<"patch_status">>, <<"lsm_track">>,
                    <<"lsm_patch">>, <<"lsm_set">>}
      PROVE  Right
    BY <1>3
<1>4. ASSUME x = R PROVE Right
    BY <1>1, <1>4
<1>5. ASSUME x \in {"save", "patch"} \X HideSlots PROVE Right
    BY <1>5
<1>6. Right
    BY <1>2, <1>3, <1>4, <1>5
<1> QED
    BY <1>6 DEF R

\* A step of kernelsu_init() is taken from its sequence.
Popped(q, r) == r = Tail(q) \/ (q[1] = <<"save_status">> /\ r = Tail(Tail(q)))

\* What is known of the steps r that are left after the first one of q.
Taken(q, r) ==
    /\ Range(r) \subseteq Range(q) /\ q[1] \in Range(q)
    /\ \A x \in Range(q) :
          x = q[1] \/ x \in Range(r) \/ x \in {<<"save_status">>, <<"patch_status">>}
    /\ \A s \in TableSlots : /\ First(r, <<"patch_table", s>>) => q[1] = <<"record", s>>
                             /\ q[1] = <<"record", s>> => <<"record", s>> \notin Range(r)
    /\ q[1] = <<"patch_table", "ni">> => <<"find_slot">> \notin Range(q)
    /\ q[1] = <<"trace">> => {<<"find_slot">>, <<"patch_table", "ni">>} \cap Range(q) = {}
    /\ q[1] = <<"live">> => r = <<>>

LEMMA InitPop ==
    ASSUME NEW q \in Seq(Steps), NEW r, q # <<>>, InitOrder(q), Popped(q, r)
    PROVE  r \in Seq(Steps) /\ InitOrder(r) /\ Taken(q, r)
<1> DEFINE A == {<<"find_slot">>, <<"patch_table", "ni">>}
<1>1. ASSUME NEW p \in Seq(Steps), p # <<>>, InitOrder(p)
      PROVE  /\ Tail(p) \in Seq(Steps) /\ InitOrder(Tail(p)) /\ Range(Tail(p)) \subseteq Range(p)
             /\ p[1] \in Range(p) /\ \A x \in Range(p) : x = p[1] \/ x \in Range(Tail(p))
             /\ \A s \in TableSlots : /\ First(Tail(p), <<"patch_table", s>>) => p[1] = <<"record", s>>
                                      /\ p[1] = <<"record", s>> => <<"record", s>> \notin Range(Tail(p))
             /\ p[1] = <<"save_status">> => First(Tail(p), <<"patch_status">>)
             /\ p[1] = <<"patch_table", "ni">> => <<"find_slot">> \notin Range(p)
             /\ p[1] = <<"trace">> => A \cap Range(p) = {}
             /\ p[1] = <<"live">> => Tail(p) = <<>>
    <2>1. /\ Range(Tail(p)) \subseteq Range(p) /\ p[1] \in Range(p) /\ Tail(p) \in Seq(Steps)
          /\ \A x \in Range(p) : x = p[1] \/ x \in Range(Tail(p))
        BY <1>1, TailRange, TailFacts
    <2>2. /\ Leads(Tail(p), <<"save_status">>, <<"patch_status">>)
          /\ p[1] = <<"save_status">> => First(Tail(p), <<"patch_status">>)
        BY <1>1, LeadsTail DEF InitOrder
    <2>3. ASSUME NEW s \in TableSlots
          PROVE  /\ Follows(Tail(p), <<"record", s>>, <<"patch_table", s>>)
                 /\ First(Tail(p), <<"patch_table", s>>) => p[1] = <<"record", s>>
                 /\ Once(Tail(p), <<"record", s>>)
                 /\ p[1] = <<"record", s>> => <<"record", s>> \notin Range(Tail(p))
        BY <1>1, FollowsTail, OnceTail DEF InitOrder
    <2>4. /\ Precedes(Tail(p), {<<"find_slot">>}, {<<"patch_table", "ni">>})
          /\ p[1] \in {<<"patch_table", "ni">>} => Range(p) \cap {<<"find_slot">>} = {}
        BY <1>1, PrecedesTail DEF InitOrder
    <2>5. /\ Precedes(Tail(p), A, {<<"trace">>})
          /\ p[1] \in {<<"trace">>} => Range(p) \cap A = {}
        BY <1>1, PrecedesTail DEF InitOrder
    <2>6. AtEnd(Tail(p), <<"live">>) /\ (p[1] = <<"live">> => Tail(p) = <<>>)
        BY <1>1, AtEndTail DEF InitOrder
    <2>7. InitOrder(Tail(p))
        BY <2>1, <2>2, <2>3, <2>4, <2>5, <2>6, <1>1 DEF InitOrder
    <2> QED
        BY <2>1, <2>2, <2>3, <2>4, <2>5, <2>6, <2>7
<1>2. CASE r = Tail(q)
    BY <1>1, <1>2 DEF Taken
<1>3. CASE q[1] = <<"save_status">> /\ r = Tail(Tail(q))
    <2>1. First(Tail(q), <<"patch_status">>) /\ Tail(q) \in Seq(Steps) /\ InitOrder(Tail(q))
        BY <1>1, <1>3
    <2>2. Tail(q) # <<>> /\ Tail(q)[1] = <<"patch_status">>
        BY <2>1 DEF First
    <2>3. /\ r \in Seq(Steps) /\ InitOrder(r) /\ Range(r) \subseteq Range(Tail(q))
          /\ \A x \in Range(Tail(q)) : x = <<"patch_status">> \/ x \in Range(r)
          /\ \A s \in TableSlots : ~First(r, <<"patch_table", s>>)
        <3> DEFINE p == Tail(q)
        <3>1. r = Tail(p) /\ p \in Seq(Steps) /\ p # <<>> /\ InitOrder(p) /\ p[1] = <<"patch_status">>
            BY <1>3, <2>1, <2>2
        <3> HIDE DEF p
        <3>2. \A s \in TableSlots : p[1] # <<"record", s>>
            BY <3>1
        <3>3. /\ r \in Seq(Steps) /\ InitOrder(r) /\ Range(r) \subseteq Range(p)
              /\ \A x \in Range(p) : x = <<"patch_status">> \/ x \in Range(r)
              /\ \A s \in TableSlots : ~First(r, <<"patch_table", s>>)
            BY <1>1, <3>1, <3>2
        <3> QED
            BY <3>3 DEF p
    <2>4. Range(Tail(q)) \subseteq Range(q) /\ q[1] \in Range(q)
        BY <1>1
    <2>5. ASSUME NEW x \in Range(q)
          PROVE  x = q[1] \/ x \in Range(r) \/ x \in {<<"save_status">>, <<"patch_status">>}
        BY <1>1, <2>3
    <2> QED
        BY <1>3, <2>3, <2>4, <2>5 DEF Taken
<1> QED
    BY <1>2, <1>3 DEF Popped

LEMMA ExitPop ==
    ASSUME NEW q \in Seq(Steps), q # <<>>, ExitOrder(q)
    PROVE  /\ Tail(q) \in Seq(Steps) /\ ExitOrder(Tail(q)) /\ q[1] \in Range(q)
           /\ Range(Tail(q)) \subseteq Range(q) /\ \A x \in Range(q) : x = q[1] \/ x \in Range(Tail(q))
           /\ q[1] = <<"clear_hooks">> => Range(q) \cap ({"restore_table"} \X TableSlots) = {}
           /\ q[1] = <<"gone">> => Tail(q) = <<>>
           /\ First(Tail(q), <<"lsm_untrack">>) => q[1] = <<"lsm_restore">>
<1>1. /\ Range(Tail(q)) \subseteq Range(q) /\ q[1] \in Range(q) /\ Tail(q) \in Seq(Steps)
      /\ \A x \in Range(q) : x = q[1] \/ x \in Range(Tail(q))
    BY TailRange, TailFacts
<1>2. /\ Precedes(Tail(q), {"restore_table"} \X TableSlots, {<<"clear_hooks">>})
      /\ q[1] \in {<<"clear_hooks">>} => Range(q) \cap ({"restore_table"} \X TableSlots) = {}
    BY PrecedesTail DEF ExitOrder
<1>3. AtEnd(Tail(q), <<"gone">>) /\ (q[1] = <<"gone">> => Tail(q) = <<>>)
    BY AtEndTail DEF ExitOrder
<1>4. /\ Follows(Tail(q), <<"lsm_restore">>, <<"lsm_untrack">>)
      /\ First(Tail(q), <<"lsm_untrack">>) => q[1] = <<"lsm_restore">>
    BY FollowsTail DEF ExitOrder
<1> QED
    BY <1>1, <1>2, <1>3, <1>4 DEF ExitOrder

\* ksu_selinux_hide_enable() from its k-th step on.
From(k) == SubSeq(ksu_selinux_hide_enable, k, 11)

LEMMA EnableProgram ==
    LET e == ksu_selinux_hide_enable
    IN  /\ e \in Seq(EnableSteps) /\ Len(e) = 11
        /\ e[1] = <<"check_enable">> /\ e[2] = <<"save_status">> /\ e[3] = <<"patch_status">>
        /\ e[4] = <<"save", "context_write">> /\ e[5] = <<"patch", "context_write">>
        /\ e[6] = <<"save", "access_write">> /\ e[7] = <<"patch", "access_write">>
        /\ e[8] = <<"lsm_track">> /\ e[9] = <<"lsm_patch">> /\ e[10] = <<"lsm_set">>
        /\ e[11] = <<"running", TRUE>>
<1> DEFINE R == <<"running", TRUE>>
           e == <<<<"check_enable">>, <<"save_status">>, <<"patch_status">>,
                  <<"save", "context_write">>, <<"patch", "context_write">>,
                  <<"save", "access_write">>, <<"patch", "access_write">>,
                  <<"lsm_track">>, <<"lsm_patch">>, <<"lsm_set">>, R>>
<1>1. /\ R \in EnableSteps
      /\ {<<"check_enable">>, <<"save_status">>, <<"patch_status">>, <<"lsm_track">>,
          <<"lsm_patch">>, <<"lsm_set">>} \subseteq EnableSteps
      /\ {<<"save", "context_write">>, <<"patch", "context_write">>, <<"save", "access_write">>,
          <<"patch", "access_write">>} \subseteq EnableSteps
    BY DEF EnableSteps, HideSlots
<1> HIDE DEF R
<1>2. e \in Seq(EnableSteps) /\ Len(e) = 11
    BY <1>1
<1>3. e = ksu_selinux_hide_enable
    BY DEF ksu_selinux_hide_enable, R
<1> QED
    BY <1>2, <1>3 DEF R

LEMMA FromIs ==
    ASSUME NEW k \in 1..11
    PROVE  /\ From(k) \in Seq(EnableSteps) /\ From(k) # <<>> /\ Head(From(k)) = ksu_selinux_hide_enable[k]
           /\ Tail(From(k)) = From(k + 1) /\ From(12) = <<>>
<1> DEFINE e == ksu_selinux_hide_enable
<1>1. e \in Seq(EnableSteps) /\ Len(e) = 11
    BY EnableProgram
<1> HIDE DEF e
<1>2. \A i \in k..11 : e[i] \in EnableSteps
    BY <1>1, ElementOfSeq
<1>3. SubSeq(e, k, 11) \in Seq(EnableSteps) /\ Len(SubSeq(e, k, 11)) = 11 - k + 1
    BY <1>2, SubSeqProperties
<1>4. SubSeq(e, k, 11) # <<>>
    <2>1. Len(SubSeq(e, k, 11)) # 0
        BY <1>3
    <2> QED
        BY <2>1, <1>3, EmptySeq
<1>5. k \in 1..Len(e) /\ 11 \in k..Len(e)
    BY <1>1
<1>6. Head(SubSeq(e, k, 11)) = e[k] /\ Tail(SubSeq(e, k, 11)) = SubSeq(e, k + 1, 11)
    BY <1>1, <1>5, HeadTailOfSubSeq
<1>7. SubSeq(e, 12, 11) = <<>>
    BY <1>1
<1> QED
    BY <1>3, <1>4, <1>6, <1>7 DEF From, e

-----------------------------------------------------------------------------
(* What a step that does not touch it keeps                                *)

LEMMA WorkPopped ==
    ASSUME HooksInv, NEW t \in Threads, NEW r \in Seq(Steps), work' = [work EXCEPT ![t] = r]
    PROVE  /\ work' \in [Threads -> Seq(Steps)] /\ work'[t] = r
           /\ t = "life" => work'["ioctl"] = work["ioctl"]
           /\ t = "ioctl" => work'["life"] = work["life"]
BY DEF HooksInv, WorkTypes, Threads

\* A step of kernelsu_init().
LEMMA InitWork ==
    ASSUME HooksInv, NEW q, NEW r, work["life"] = q, q # <<>>, Popped(q, r), phase = "init",
           phase' = phase, late' = late, work' = [work EXCEPT !["life"] = r]
    PROVE  /\ work' \in [Threads -> Seq(Steps)] /\ work'["life"] = r /\ Taken(q, r) /\ OrderInv'
           /\ q[1] \in InitSteps
<1>1. q \in Seq(Steps) /\ InitOrder(q) /\ work["ioctl"] = <<>>
    BY DEF HooksInv, WorkTypes, OrderInv, Threads
<1>2. r \in Seq(Steps) /\ InitOrder(r) /\ Taken(q, r)
    BY <1>1, InitPop
<1>3. work' \in [Threads -> Seq(Steps)] /\ work'["life"] = r /\ work'["ioctl"] = <<>>
    BY <1>1, <1>2, WorkPopped DEF Threads
<1>4. InitOrder(r)'
    BY <1>2 DEF InitOrder
<1>5. q[1] \in InitSteps
    BY <1>1, <1>2 DEF InitOrder, Taken
<1> QED
    BY <1>2, <1>3, <1>4, <1>5 DEF OrderInv

\* A step of kernelsu_exit().
ExitTaken(q, r) ==
    /\ q[1] \in Range(q) /\ Range(r) \subseteq Range(q) /\ \A x \in Range(q) : x = q[1] \/ x \in Range(r)
    /\ q[1] = <<"clear_hooks">> => Range(q) \cap ({"restore_table"} \X TableSlots) = {}
    /\ q[1] = <<"gone">> => r = <<>>
    /\ First(r, <<"lsm_untrack">>) => q[1] = <<"lsm_restore">>

LEMMA ExitWork ==
    ASSUME HooksInv, NEW q, work["life"] = q, q # <<>>, phase = "exit",
           phase' = phase, work' = [work EXCEPT !["life"] = Tail(q)]
    PROVE  /\ work' \in [Threads -> Seq(Steps)] /\ work'["life"] = Tail(q) /\ ExitTaken(q, Tail(q))
           /\ OrderInv' /\ q[1] \in ExitSteps
<1>1. q \in Seq(Steps) /\ ExitOrder(q) /\ work["ioctl"] = <<>>
    BY DEF HooksInv, WorkTypes, OrderInv, Threads
<1>2. Tail(q) \in Seq(Steps) /\ ExitOrder(Tail(q)) /\ ExitTaken(q, Tail(q))
    BY <1>1, ExitPop DEF ExitTaken
<1>3. work' \in [Threads -> Seq(Steps)] /\ work'["life"] = Tail(q) /\ work'["ioctl"] = <<>>
    BY <1>1, <1>2, WorkPopped DEF Threads
<1>4. q[1] \in ExitSteps
    BY <1>1, <1>2 DEF ExitOrder, ExitTaken
<1> QED
    BY <1>2, <1>3, <1>4 DEF OrderInv

Before == {"init", "live"}

LEMMA TableKept ==
    ASSUME TableInv, hooked_entries' = hooked_entries, nullCall' = nullCall, unmapped' = unmapped,
           missing' = missing, \A s \in TableSlots : slot'[s] = slot[s] /\ orig'[s] = orig[s],
           \A s \in Slots : slot'[s] = "ksu" => s \notin unmapped,
           phase' \in Before => /\ phase \in Before
                                /\ \A s \in TableSlots :
                                      /\ <<"record", s>> \in Range(work'["life"]) =>
                                            <<"record", s>> \in Range(work["life"])
                                      /\ \/ ~First(work'["life"], <<"patch_table", s>>)
                                         \/ work'["life"] = work["life"] /\ dispatcher' = dispatcher
    PROVE  TableInv'
<1>1. EntriesExact'
    BY DEF TableInv, EntriesExact
<1>2. ASSUME phase' \in Before, NEW s \in TableSlots
      PROVE  /\ <<"record", s>> \in Range(work'["life"]) => slot'[s] = "kernel"
             /\ First(work'["life"], <<"patch_table", s>>) =>
                   /\ <<"record", s>> \notin Range(work'["life"])
                   /\ Patches(s)' => s \in Range(hooked_entries') /\ orig'[s] = "kernel"
    BY <1>2 DEF TableInv, Patches, Found, Before
<1> QED
    BY <1>1, <1>2 DEF TableInv, Before

Early == {<<"find_slot">>, <<"patch_table", "ni">>}

LEMMA RouteKept ==
    ASSUME RouteInv, call' = call, enosys' = enosys, missing' = missing, unmapped' = unmapped,
           dispatcher' = dispatcher, tracepoint' = tracepoint \/ tracepoint' = FALSE,
           \A s \in TableSlots : orig[s] # None => orig'[s] # None,
           phase \notin Before => phase' \in {"exit", "gone"},
           phase' \in Before => /\ syscall_hooks \subseteq syscall_hooks' /\ slot'["ni"] = slot["ni"]
                                /\ \A x \in Early : x \in Range(work'["life"]) <=> x \in Range(work["life"])
    PROVE  RouteInv'
<1>1. RedirectedIsServed'
    BY DEF RouteInv, RedirectedIsServed, Before
<1>2. \A t \in Tasks, s \in TableSlots : call'[t] # None /\ call'[t] = <<"inside", s>> => orig'[s] # None
    BY DEF RouteInv
<1>3. ASSUME phase' \in Before
      PROVE  /\ tracepoint' => {<<"find_slot">>, <<"patch_table", "ni">>} \cap Range(work'["life"]) = {}
             /\ dispatcher' /\ <<"patch_table", "ni">> \notin Range(work'["life"]) =>
                   slot'["ni"] = "ksu" \/ "ni" \in unmapped'
             /\ \A t \in Tasks, nr \in Nrs : call'[t] # None /\ call'[t] = <<"redirected", nr>> =>
                   nr \in syscall_hooks' /\ (slot'["ni"] = "ksu" \/ "ni" \in unmapped')
    BY <1>3 DEF RouteInv, Before, Early
<1>4. /\ \A t \in Tasks : \/ call'[t] = None
                         \/ call'[t] \in {"redirected"} \X Nrs
                         \/ call'[t] \in {"inside"} \X (Slots \ {"ni"})
      /\ dispatcher' => Found("sys_call_table")'
    BY DEF RouteInv, Found
<1> QED
    BY <1>1, <1>2, <1>3, <1>4 DEF RouteInv, Before

\* In the initialization selinux_hide is off, and nothing is left to undo.
LEMMA InitHides ==
    ASSUME HideInv, phase = "init", phase' = "init", running' = running, lsm_entry' = lsm_entry,
           \A s \in HideAll : slot'[s] = slot[s]
    PROVE  HideInv'
BY DEF HideInv, Off

LEMMA BeforePends ==
    ASSUME phase' \in Before, probes' \subseteq Probes, late' => "input" \notin probes'
    PROVE  PendingInv'
BY DEF PendingInv, UnloadClean, Before

LEMMA StepIs ==
    ASSUME HooksInv, NEW t \in Threads, NEW name, Step(t, name)
    PROVE  /\ work[t] \in Seq(Steps) /\ work[t] # <<>> /\ work[t][1][1] = name
           /\ Head(work[t]) = work[t][1] /\ Arg(t) = work[t][1][2] /\ work[t][1] \in Range(work[t])
           /\ Popped(work[t], Tail(work[t])) /\ Tail(work[t]) \in Seq(Steps)
<1>1. work[t] \in Seq(Steps) /\ work[t] # <<>>
    BY DEF HooksInv, WorkTypes, Step
<1>2. Head(work[t]) = work[t][1] /\ Tail(work[t]) \in Seq(Steps)
    BY <1>1, TailFacts
<1>3. work[t][1] \in Range(work[t])
    BY <1>1, TailRange
<1> QED
    BY <1>1, <1>2, <1>3 DEF Step, Arg, Popped

-----------------------------------------------------------------------------
(* The steps of the initialization                                         *)

LEMMA NotRecorded ==
    ASSUME NEW q, NEW r, Taken(q, r), q[1][1] # "record"
    PROVE  \A s \in TableSlots : ~First(r, <<"patch_table", s>>)
<1>1. \A s \in TableSlots : q[1] # <<"record", s>>
    OBVIOUS
<1> QED
    BY <1>1 DEF Taken

LEMMA FindSlotInit ==
    ASSUME HooksInv, phase = "init", ksu_find_ni_syscall_slots("life")
    PROVE  HooksInv'
<1> DEFINE q == work["life"]
<1>0. UNCHANGED <<envVars, slot, orig, hooked_entries, syscall_hooks, tracepoint, lsmVars,
                  regVars, hideVars, enforcing, phase, sets, callVars>>
    BY DEF ksu_find_ni_syscall_slots
<1> USE <1>0 DEF envVars, lsmVars, regVars, hideVars, callVars
<1>1. /\ q \in Seq(Steps) /\ q # <<>> /\ q[1][1] = "find_slot" /\ Popped(q, Tail(q))
      /\ work' = [work EXCEPT !["life"] = Tail(q)]
    BY StepIs DEF ksu_find_ni_syscall_slots, Threads, Done
<1>2. /\ work' \in [Threads -> Seq(Steps)] /\ work'["life"] = Tail(q) /\ Taken(q, Tail(q)) /\ OrderInv'
      /\ q[1] \in InitSteps
    BY <1>1, InitWork
<1>3. q[1] = <<"find_slot">>
    BY <1>1, <1>2, InitKinds
<1>4. dispatcher' \in BOOLEAN /\ (dispatcher' => Found("sys_call_table"))
    BY DEF ksu_find_ni_syscall_slots, Found
<1>5. TypeOK'
    BY <1>4 DEF HooksInv, TypeOK
<1>6. WorkTypes'
    BY <1>2 DEF HooksInv, WorkTypes
<1>7. TableInv'
    <2>1. \A s \in TableSlots : ~First(Tail(q), <<"patch_table", s>>)
        BY <1>1, <1>2, NotRecorded
    <2> QED
        BY <1>2, <2>1, TableKept DEF HooksInv, TableInv, Taken, Before
<1>8. RouteInv'
    <2>1. ~tracepoint
        BY <1>2, <1>3 DEF HooksInv, RouteInv, Taken
    <2>2. <<"patch_table", "ni">> \in Range(q)
        BY <1>2, <1>3 DEF HooksInv, OrderInv, InitOrder, Taken
    <2>3. <<"patch_table", "ni">> # q[1] /\ <<"patch_table", "ni">> \notin {<<"save_status">>, <<"patch_status">>}
        BY <1>3
    <2>4. <<"patch_table", "ni">> \in Range(Tail(q))
        BY <1>2, <2>2, <2>3 DEF Taken
    <2>5. dispatcher' => Found("sys_call_table")'
        BY <1>4 DEF Found
    <2> QED
        BY <1>2, <2>1, <2>4, <2>5 DEF HooksInv, RouteInv, RedirectedIsServed
<1>9. PendingInv'
    BY BeforePends DEF HooksInv, PendingInv, Before
<1>10. HideInv'
    BY InitHides DEF HooksInv
<1> QED
    BY <1>2, <1>5, <1>6, <1>7, <1>8, <1>9, <1>10 DEF HooksInv

\* A step that touches neither the table nor what selinux_hide runs on.
LEMMA InitStep ==
    ASSUME HooksInv, phase = "init", NEW q, NEW r, work["life"] = q, q # <<>>, Popped(q, r),
           work' = [work EXCEPT !["life"] = r], q[1][1] \notin {"record", "find_slot", "patch_table"},
           UNCHANGED <<envVars, enforcing, phase, callVars, hooked_entries, dispatcher, lsm_entry, running>>,
           \A s \in Slots \ {"status_open"} : slot'[s] = slot[s] /\ orig'[s] = orig[s],
           \A s \in Slots : slot'[s] = "ksu" => s \notin unmapped,
           TypeOK', syscall_hooks \subseteq syscall_hooks', probes' \subseteq Probes,
           late => "input" \notin probes', tracepoint' = tracepoint \/ q[1] = <<"trace">>
    PROVE  HooksInv'
<1> USE DEF envVars, callVars
<1>1. /\ work' \in [Threads -> Seq(Steps)] /\ work'["life"] = r /\ Taken(q, r) /\ OrderInv'
      /\ q[1] \in InitSteps
    BY InitWork
<1>2. \A s \in TableSlots : s \in Slots /\ s # "status_open"
    BY DEF TableSlots, Slots
<1>3. WorkTypes'
    BY <1>1 DEF HooksInv, WorkTypes
<1>4. TableInv'
    <2>1. \A s \in TableSlots : ~First(r, <<"patch_table", s>>)
        BY <1>1, NotRecorded
    <2> QED
        BY <1>1, <1>2, <2>1, TableKept DEF HooksInv, Taken, Before
<1>5. \A x \in Early : x \in Range(work'["life"]) <=> x \in Range(work["life"])
    <2>1. \A x \in Early : x # q[1] /\ x \notin {<<"save_status">>, <<"patch_status">>}
        BY DEF Early
    <2> QED
        BY <1>1, <2>1 DEF Taken
<1>6. "ni" \in TableSlots
    BY DEF TableSlots
<1>7. RouteInv'
    <2>1. CASE tracepoint' = tracepoint
        BY <1>2, <1>5, <1>6, <2>1, RouteKept DEF HooksInv, Before
    <2>2. CASE q[1] = <<"trace">>
        <3>1. Early \cap Range(work'["life"]) = {}
            BY <1>1, <2>2 DEF Early, Taken
        <3>2. \A s \in TableSlots : orig'[s] = orig[s]
            BY <1>2
        <3>3. slot'["ni"] = slot["ni"]
            BY <1>2, <1>6
        <3>4. RedirectedIsServed' /\ (dispatcher' => Found("sys_call_table")')
            BY DEF HooksInv, RouteInv, RedirectedIsServed, Found
        <3>5. dispatcher' /\ <<"patch_table", "ni">> \notin Range(work'["life"]) =>
                    slot'["ni"] = "ksu" \/ "ni" \in unmapped'
            BY <1>5, <3>3 DEF HooksInv, RouteInv, Early
        <3>6. /\ \A t \in Tasks : \/ call'[t] = None
                                  \/ call'[t] \in {"redirected"} \X Nrs
                                  \/ call'[t] \in {"inside"} \X (Slots \ {"ni"})
              /\ \A t \in Tasks, s \in TableSlots : call'[t] # None /\ call'[t] = <<"inside", s>> => orig'[s] # None
            BY <3>2 DEF HooksInv, RouteInv
        <3>7. \A t \in Tasks, nr \in Nrs : call'[t] # None /\ call'[t] = <<"redirected", nr>> =>
                    nr \in syscall_hooks' /\ (slot'["ni"] = "ksu" \/ "ni" \in unmapped')
            BY <3>3 DEF HooksInv, RouteInv
        <3> QED
            BY <3>1, <3>4, <3>5, <3>6, <3>7 DEF RouteInv, Early
    <2> QED
        BY <2>1, <2>2
<1>8. PendingInv'
    BY BeforePends DEF HooksInv, Before
<1>9. HideInv'
    <2>1. \A s \in HideAll : slot'[s] = slot[s]
        BY DEF HideAll, HideSlots, Slots
    <2> QED
        BY <2>1, InitHides DEF HooksInv
<1> QED
    BY <1>1, <1>3, <1>4, <1>7, <1>8, <1>9 DEF HooksInv

\* ksu_patch_text() of one slot.
LEMMA PatchIs ==
    ASSUME HooksInv, NEW p \in Slots, NEW fn \in {"kernel", "ksu"}, ksu_patch_text(p, fn),
           unmapped' = unmapped
    PROVE  /\ slot' \in [Slots -> {"kernel", "ksu"}]
           /\ \A s \in Slots : s # p => slot'[s] = slot[s]
           /\ p \notin unmapped => slot'[p] = fn
           /\ p \in unmapped => slot'[p] = slot[p]
           /\ \A s \in Slots : slot'[s] = "ksu" => s \notin unmapped'
BY DEF HooksInv, TypeOK, TableInv, ksu_patch_text

LEMMA RouteInit ==
    ASSUME HooksInv, phase = "init", RouteHook("life")
    PROVE  HooksInv'
<1> DEFINE q == work["life"]
<1>0. UNCHANGED <<envVars, slot, orig, hooked_entries, dispatcher, tracepoint, lsmVars, regVars,
                  hideVars, enforcing, phase, sets, callVars>>
    BY DEF RouteHook
<1> USE <1>0 DEF envVars, tableVars, lsmVars, regVars, hideVars, callVars
<1>1. q \in Seq(Steps) /\ q # <<>> /\ Popped(q, Tail(q)) /\ q[1] \in Range(q) /\ q[1][1] \in {"register", "unregister"}
    BY StepIs DEF RouteHook, Threads
<1>2. work' = [work EXCEPT !["life"] = Tail(q)] /\ q[1] \in InitSteps
    BY <1>1 DEF RouteHook, Done, HooksInv, OrderInv, InitOrder
<1>3. q[1][1] = "register" /\ q[1][2] \in Nrs /\ Step("life", "register") /\ Arg("life") = q[1][2]
    BY <1>1, <1>2, InitKinds, StepIs DEF InitNames, StatusNames, RouteHook, Threads
<1>4. syscall_hooks' = syscall_hooks \cup {q[1][2]}
    BY <1>3 DEF RouteHook
<1>5. TypeOK'
    BY <1>3, <1>4 DEF HooksInv, TypeOK
<1> HIDE DEF q
<1> QED
    BY <1>1, <1>2, <1>3, <1>4, <1>5, InitStep DEF HooksInv, TableInv, PendingInv, q

LEMMA TraceInit ==
    ASSUME HooksInv, phase = "init", TraceHook("life")
    PROVE  HooksInv'
<1> DEFINE q == work["life"]
<1>0. UNCHANGED <<envVars, slot, orig, hooked_entries, syscall_hooks, dispatcher, lsmVars,
                  regVars, hideVars, enforcing, phase, sets, callVars>>
    BY DEF TraceHook
<1> USE <1>0 DEF envVars, tableVars, lsmVars, regVars, hideVars, callVars
<1>1. q \in Seq(Steps) /\ q # <<>> /\ Popped(q, Tail(q)) /\ q[1] \in Range(q) /\ q[1][1] \in {"trace", "untrace"}
    BY StepIs DEF TraceHook, Threads
<1>2. work' = [work EXCEPT !["life"] = Tail(q)] /\ q[1] \in InitSteps
    BY <1>1 DEF TraceHook, Done, HooksInv, OrderInv, InitOrder
<1>3. q[1][1] = "trace" /\ q[1] = <<"trace">>
    BY <1>1, <1>2, InitKinds DEF InitNames, StatusNames
<1>4. tracepoint' \in BOOLEAN
    BY DEF TraceHook, Step
<1>5. TypeOK'
    BY <1>4 DEF HooksInv, TypeOK
<1> HIDE DEF q
<1> QED
    BY <1>1, <1>2, <1>3, <1>5, InitStep DEF HooksInv, TableInv, PendingInv, q

LEMMA ProbeInit ==
    ASSUME HooksInv, phase = "init", ProbeHook("life")
    PROVE  HooksInv'
<1> DEFINE q == work["life"]
<1>0. UNCHANGED <<envVars, slot, orig, tableVars, lsmVars, feature_handlers, hideVars,
                  enforcing, phase, sets, callVars>>
    BY DEF ProbeHook
<1> USE <1>0 DEF envVars, tableVars, lsmVars, regVars, hideVars, callVars
<1>1. q \in Seq(Steps) /\ q # <<>> /\ Popped(q, Tail(q)) /\ q[1] \in Range(q) /\ q[1][1] \in {"probe", "unprobe"}
    BY StepIs DEF ProbeHook, Threads
<1>2. work' = [work EXCEPT !["life"] = Tail(q)] /\ q[1] \in InitSteps
    BY <1>1 DEF ProbeHook, Done, HooksInv, OrderInv, InitOrder
<1>3. q[1][1] = "probe" /\ q[1][2] \in Probes /\ Step("life", "probe") /\ Arg("life") = q[1][2] /\ q[1] = <<"probe", q[1][2]>>
    BY <1>1, <1>2, InitKinds, StepIs DEF InitNames, StatusNames, ProbeHook, Threads
<1>4. probes' = probes \cup {q[1][2]}
    BY <1>3 DEF ProbeHook
<1>5. TypeOK'
    BY DEF HooksInv, TypeOK
<1>6. late => q[1][2] # "input"
    BY <1>1, <1>3 DEF HooksInv, OrderInv, InitOrder
<1> HIDE DEF q
<1> QED
    BY <1>1, <1>2, <1>3, <1>4, <1>5, <1>6, InitStep DEF HooksInv, TableInv, PendingInv, q

LEMMA FeatureInit ==
    ASSUME HooksInv, phase = "init", FeatureHandler("life")
    PROVE  HooksInv'
<1> DEFINE q == work["life"]
<1>0. UNCHANGED <<envVars, slot, orig, tableVars, lsmVars, probes, hideVars, enforcing, phase,
                  sets, callVars>>
    BY DEF FeatureHandler
<1> USE <1>0 DEF envVars, tableVars, lsmVars, regVars, hideVars, callVars
<1>1. q \in Seq(Steps) /\ q # <<>> /\ Popped(q, Tail(q)) /\ q[1] \in Range(q) /\ q[1][1] \in {"feature", "unfeature"}
    BY StepIs DEF FeatureHandler, Threads
<1>2. work' = [work EXCEPT !["life"] = Tail(q)] /\ q[1] \in InitSteps
    BY <1>1 DEF FeatureHandler, Done, HooksInv, OrderInv, InitOrder
<1>3. q[1][1] = "feature" /\ q[1][2] \in Features /\ Step("life", "feature") /\ Arg("life") = q[1][2]
    BY <1>1, <1>2, InitKinds, StepIs DEF InitNames, StatusNames, FeatureHandler, Threads
<1>4. feature_handlers' = feature_handlers \cup {q[1][2]}
    BY <1>3 DEF FeatureHandler
<1>5. TypeOK'
    BY <1>3, <1>4 DEF HooksInv, TypeOK
<1> HIDE DEF q
<1> QED
    BY <1>1, <1>2, <1>3, <1>5, InitStep DEF HooksInv, TableInv, PendingInv, q

LEMMA FakeTyped ==
    ASSUME HooksInv, initialize_fake_status, late \in BOOLEAN
    PROVE  fake' \in {None, "permissive", "enforcing"}
<1>1. fake' \in {fake, enforcing, "enforcing"}
    <2>1. CASE fake # None \/ enforcing = None
        BY <2>1 DEF initialize_fake_status
    <2>2. CASE ~(fake # None \/ enforcing = None)
        BY <2>2 DEF initialize_fake_status
    <2> QED
        BY <2>1, <2>2
<1> QED
    BY <1>1 DEF HooksInv, TypeOK, WorkTypes

LEMMA FakeInitInit ==
    ASSUME HooksInv, phase = "init", FakeInit("life")
    PROVE  HooksInv'
<1> DEFINE q == work["life"]
<1>0. UNCHANGED <<envVars, slot, orig, tableVars, lsmVars, regVars, enabled, running, backup,
                  enforcing, phase, sets, callVars>>
    BY DEF FakeInit
<1> USE <1>0 DEF envVars, tableVars, lsmVars, regVars, hideVars, callVars
<1>1. q \in Seq(Steps) /\ q # <<>> /\ Popped(q, Tail(q)) /\ q[1][1] = "fake_init"
    BY StepIs DEF FakeInit, Threads
<1>2. work' = [work EXCEPT !["life"] = Tail(q)]
    BY <1>1 DEF FakeInit, Done
<1>3. late \in BOOLEAN /\ fake_key \in BOOLEAN /\ fake \in {None, "permissive", "enforcing"}
    BY DEF HooksInv, TypeOK
<1>4. fake' \in {None, "permissive", "enforcing"} /\ fake_key' \in BOOLEAN
    BY <1>3, FakeTyped DEF FakeInit
<1>5. TypeOK'
    BY <1>4 DEF HooksInv, TypeOK
<1> HIDE DEF q
<1> QED
    BY <1>1, <1>2, <1>5, InitStep DEF HooksInv, TableInv, PendingInv, q

LEMMA StatusOpenInit ==
    ASSUME HooksInv, phase = "init", hook_selinux_status_open("life")
    PROVE  HooksInv'
<1> DEFINE q == work["life"]
<1>0. UNCHANGED <<envVars, slot, tableVars, lsmVars, regVars, hideVars, enforcing, phase, sets,
                  callVars>>
    BY DEF hook_selinux_status_open
<1> USE <1>0 DEF envVars, tableVars, lsmVars, regVars, hideVars, callVars
<1>1. q \in Seq(Steps) /\ q # <<>> /\ q[1] \in Range(q) /\ q[1][1] = "save_status"
    BY StepIs DEF hook_selinux_status_open, Threads
<1>2. q[1] \in InitSteps
    BY <1>1 DEF HooksInv, OrderInv, InitOrder
<1>3. q[1] = <<"save_status">>
    BY <1>1, <1>2, InitKinds
<1>4. PICK r : Popped(q, r) /\ work' = [work EXCEPT !["life"] = r]
    BY <1>3 DEF hook_selinux_status_open, Done, Popped
<1>5. /\ orig' \in [Slots -> {"kernel", "ksu", None}]
      /\ \A s \in Slots \ {"status_open"} : orig'[s] = orig[s]
    BY DEF HooksInv, TypeOK, hook_selinux_status_open, Slots
<1>6. TypeOK'
    BY <1>5 DEF HooksInv, TypeOK
<1> HIDE DEF q
<1> QED
    BY <1>1, <1>4, <1>5, <1>6, InitStep DEF HooksInv, TableInv, PendingInv, q

LEMMA PatchStatusInit ==
    ASSUME HooksInv, phase = "init", PatchStatus("life")
    PROVE  HooksInv'
<1> DEFINE q == work["life"]
<1>0. UNCHANGED <<envVars, tableVars, lsmVars, regVars, hideVars, enforcing, phase, sets, callVars>>
    BY DEF PatchStatus
<1> USE <1>0 DEF envVars, tableVars, lsmVars, regVars, hideVars, callVars
<1>1. q \in Seq(Steps) /\ q # <<>> /\ Popped(q, Tail(q)) /\ q[1][1] = "patch_status"
    BY StepIs DEF PatchStatus, Threads
<1>2. work' = [work EXCEPT !["life"] = Tail(q)]
    BY <1>1 DEF PatchStatus, Done
<1>3. /\ orig' \in [Slots -> {"kernel", "ksu", None}]
      /\ \A s \in Slots \ {"status_open"} : orig'[s] = orig[s]
    BY DEF HooksInv, TypeOK, PatchStatus, Slots
<1>4. /\ slot' \in [Slots -> {"kernel", "ksu"}]
      /\ \A s \in Slots : s # "status_open" => slot'[s] = slot[s]
      /\ \A s \in Slots : slot'[s] = "ksu" => s \notin unmapped
    <2>1. ksu_patch_text("status_open", "ksu") /\ "status_open" \in Slots /\ unmapped' = unmapped
        BY DEF PatchStatus, Slots
    <2> QED
        BY <2>1, PatchIs
<1>5. TypeOK'
    BY <1>3, <1>4 DEF HooksInv, TypeOK
<1> HIDE DEF q
<1> QED
    BY <1>1, <1>2, <1>3, <1>4, <1>5, InitStep DEF HooksInv, TableInv, PendingInv, q

LEMMA RulesInit ==
    ASSUME HooksInv, phase = "init", Rules("life")
    PROVE  HooksInv'
<1> DEFINE q == work["life"]
<1>0. UNCHANGED <<envVars, slot, orig, tableVars, lsmVars, regVars, enabled, running, fake,
                  fake_key, enforcing, phase, sets, callVars>>
    BY DEF Rules
<1> USE <1>0 DEF envVars, tableVars, lsmVars, regVars, hideVars, callVars
<1>1. q \in Seq(Steps) /\ q # <<>> /\ Popped(q, Tail(q)) /\ q[1][1] = "rules"
    BY StepIs DEF Rules, Threads
<1>2. work' = [work EXCEPT !["life"] = Tail(q)] /\ backup' \in BOOLEAN
    BY <1>1 DEF Rules, Done
<1>3. TypeOK'
    BY <1>2 DEF HooksInv, TypeOK
<1> HIDE DEF q
<1> QED
    BY <1>1, <1>2, <1>3, InitStep DEF HooksInv, TableInv, PendingInv, q

\* hooked_entries[] has room for every entry of the table.
LEMMA Room ==
    ASSUME NEW h \in Seq(TableSlots), IsInjective(h), NEW s \in TableSlots, s \notin Range(h)
    PROVE  Len(h) < MaxEntries
<1>1. MaxEntries \in Nat /\ MaxEntries >= 3 /\ Len(h) \in Nat
    BY HooksAssumption, LenProperties
<1>2. \A i \in 1..Len(h) : h[i] \in TableSlots /\ h[i] \in Range(h)
    BY RangeIs
<1>3. \A i, j \in 1..Len(h) : h[i] = h[j] => i = j
    BY DEF IsInjective
<1>4. ~(Len(h) >= 3)
    <2> SUFFICES ASSUME Len(h) >= 3 PROVE FALSE
        OBVIOUS
    <2>1. 1 \in 1..Len(h) /\ 2 \in 1..Len(h) /\ 3 \in 1..Len(h)
        BY <1>1
    <2>2. h[1] # h[2] /\ h[1] # h[3] /\ h[2] # h[3]
        BY <1>3, <2>1
    <2>3. {h[1], h[2], h[3]} \subseteq TableSlots \ {s}
        BY <1>2, <2>1
    <2> QED
        BY <2>2, <2>3 DEF TableSlots
<1> QED
    BY <1>1, <1>4

LEMMA AppendIs ==
    ASSUME NEW S, NEW h \in Seq(S), NEW x \in S
    PROVE  /\ Append(h, x) \in Seq(S) /\ Range(Append(h, x)) = Range(h) \cup {x}
           /\ IsInjective(h) /\ x \notin Range(h) => IsInjective(Append(h, x))
<1>1. /\ Append(h, x) \in Seq(S) /\ Len(Append(h, x)) = Len(h) + 1 /\ Len(h) \in Nat
      /\ \A i \in 1..Len(h) : Append(h, x)[i] = h[i]
      /\ Append(h, x)[Len(h) + 1] = x
    BY AppendProperties, LenProperties
<1> DEFINE g == Append(h, x)
           n == Len(h)
<1>2. /\ \A y : y \in Range(h) <=> \E i \in 1..n : h[i] = y
      /\ \A y : y \in Range(g) <=> \E i \in 1..Len(g) : g[i] = y
    BY <1>1, RangeIs
<1> HIDE DEF g, n
<1>3. /\ g \in Seq(S) /\ Len(g) = n + 1 /\ n \in Nat /\ (\A i \in 1..n : g[i] = h[i]) /\ g[n + 1] = x
    BY <1>1 DEF g, n
<1>4. \A i : i \in 1..Len(g) <=> i \in 1..n \/ i = n + 1
    BY <1>3
<1>5. Range(g) = Range(h) \cup {x}
    BY <1>2, <1>3, <1>4
<1>6. ASSUME IsInjective(h), x \notin Range(h), NEW i \in 1..Len(g), NEW j \in 1..Len(g), g[i] = g[j]
      PROVE  i = j
    <2>1. (i \in 1..n \/ i = n + 1) /\ (j \in 1..n \/ j = n + 1)
        BY <1>4
    <2>2. \A k \in 1..n : g[k] # x
        BY <1>2, <1>3, <1>6
    <2>3. \A k, l \in 1..n : h[k] = h[l] => k = l
        BY <1>6 DEF IsInjective, n
    <2> QED
        BY <1>3, <1>6, <2>1, <2>2, <2>3
<1>7. DOMAIN g = 1..Len(g)
    BY <1>3
<1>8. IsInjective(h) /\ x \notin Range(h) => IsInjective(g)
    BY <1>6, <1>7 DEF IsInjective
<1> QED
    BY <1>3, <1>5, <1>8 DEF g

\* ksu_syscall_table_hook(): the entry is saved and recorded ...
LEMMA RecordInit ==
    ASSUME HooksInv, phase = "init", TableRecord("life")
    PROVE  HooksInv'
<1> DEFINE q == work["life"]
           r == Tail(q)
           s == Arg("life")
           h == hooked_entries
<1>0. UNCHANGED <<envVars, slot, syscall_hooks, dispatcher, tracepoint, lsmVars, regVars,
                  hideVars, enforcing, phase, sets, callVars>>
    BY DEF TableRecord
<1> USE <1>0 DEF envVars, lsmVars, regVars, hideVars, callVars
<1>1. q \in Seq(Steps) /\ q # <<>> /\ Popped(q, r) /\ q[1] \in Range(q) /\ q[1][1] = "record" /\ s = q[1][2]
    BY StepIs DEF TableRecord, Threads
<1>2. work' = [work EXCEPT !["life"] = r]
    BY <1>1 DEF TableRecord, Done
<1>3. /\ work' \in [Threads -> Seq(Steps)] /\ work'["life"] = r /\ Taken(q, r) /\ OrderInv'
      /\ q[1] \in InitSteps
    BY <1>1, <1>2, InitWork
<1>4. s \in TableSlots /\ q[1] = <<"record", s>>
    BY <1>1, <1>3, InitKinds
<1>5. slot[s] = "kernel"
    BY <1>1, <1>4 DEF HooksInv, TableInv
<1>6. /\ orig' \in [Slots -> {"kernel", "ksu", None}]
      /\ \A p \in Slots : p # s => orig'[p] = orig[p]
      /\ orig'[s] = orig[s] \/ orig'[s] = "kernel"
      /\ Patches(s) => orig'[s] = "kernel"
    BY <1>4, <1>5 DEF HooksInv, TypeOK, TableRecord, Patches, Slots
<1>7. /\ h \in Seq(TableSlots) /\ IsInjective(h)
      /\ s \notin Range(h) => Len(h) < MaxEntries
    BY <1>4, Room DEF HooksInv, WorkTypes, TableInv, EntriesExact
<1>8. /\ hooked_entries' = h \/ (hooked_entries' = Append(h, s) /\ s \notin Range(h))
      /\ Patches(s) => s \in Range(h) \/ hooked_entries' = Append(h, s)
    BY <1>7 DEF TableRecord, Patches
<1>9. /\ Append(h, s) \in Seq(TableSlots) /\ Range(Append(h, s)) = Range(h) \cup {s}
      /\ s \notin Range(h) => IsInjective(Append(h, s))
    BY <1>4, <1>7, AppendIs
<1>10. /\ hooked_entries' \in Seq(TableSlots) /\ Range(h) \subseteq Range(hooked_entries')
       /\ Range(hooked_entries') \subseteq TableSlots
       /\ IsInjective(hooked_entries') /\ (Patches(s) => s \in Range(hooked_entries'))
    BY <1>4, <1>7, <1>8, <1>9 DEF HooksInv, TypeOK
<1> HIDE DEF q, r, s, h
<1>11. TypeOK'
    BY <1>6, <1>10 DEF HooksInv, TypeOK
<1>12. WorkTypes'
    BY <1>3, <1>10 DEF HooksInv, WorkTypes
<1>13. TableInv'
    <2>1. EntriesExact'
        BY <1>4, <1>5, <1>6, <1>10 DEF HooksInv, TableInv, EntriesExact, h, TableSlots, Slots
    <2>2. ASSUME NEW p \in TableSlots
          PROVE  /\ <<"record", p>> \in Range(r) => slot[p] = "kernel"
                 /\ First(r, <<"patch_table", p>>) =>
                       /\ <<"record", p>> \notin Range(r)
                       /\ Patches(p) => p \in Range(hooked_entries') /\ orig'[p] = "kernel"
        <3>1. <<"record", p>> \in Range(r) => slot[p] = "kernel"
            BY <1>3 DEF HooksInv, TableInv, Taken, q
        <3>2. ASSUME First(r, <<"patch_table", p>>)
              PROVE  p = s /\ <<"record", p>> \notin Range(r)
            BY <1>3, <1>4, <3>2 DEF Taken
        <3> QED
            BY <3>1, <3>2, <1>6, <1>10
    <2>3. \A p \in TableSlots : Patches(p)' <=> Patches(p)
        BY DEF Patches, Found
    <2> QED
        BY <1>3, <2>1, <2>2, <2>3 DEF HooksInv, TableInv
<1>14. RouteInv'
    <2>1. \A x \in Early : x # q[1] /\ x \notin {<<"save_status">>, <<"patch_status">>}
        BY <1>1 DEF Early
    <2>2. \A x \in Early : x \in Range(work'["life"]) <=> x \in Range(work["life"])
        BY <1>3, <2>1 DEF Taken, q
    <2>3. \A p \in TableSlots : orig[p] # None => orig'[p] # None
        BY <1>4, <1>6 DEF TableSlots, Slots, None
    <2> QED
        BY <2>2, <2>3, RouteKept DEF HooksInv, Before
<1>15. PendingInv'
    BY BeforePends DEF HooksInv, PendingInv, Before
<1>16. HideInv'
    BY InitHides DEF HooksInv
<1> QED
    BY <1>3, <1>11, <1>12, <1>13, <1>14, <1>15, <1>16 DEF HooksInv

\* ... before it is patched.
LEMMA PatchTableInit ==
    ASSUME HooksInv, phase = "init", patch_syscall_table("life")
    PROVE  HooksInv'
<1> DEFINE q == work["life"]
           r == Tail(q)
           s == Arg("life")
<1>0. UNCHANGED <<envVars, orig, tableVars, lsmVars, regVars, hideVars, enforcing, phase, sets,
                  callVars>>
    BY DEF patch_syscall_table
<1> USE <1>0 DEF envVars, tableVars, lsmVars, regVars, hideVars, callVars
<1>1. q \in Seq(Steps) /\ q # <<>> /\ Popped(q, r) /\ q[1] \in Range(q) /\ q[1][1] = "patch_table" /\ s = q[1][2]
    BY StepIs DEF patch_syscall_table, Threads
<1>2. work' = [work EXCEPT !["life"] = r]
    BY <1>1 DEF patch_syscall_table, Done
<1>3. /\ work' \in [Threads -> Seq(Steps)] /\ work'["life"] = r /\ Taken(q, r) /\ OrderInv'
      /\ q[1] \in InitSteps
    BY <1>1, <1>2, InitWork
<1>4. s \in TableSlots /\ q[1] = <<"patch_table", s>> /\ s \in Slots
    BY <1>1, <1>3, InitKinds DEF Slots
<1>5. First(q, <<"patch_table", s>>)
    BY <1>1, <1>4 DEF First
<1>6. /\ <<"record", s>> \notin Range(q)
      /\ Patches(s) => s \in Range(hooked_entries) /\ orig[s] = "kernel"
    BY <1>4, <1>5 DEF HooksInv, TableInv
<1>7. /\ slot' \in [Slots -> {"kernel", "ksu"}]
      /\ \A p \in Slots : p # s => slot'[p] = slot[p]
      /\ slot'[s] = slot[s] \/ (slot'[s] = "ksu" /\ Patches(s))
      /\ Patches(s) => slot'[s] = "ksu" \/ s \in unmapped
      /\ \A p \in Slots : slot'[p] = "ksu" => p \notin unmapped
    <2>1. CASE Patches(s)
        <3>1. ksu_patch_text(s, "ksu")
            BY <2>1 DEF patch_syscall_table, Patches
        <3> QED
            BY <2>1, <3>1, <1>4, PatchIs
    <2>2. CASE ~Patches(s)
        BY <2>2 DEF patch_syscall_table, Patches, HooksInv, TypeOK, TableInv
    <2> QED
        BY <2>1, <2>2
<1> HIDE DEF q, r, s
<1>8. TypeOK'
    BY <1>7 DEF HooksInv, TypeOK
<1>9. WorkTypes'
    BY <1>3 DEF HooksInv, WorkTypes
<1>10. TableInv'
    <2>1. EntriesExact'
        BY <1>4, <1>6, <1>7 DEF HooksInv, TableInv, EntriesExact, TableSlots, Slots
    <2>2. \A p \in TableSlots : ~First(r, <<"patch_table", p>>)
        BY <1>1, <1>3, NotRecorded
    <2>3. ASSUME NEW p \in TableSlots, <<"record", p>> \in Range(r)
          PROVE  slot'[p] = "kernel"
        <3>1. p # s /\ slot[p] = "kernel"
            BY <1>3, <1>6, <2>3 DEF HooksInv, TableInv, Taken, q
        <3> QED
            BY <3>1, <1>7 DEF Slots
    <2> QED
        BY <1>3, <1>7, <2>1, <2>2, <2>3 DEF HooksInv, TableInv
<1>11. RouteInv'
    <2>1. CASE s # "ni"
        <3>1. \A x \in Early : x # q[1] /\ x \notin {<<"save_status">>, <<"patch_status">>}
            BY <1>4, <2>1 DEF Early
        <3>2. \A x \in Early : x \in Range(work'["life"]) <=> x \in Range(work["life"])
            BY <1>3, <3>1 DEF Taken, q
        <3>3. slot'["ni"] = slot["ni"]
            BY <1>7, <2>1 DEF Slots, TableSlots
        <3> QED
            BY <3>2, <3>3, RouteKept DEF HooksInv, Before
    <2>2. CASE s = "ni"
        <3>1. <<"patch_table", "ni">> \in Range(q)
            BY <1>1, <1>4, <2>2
        <3>2. ~tracepoint
            BY <3>1 DEF HooksInv, RouteInv, q
        <3>3. dispatcher => Patches("ni")
            BY DEF HooksInv, RouteInv, Patches, Found
        <3>4. dispatcher => slot'["ni"] = "ksu" \/ "ni" \in unmapped
            BY <1>7, <2>2, <3>3
        <3>5. slot["ni"] = "ksu" => slot'["ni"] = "ksu"
            BY <1>7, <2>2
        <3>6. RedirectedIsServed' /\ (dispatcher' => Found("sys_call_table")')
            BY DEF HooksInv, RouteInv, RedirectedIsServed, Found
        <3>7. /\ \A t \in Tasks : \/ call'[t] = None
                                  \/ call'[t] \in {"redirected"} \X Nrs
                                  \/ call'[t] \in {"inside"} \X (Slots \ {"ni"})
              /\ \A t \in Tasks, p \in TableSlots : call'[t] # None /\ call'[t] = <<"inside", p>> => orig'[p] # None
              /\ \A t \in Tasks, nr \in Nrs : call'[t] # None /\ call'[t] = <<"redirected", nr>> =>
                    nr \in syscall_hooks' /\ (slot'["ni"] = "ksu" \/ "ni" \in unmapped')
            BY <3>5 DEF HooksInv, RouteInv
        <3> QED
            BY <3>2, <3>4, <3>6, <3>7 DEF RouteInv
    <2> QED
        BY <2>1, <2>2
<1>12. PendingInv'
    BY BeforePends DEF HooksInv, PendingInv, Before
<1>13. HideInv'
    <2>1. \A p \in HideAll : p \in Slots /\ p # s
        BY <1>4 DEF HideAll, HideSlots, TableSlots, Slots
    <2>2. \A p \in HideAll : slot'[p] = slot[p]
        BY <2>1, <1>7
    <2> QED
        BY <2>2, InitHides DEF HooksInv
<1> QED
    BY <1>3, <1>8, <1>9, <1>10, <1>11, <1>12, <1>13 DEF HooksInv

LEMMA InitWorks ==
    ASSUME HooksInv, phase = "init", NEW t \in Threads, Works(t)
    PROVE  HooksInv'
<1>1. \A name : ~Step("ioctl", name)
    BY DEF HooksInv, OrderInv, Step
<1>2. \A name : Step("life", name) => name \in InitNames \cup StatusNames
    <2> SUFFICES ASSUME NEW name, Step("life", name)
                 PROVE  name \in InitNames \cup StatusNames
        OBVIOUS
    <2>1. work["life"][1] \in Range(work["life"]) /\ work["life"][1][1] = name
        BY StepIs DEF Threads
    <2>2. work["life"][1] \in InitSteps
        BY <2>1 DEF HooksInv, OrderInv, InitOrder
    <2> QED
        BY <2>1, <2>2, InitKinds
<1>3. t = "life"
    BY <1>1 DEF Threads, Works, ksu_find_ni_syscall_slots, TableRecord, patch_syscall_table, RestoreTable,
                ClearHooks, RouteHook, TraceHook, ProbeHook, FeatureHandler, FakeInit, FakeFree,
                hook_selinux_status_open, PatchStatus, CheckEnable, SaveSlot, PatchSlot, RestoreSlot,
                LsmTrack, ksu_lsm_hook_patch_slot, LsmSet, LsmRestore, LsmUntrack, SetRunning, Rules
<1>4. ~(\/ RestoreTable(t) \/ ClearHooks(t) \/ FakeFree(t) \/ CheckEnable(t) \/ SaveSlot(t) \/ PatchSlot(t)
        \/ RestoreSlot(t) \/ LsmTrack(t) \/ ksu_lsm_hook_patch_slot(t) \/ LsmSet(t) \/ LsmRestore(t)
        \/ LsmUntrack(t) \/ SetRunning(t))
    BY <1>2, <1>3 DEF InitNames, StatusNames, RestoreTable, ClearHooks, FakeFree, CheckEnable, SaveSlot,
                      PatchSlot, RestoreSlot, LsmTrack, ksu_lsm_hook_patch_slot, LsmSet, LsmRestore,
                      LsmUntrack, SetRunning
<1> QED
    BY <1>3, <1>4, FindSlotInit, RecordInit, PatchTableInit, RouteInit, TraceInit, ProbeInit, FeatureInit,
       FakeInitInit, StatusOpenInit, PatchStatusInit, RulesInit DEF Works

-----------------------------------------------------------------------------
(* Undoing selinux_hide, by the ioctl or by the exit                       *)

\* What a step x of ksu_selinux_hide_unhook() leaves.
HideUndoes(x) ==
    /\ \A s \in HideSlots : slot'[s] = "ksu" => slot[s] = "ksu" /\ orig'[s] = orig[s] /\ x # <<"restore", s>>
    /\ slot'["setprocattr"] = "ksu" => slot["setprocattr"] = "ksu" /\ lsm_entry' /\ x # <<"lsm_restore">>
    /\ lsm_entry' => lsm_entry /\ x # <<"lsm_untrack">>
    /\ running' => running /\ x # <<"running", FALSE>>

LEMMA UnhookingTail ==
    ASSUME NEW q \in Seq(Steps), q # <<>>, Unhooking(q), HideUndoes(q[1]),
           slot' \in [Slots -> {"kernel", "ksu"}],
           First(Tail(q), <<"lsm_untrack">>) => q[1] = <<"lsm_restore">>
    PROVE  Unhooking(Tail(q))'
<1>1. \A x \in Range(q) : x = q[1] \/ x \in Range(Tail(q))
    BY TailRange
<1>2. ASSUME NEW s \in HideSlots, slot'[s] = "ksu"
      PROVE  <<"restore", s>> \in Range(Tail(q)) /\ orig'[s] # None
    BY <1>1, <1>2 DEF HideUndoes, Unhooking
<1>3. ASSUME slot'["setprocattr"] = "ksu"
      PROVE  lsm_entry' /\ <<"lsm_restore">> \in Range(Tail(q))
    BY <1>1, <1>3 DEF HideUndoes, Unhooking
<1>4. ASSUME lsm_entry'
      PROVE  <<"lsm_untrack">> \in Range(Tail(q))
    BY <1>1, <1>4 DEF HideUndoes, Unhooking
<1>5. ASSUME First(Tail(q), <<"lsm_untrack">>)
      PROVE  slot'["setprocattr"] = "kernel"
    BY <1>5 DEF HideUndoes, Slots
<1>6. ASSUME running'
      PROVE  <<"running", FALSE>> \in Range(Tail(q))
    <2> DEFINE R == <<"running", FALSE>>
    <2>1. R # q[1] /\ R \in Range(q)
        BY <1>6 DEF HideUndoes, Unhooking
    <2> HIDE DEF R
    <2>2. R \in Range(Tail(q))
        BY <1>1, <2>1
    <2> QED
        BY <2>2 DEF R
<1> QED
    BY <1>2, <1>3, <1>4, <1>5, <1>6 DEF Unhooking

\* ... and what it does not touch.
HideOnly ==
    /\ UNCHANGED <<envVars, tableVars, regVars, enabled, backup, fake, fake_key, enforcing, phase, callVars>>
    /\ TypeOK'
    /\ \A s \in TableSlots : slot'[s] = slot[s] /\ orig'[s] = orig[s]
    /\ \A s \in Slots : slot'[s] = "ksu" => s \notin unmapped

LEMMA RestoreUndoes ==
    ASSUME HooksInv, NEW t \in Threads, work[t][1] \in ExitSteps, Unhooking(work[t]), RestoreSlot(t)
    PROVE  HideUndoes(work[t][1]) /\ HideOnly
<1> DEFINE x == work[t][1]
           s == Arg(t)
<1>0. UNCHANGED <<envVars, tableVars, lsmVars, regVars, hideVars, enforcing, phase, sets, callVars>>
    BY DEF RestoreSlot
<1> USE <1>0 DEF envVars, tableVars, lsmVars, regVars, hideVars, callVars
<1>1. x[1] = "restore" /\ s = x[2]
    BY StepIs DEF RestoreSlot
<1>2. s \in HideSlots \cup {"status_open"} /\ x = <<"restore", s>>
    BY <1>1, ExitKinds
<1>3. s \in Slots /\ s \notin TableSlots /\ s # "setprocattr"
    BY <1>2 DEF Slots, HideSlots, TableSlots
<1>4. /\ slot' \in [Slots -> {"kernel", "ksu"}] /\ orig' \in [Slots -> {"kernel", "ksu", None}]
      /\ \A p \in Slots : p # s => slot'[p] = slot[p] /\ orig'[p] = orig[p]
      /\ orig[s] # None => slot'[s] = "kernel" \/ (slot'[s] = slot[s] /\ s \in unmapped)
      /\ orig[s] = None => slot'[s] = slot[s]
      /\ \A p \in Slots : slot'[p] = "ksu" => p \notin unmapped
    <2>1. CASE orig[s] # None
        <3>1. ksu_patch_text(s, "kernel") /\ orig' = [orig EXCEPT ![s] = None]
            BY <2>1 DEF RestoreSlot
        <3>2. orig \in [Slots -> {"kernel", "ksu", None}]
            BY DEF HooksInv, TypeOK
        <3>3. orig' \in [Slots -> {"kernel", "ksu", None}] /\ \A p \in Slots : p # s => orig'[p] = orig[p]
            BY <3>1, <3>2
        <3>4. /\ slot' \in [Slots -> {"kernel", "ksu"}]
              /\ \A p \in Slots : p # s => slot'[p] = slot[p]
              /\ s \notin unmapped => slot'[s] = "kernel"
              /\ s \in unmapped => slot'[s] = slot[s]
              /\ \A p \in Slots : slot'[p] = "ksu" => p \notin unmapped'
            BY <3>1, <1>3, PatchIs
        <3> QED
            BY <2>1, <3>3, <3>4
    <2>2. CASE orig[s] = None
        <3>1. slot' = slot /\ orig' = orig
            BY <2>2 DEF RestoreSlot
        <3> QED
            BY <2>2, <3>1 DEF HooksInv, TypeOK, TableInv
    <2> QED
        BY <2>1, <2>2
<1> HIDE DEF x, s
<1>5. slot'[s] # "ksu" \/ s \notin HideSlots
    BY <1>3, <1>4 DEF HooksInv, TableInv, Unhooking
<1>6. \A p \in HideSlots : slot'[p] = "ksu" => slot[p] = "ksu" /\ orig'[p] = orig[p] /\ x # <<"restore", p>>
    BY <1>2, <1>4, <1>5 DEF Slots
<1>7. /\ slot'["setprocattr"] = "ksu" => slot["setprocattr"] = "ksu" /\ lsm_entry' /\ x # <<"lsm_restore">>
      /\ lsm_entry' => lsm_entry /\ x # <<"lsm_untrack">>
    BY <1>2, <1>3, <1>4 DEF Slots, Unhooking
<1>8. running' => running /\ x # <<"running", FALSE>>
    <2> DEFINE R == <<"running", FALSE>>
    <2>1. R[1] = "running" /\ x[1] = "restore"
        BY <1>2
    <2> HIDE DEF R
    <2>2. x # R
        BY <2>1
    <2> QED
        BY <2>2 DEF R
<1>9. TypeOK'
    BY <1>4 DEF HooksInv, TypeOK
<1>10. \A p \in TableSlots : slot'[p] = slot[p] /\ orig'[p] = orig[p]
    BY <1>3, <1>4 DEF Slots
<1> QED
    BY <1>4, <1>6, <1>7, <1>8, <1>9, <1>10 DEF HideUndoes, HideOnly, x

LEMMA LsmUndoes ==
    ASSUME HooksInv, NEW t \in Threads, work[t][1] \in ExitSteps, Unhooking(work[t]), work[t] # <<>>,
           LsmRestore(t) \/ LsmUntrack(t)
    PROVE  HideUndoes(work[t][1]) /\ HideOnly
<1> DEFINE x == work[t][1]
<1>0. UNCHANGED <<envVars, orig, tableVars, regVars, hideVars, enforcing, phase, callVars>>
    BY DEF LsmRestore, LsmUntrack
<1> USE <1>0 DEF envVars, tableVars, lsmVars, regVars, hideVars, callVars
<1>1. CASE LsmRestore(t)
    <2>1. x[1] = "lsm_restore"
        BY <1>1, StepIs DEF LsmRestore
    <2>2. x = <<"lsm_restore">>
        BY <2>1, ExitKinds
    <2>3. lsm_entry' = lsm_entry /\ lsm_tracked' = lsm_tracked
        BY <1>1 DEF LsmRestore
    <2>4. /\ slot' \in [Slots -> {"kernel", "ksu"}]
          /\ \A p \in Slots : p # "setprocattr" => slot'[p] = slot[p]
          /\ slot'["setprocattr"] = "kernel"
          /\ \A p \in Slots : slot'[p] = "ksu" => p \notin unmapped
        <3>1. CASE lsm_entry
            <4>1. ksu_patch_text("setprocattr", "kernel") /\ "setprocattr" \in Slots
                BY <1>1, <3>1 DEF LsmRestore, Slots
            <4> QED
                BY <4>1, PatchIs DEF HooksInv, TypeOK, TableInv
        <3>2. CASE ~lsm_entry
            <4>1. slot' = slot /\ "setprocattr" \in Slots
                BY <1>1, <3>2 DEF LsmRestore, Slots
            <4> QED
                BY <3>2, <4>1 DEF HooksInv, TypeOK, TableInv, Unhooking
        <3> QED
            BY <3>1, <3>2
    <2> HIDE DEF x
    <2>5. TypeOK'
        BY <2>3, <2>4 DEF HooksInv, TypeOK
    <2>6. /\ \A p \in TableSlots : p \in Slots /\ p # "setprocattr"
          /\ \A p \in HideSlots : p \in Slots /\ p # "setprocattr" /\ x # <<"restore", p>>
        BY <2>2 DEF TableSlots, HideSlots, Slots
    <2>7. running' => running /\ x # <<"running", FALSE>>
        <3>1. x[1] # "running" /\ <<"running", FALSE>>[1] = "running"
            BY <2>1 DEF x
        <3> QED
            BY <3>1
    <2>8. x # <<"lsm_untrack">>
        BY <2>2
    <2> QED
        BY <2>3, <2>4, <2>5, <2>6, <2>7, <2>8 DEF HideUndoes, HideOnly, x
<1>2. CASE LsmUntrack(t)
    <2>1. x[1] = "lsm_untrack"
        BY <1>2, StepIs DEF LsmUntrack
    <2>2. x = <<"lsm_untrack">>
        BY <2>1, ExitKinds
    <2>3. slot' = slot /\ lsm_entry' = FALSE /\ lsm_tracked' \in BOOLEAN
        BY <1>2 DEF LsmUntrack
    <2>4. slot["setprocattr"] = "kernel"
        BY <2>2 DEF Unhooking, First
    <2> HIDE DEF x
    <2>5. TypeOK'
        BY <2>3 DEF HooksInv, TypeOK
    <2>6. running' => running /\ x # <<"running", FALSE>>
        <3>1. x[1] # "running" /\ <<"running", FALSE>>[1] = "running"
            BY <2>1 DEF x
        <3> QED
            BY <3>1
    <2>7. \A p \in HideSlots : x # <<"restore", p>>
        BY <2>2
    <2> QED
        BY <2>3, <2>4, <2>5, <2>6, <2>7 DEF HideUndoes, HideOnly, x, HooksInv, TableInv
<1> QED
    BY <1>1, <1>2

LEMMA RunningUndoes ==
    ASSUME HooksInv, NEW t \in Threads, work[t][1] \in ExitSteps, Unhooking(work[t]), SetRunning(t)
    PROVE  HideUndoes(work[t][1]) /\ HideOnly
<1> DEFINE x == work[t][1]
           R == <<"running", FALSE>>
<1>0. UNCHANGED <<envVars, slot, orig, tableVars, lsmVars, regVars, enabled, backup, fake,
                  fake_key, enforcing, phase, sets, callVars>>
    BY DEF SetRunning
<1> USE <1>0 DEF envVars, tableVars, lsmVars, regVars, callVars
<1>1. x[1] = "running" /\ Arg(t) = x[2]
    BY StepIs DEF SetRunning
<1>2. x = R
    BY <1>1, ExitKinds
<1>3. R[2] = FALSE /\ R[1] = "running"
    OBVIOUS
<1> HIDE DEF R, x
<1>4. running' = FALSE
    BY <1>1, <1>2, <1>3 DEF SetRunning
<1>5. TypeOK'
    BY <1>4 DEF HooksInv, TypeOK
<1>6. /\ \A s \in HideSlots : x # <<"restore", s>>
      /\ x # <<"lsm_restore">> /\ x # <<"lsm_untrack">>
    BY <1>1
<1>7. slot["setprocattr"] = "ksu" => lsm_entry
    BY DEF Unhooking
<1>8. HideUndoes(x)
    BY <1>4, <1>6, <1>7 DEF HideUndoes
<1> QED
    BY <1>5, <1>8 DEF HideOnly, x, HooksInv, TableInv

-----------------------------------------------------------------------------
(* The steps of the exit                                                   *)

\* What a step x of the exit leaves of what it has to undo.
ExitUndoes(x) ==
    /\ \A s \in TableSlots : slot'[s] = "ksu" => slot[s] = "ksu" /\ x # <<"restore_table", s>>
    /\ syscall_hooks' # {} => syscall_hooks # {} /\ x # <<"clear_hooks">>
    /\ tracepoint' => tracepoint /\ x # <<"untrace">>
    /\ \A p \in probes' : p \in probes /\ x # <<"unprobe", p>>
    /\ \A f \in feature_handlers' : f \in feature_handlers /\ x # <<"unfeature", f>>

LEMMA ExitStep ==
    ASSUME HooksInv, phase = "exit", NEW q, work["life"] = q, q # <<>>,
           work' = [work EXCEPT !["life"] = Tail(q)],
           UNCHANGED <<envVars, enforcing, phase, callVars, backup>>, TypeOK',
           hooked_entries' \in Seq(TableSlots), EntriesExact',
           \A s \in Slots : slot'[s] = "ksu" => s \notin unmapped,
           \A s \in TableSlots : orig'[s] = orig[s], dispatcher' => dispatcher,
           ExitUndoes(q[1]), HideUndoes(q[1])
    PROVE  HooksInv'
<1> USE DEF envVars, callVars
<1>1. /\ work' \in [Threads -> Seq(Steps)] /\ work'["life"] = Tail(q) /\ ExitTaken(q, Tail(q))
      /\ OrderInv' /\ q[1] \in ExitSteps
    BY ExitWork
<1>2. q \in Seq(Steps)
    BY DEF HooksInv, WorkTypes, Threads
<1>3. WorkTypes'
    BY <1>1 DEF HooksInv, WorkTypes
<1>4. TableInv'
    BY DEF TableInv
<1>5. RouteInv'
    <2>1. dispatcher' => Found("sys_call_table")'
        BY DEF HooksInv, RouteInv, Found
    <2> QED
        BY <2>1 DEF HooksInv, RouteInv, RedirectedIsServed
<1>6. PendingInv'
    <2>1. probes' \subseteq Probes /\ \A x \in Range(q) : x = q[1] \/ x \in Range(Tail(q))
        BY <1>1 DEF HooksInv, PendingInv, ExitUndoes, ExitTaken
    <2>2. \A s \in TableSlots : slot'[s] = "ksu" => <<"restore_table", s>> \in Range(Tail(q))
        BY <2>1 DEF HooksInv, PendingInv, ExitUndoes
    <2>3. /\ syscall_hooks' # {} => <<"clear_hooks">> \in Range(Tail(q))
          /\ tracepoint' => <<"untrace">> \in Range(Tail(q))
        BY <2>1 DEF HooksInv, PendingInv, ExitUndoes
    <2>4. \A p \in probes' : <<"unprobe", p>> \in Range(Tail(q))
        BY <2>1 DEF HooksInv, PendingInv, ExitUndoes
    <2>5. \A f \in feature_handlers' : <<"unfeature", f>> \in Range(Tail(q))
        BY <2>1 DEF HooksInv, PendingInv, ExitUndoes
    <2> QED
        BY <1>1, <2>1, <2>2, <2>3, <2>4, <2>5 DEF PendingInv, UnloadClean
<1>7. HideInv'
    <2>1. Unhooking(q)
        BY DEF HooksInv, HideInv
    <2>2. Unhooking(Tail(q))'
        BY <1>1, <1>2, <2>1, UnhookingTail DEF TypeOK, ExitTaken
    <2>3. running' => backup'
        BY DEF HooksInv, HideInv, HideUndoes
    <2> QED
        BY <1>1, <2>2, <2>3 DEF HideInv, Unhooking
<1> QED
    BY <1>1, <1>3, <1>4, <1>5, <1>6, <1>7 DEF HooksInv

\* Steps that leave selinux_hide alone.
LEMMA HideUntouched ==
    ASSUME NEW q, Unhooking(q), q # <<>>, HooksInv, running' = running, lsm_entry' = lsm_entry,
           \A s \in HideAll : slot'[s] = slot[s], \A s \in HideSlots : orig'[s] = orig[s],
           q[1][1] \notin {"restore", "lsm_restore", "lsm_untrack", "running"}
    PROVE  HideUndoes(q[1])
<1>1. /\ \A s \in HideSlots : q[1] # <<"restore", s>>
      /\ q[1] # <<"lsm_restore">> /\ q[1] # <<"lsm_untrack">>
    OBVIOUS
<1>2. q[1] # <<"running", FALSE>>
    <2>1. <<"running", FALSE>>[1] = "running"
        OBVIOUS
    <2> QED
        BY <2>1
<1> QED
    BY <1>1, <1>2 DEF HideUndoes, Unhooking, HideAll

\* What a step of selinux_hide leaves of the rest.
LEMMA ExitHides ==
    ASSUME HooksInv, phase = "exit", HideOnly, HideUndoes(work["life"][1]), work["life"] # <<>>,
           work["life"][1][1] \in {"restore", "lsm_restore", "lsm_untrack", "running"},
           work' = [work EXCEPT !["life"] = Tail(@)]
    PROVE  HooksInv'
<1> DEFINE q == work["life"]
           x == q[1]
<1> USE DEF HideOnly, envVars, tableVars, regVars, callVars
<1>1. work' = [work EXCEPT !["life"] = Tail(q)] /\ q # <<>>
    OBVIOUS
<1>2. ExitUndoes(x)
    <2>1. /\ \A s \in TableSlots : x # <<"restore_table", s>>
          /\ x # <<"clear_hooks">> /\ x # <<"untrace">>
          /\ \A p : x # <<"unprobe", p>> /\ x # <<"unfeature", p>>
        OBVIOUS
    <2> QED
        BY <2>1 DEF ExitUndoes
<1>3. hooked_entries' \in Seq(TableSlots) /\ EntriesExact'
    BY DEF HooksInv, WorkTypes, TableInv, EntriesExact
<1> HIDE DEF q
<1>4. \A s \in TableSlots : orig'[s] = orig[s]
    OBVIOUS
<1> QED
    BY <1>1, <1>2, <1>3, <1>4, ExitStep DEF q

LEMMA RestoreTableExit ==
    ASSUME HooksInv, phase = "exit", RestoreTable("life"), work["life"][1] \in ExitSteps
    PROVE  HooksInv'
<1> DEFINE q == work["life"]
           x == q[1]
           s == Arg("life")
<1>0. UNCHANGED <<envVars, orig, tableVars, lsmVars, regVars, hideVars, enforcing, phase, sets, callVars>>
    BY DEF RestoreTable
<1> USE <1>0 DEF envVars, tableVars, lsmVars, regVars, hideVars, callVars
<1>1. q # <<>> /\ x[1] = "restore_table" /\ s = x[2]
    BY StepIs DEF RestoreTable, Threads
<1>2. work' = [work EXCEPT !["life"] = Tail(q)]
    BY DEF RestoreTable, Done
<1>3. s \in TableSlots /\ x = <<"restore_table", s>> /\ s \in Slots
    BY <1>1, ExitKinds DEF Slots
<1> HIDE DEF q, x, s
<1>4. /\ slot' \in [Slots -> {"kernel", "ksu"}]
      /\ \A p \in Slots : p # s => slot'[p] = slot[p]
      /\ slot'[s] = "kernel"
      /\ \A p \in Slots : slot'[p] = "ksu" => p \notin unmapped
    <2>1. CASE s \in Range(hooked_entries)
        <3>1. ksu_patch_text(s, "kernel")
            BY <2>1 DEF RestoreTable, s
        <3> QED
            BY <3>1, <1>3, PatchIs DEF HooksInv, TypeOK, TableInv
    <2>2. CASE s \notin Range(hooked_entries)
        <3>1. slot' = slot
            BY <2>2 DEF RestoreTable, s
        <3> QED
            BY <2>2, <3>1, <1>3 DEF HooksInv, TypeOK, TableInv, EntriesExact
    <2> QED
        BY <2>1, <2>2
<1>5. TypeOK'
    BY <1>4 DEF HooksInv, TypeOK
<1>6. \A p \in TableSlots : p \in Slots
    BY DEF Slots
<1>7. EntriesExact'
    BY <1>4, <1>6 DEF HooksInv, TableInv, EntriesExact
<1>8. ExitUndoes(x)
    <2>1. \A p \in TableSlots : slot'[p] = "ksu" => slot[p] = "ksu" /\ x # <<"restore_table", p>>
        BY <1>3, <1>4, <1>6
    <2>2. x # <<"clear_hooks">> /\ x # <<"untrace">> /\ \A p : x # <<"unprobe", p>> /\ x # <<"unfeature", p>>
        BY <1>3
    <2> QED
        BY <2>1, <2>2 DEF ExitUndoes
<1>9. HideUndoes(x)
    <2>1. \A p \in HideAll : p \in Slots /\ p # s
        BY <1>3 DEF HideAll, HideSlots, TableSlots, Slots
    <2>2. \A p \in HideAll : slot'[p] = slot[p]
        BY <1>4, <2>1
    <2>3. Unhooking(q)
        BY DEF HooksInv, HideInv, q
    <2> QED
        BY <1>1, <2>2, <2>3, HideUntouched DEF x
<1>10. hooked_entries \in Seq(TableSlots)
    BY DEF HooksInv, WorkTypes
<1> QED
    BY <1>1, <1>2, <1>4, <1>5, <1>7, <1>8, <1>9, <1>10, ExitStep DEF q, x

LEMMA ClearHooksExit ==
    ASSUME HooksInv, phase = "exit", ClearHooks("life"), work["life"][1] \in ExitSteps
    PROVE  HooksInv'
<1> DEFINE q == work["life"]
           x == q[1]
<1>0. UNCHANGED <<envVars, slot, orig, tracepoint, lsmVars, regVars, hideVars, enforcing, phase,
                  sets, callVars>>
    BY DEF ClearHooks
<1> USE <1>0 DEF envVars, lsmVars, regVars, hideVars, callVars
<1>1. q # <<>> /\ x[1] = "clear_hooks"
    BY StepIs DEF ClearHooks, Threads
<1>2. work' = [work EXCEPT !["life"] = Tail(q)]
    BY DEF ClearHooks, Done
<1>3. x = <<"clear_hooks">>
    BY <1>1, ExitKinds
<1>4. hooked_entries' = <<>> /\ syscall_hooks' = {} /\ dispatcher' = FALSE
    BY DEF ClearHooks
<1> HIDE DEF q, x
<1>5. ExitTaken(q, Tail(q))
    BY <1>1, <1>2, ExitWork DEF q
<1>6. \A s \in TableSlots : slot[s] # "ksu"
    <2>1. Range(q) \cap ({"restore_table"} \X TableSlots) = {}
        BY <1>3, <1>5 DEF ExitTaken, x
    <2>2. \A s \in TableSlots : <<"restore_table", s>> \notin Range(q)
        BY <2>1
    <2> QED
        BY <2>2 DEF HooksInv, PendingInv, q
<1>7. Range(<<>>) = {} /\ IsInjective(<<>>)
    BY DEF Range, IsInjective
<1>8. TypeOK'
    BY <1>4, <1>7 DEF HooksInv, TypeOK
<1>9. EntriesExact'
    BY <1>4, <1>6, <1>7 DEF HooksInv, TableInv, EntriesExact
<1>10. ExitUndoes(x)
    <2>1. /\ \A p \in TableSlots : x # <<"restore_table", p>>
          /\ x # <<"untrace">> /\ \A p : x # <<"unprobe", p>> /\ x # <<"unfeature", p>>
        BY <1>3
    <2> QED
        BY <1>4, <2>1 DEF ExitUndoes
<1>11. HideUndoes(x)
    <2>1. Unhooking(q)
        BY DEF HooksInv, HideInv, q
    <2> QED
        BY <1>1, <2>1, HideUntouched DEF x
<1>12. hooked_entries' \in Seq(TableSlots)
    BY <1>4
<1> QED
    BY <1>1, <1>2, <1>4, <1>8, <1>9, <1>10, <1>11, <1>12, ExitStep DEF q, x, HooksInv, TableInv

LEMMA RouteExit ==
    ASSUME HooksInv, phase = "exit", RouteHook("life"), work["life"][1] \in ExitSteps
    PROVE  HooksInv'
<1> DEFINE q == work["life"]
           x == q[1]
<1>0. UNCHANGED <<envVars, slot, orig, hooked_entries, dispatcher, tracepoint, lsmVars, regVars,
                  hideVars, enforcing, phase, sets, callVars>>
    BY DEF RouteHook
<1> USE <1>0 DEF envVars, tableVars, lsmVars, regVars, hideVars, callVars
<1>1. q # <<>> /\ x[1] \in {"register", "unregister"} /\ Arg("life") = x[2] /\ \A name : Step("life", name) => x[1] = name
    BY StepIs DEF RouteHook, Threads
<1>2. work' = [work EXCEPT !["life"] = Tail(q)]
    BY DEF RouteHook, Done
<1>3. x[1] = "unregister"
    BY <1>1, ExitName DEF ExitNames
<1> HIDE DEF q, x
<1>4. syscall_hooks' \subseteq syscall_hooks
    BY <1>1, <1>3 DEF RouteHook
<1>5. TypeOK'
    BY <1>4 DEF HooksInv, TypeOK
<1>6. ExitUndoes(x)
    <2>1. /\ \A s \in TableSlots : x # <<"restore_table", s>>
          /\ x # <<"clear_hooks">> /\ x # <<"untrace">>
          /\ \A p : x # <<"unprobe", p>> /\ x # <<"unfeature", p>>
        BY <1>1, <1>3
    <2> QED
        BY <1>4, <2>1 DEF ExitUndoes
<1>7. HideUndoes(x)
    <2>1. Unhooking(q)
        BY DEF HooksInv, HideInv, q
    <2> QED
        BY <1>1, <1>3, <2>1, HideUntouched DEF x
<1>8. hooked_entries \in Seq(TableSlots) /\ EntriesExact'
    BY DEF HooksInv, WorkTypes, TableInv, EntriesExact
<1> QED
    BY <1>1, <1>2, <1>5, <1>6, <1>7, <1>8, ExitStep DEF q, x, HooksInv, TableInv

LEMMA TraceExit ==
    ASSUME HooksInv, phase = "exit", TraceHook("life"), work["life"][1] \in ExitSteps
    PROVE  HooksInv'
<1> DEFINE q == work["life"]
           x == q[1]
<1>0. UNCHANGED <<envVars, slot, orig, hooked_entries, syscall_hooks, dispatcher, lsmVars,
                  regVars, hideVars, enforcing, phase, sets, callVars>>
    BY DEF TraceHook
<1> USE <1>0 DEF envVars, tableVars, lsmVars, regVars, hideVars, callVars
<1>1. q # <<>> /\ x[1] \in {"trace", "untrace"} /\ Arg("life") = x[2] /\ \A name : Step("life", name) => x[1] = name
    BY StepIs DEF TraceHook, Threads
<1>2. work' = [work EXCEPT !["life"] = Tail(q)]
    BY DEF TraceHook, Done
<1>3. x[1] = "untrace"
    BY <1>1, ExitName DEF ExitNames
<1> HIDE DEF q, x
<1>4. tracepoint' = FALSE
    BY <1>1, <1>3 DEF TraceHook
<1>5. TypeOK'
    BY <1>4 DEF HooksInv, TypeOK
<1>6. ExitUndoes(x)
    <2>1. /\ \A s \in TableSlots : x # <<"restore_table", s>>
          /\ x # <<"clear_hooks">>
          /\ \A p : x # <<"unprobe", p>> /\ x # <<"unfeature", p>>
        BY <1>1, <1>3
    <2> QED
        BY <1>4, <2>1 DEF ExitUndoes
<1>7. HideUndoes(x)
    <2>1. Unhooking(q)
        BY DEF HooksInv, HideInv, q
    <2> QED
        BY <1>1, <1>3, <2>1, HideUntouched DEF x
<1>8. hooked_entries \in Seq(TableSlots) /\ EntriesExact'
    BY DEF HooksInv, WorkTypes, TableInv, EntriesExact
<1> QED
    BY <1>1, <1>2, <1>5, <1>6, <1>7, <1>8, ExitStep DEF q, x, HooksInv, TableInv

LEMMA ProbeExit ==
    ASSUME HooksInv, phase = "exit", ProbeHook("life"), work["life"][1] \in ExitSteps
    PROVE  HooksInv'
<1> DEFINE q == work["life"]
           x == q[1]
<1>0. UNCHANGED <<envVars, slot, orig, tableVars, lsmVars, feature_handlers, hideVars,
                  enforcing, phase, sets, callVars>>
    BY DEF ProbeHook
<1> USE <1>0 DEF envVars, tableVars, lsmVars, regVars, hideVars, callVars
<1>1. q # <<>> /\ x[1] \in {"probe", "unprobe"} /\ Arg("life") = x[2] /\ \A name : Step("life", name) => x[1] = name
    BY StepIs DEF ProbeHook, Threads
<1>2. work' = [work EXCEPT !["life"] = Tail(q)]
    BY DEF ProbeHook, Done
<1>3. x[1] = "unprobe"
    BY <1>1, ExitName DEF ExitNames
<1> HIDE DEF q, x
<1>4. \A p \in probes' : p \in probes /\ x # <<"unprobe", p>>
    <2>1. probes' = probes \ {x[2]}
        BY <1>1, <1>3 DEF ProbeHook
    <2>2. \A p : x = <<"unprobe", p>> => x[2] = p
        OBVIOUS
    <2> QED
        BY <2>1, <2>2
<1>5. TypeOK'
    BY DEF HooksInv, TypeOK
<1>6. ExitUndoes(x)
    <2>1. /\ \A s \in TableSlots : x # <<"restore_table", s>>
          /\ x # <<"clear_hooks">> /\ x # <<"untrace">>
          /\ \A p : x # <<"unfeature", p>>
        BY <1>1, <1>3
    <2> QED
        BY <1>4, <2>1 DEF ExitUndoes
<1>7. HideUndoes(x)
    <2>1. Unhooking(q)
        BY DEF HooksInv, HideInv, q
    <2> QED
        BY <1>1, <1>3, <2>1, HideUntouched DEF x
<1>8. hooked_entries \in Seq(TableSlots) /\ EntriesExact'
    BY DEF HooksInv, WorkTypes, TableInv, EntriesExact
<1> QED
    BY <1>1, <1>2, <1>5, <1>6, <1>7, <1>8, ExitStep DEF q, x, HooksInv, TableInv

LEMMA FeatureExit ==
    ASSUME HooksInv, phase = "exit", FeatureHandler("life"), work["life"][1] \in ExitSteps
    PROVE  HooksInv'
<1> DEFINE q == work["life"]
           x == q[1]
<1>0. UNCHANGED <<envVars, slot, orig, tableVars, lsmVars, probes, hideVars, enforcing, phase,
                  sets, callVars>>
    BY DEF FeatureHandler
<1> USE <1>0 DEF envVars, tableVars, lsmVars, regVars, hideVars, callVars
<1>1. q # <<>> /\ x[1] \in {"feature", "unfeature"} /\ Arg("life") = x[2] /\ \A name : Step("life", name) => x[1] = name
    BY StepIs DEF FeatureHandler, Threads
<1>2. work' = [work EXCEPT !["life"] = Tail(q)]
    BY DEF FeatureHandler, Done
<1>3. x[1] = "unfeature"
    BY <1>1, ExitName DEF ExitNames
<1> HIDE DEF q, x
<1>4. \A p \in feature_handlers' : p \in feature_handlers /\ x # <<"unfeature", p>>
    <2>1. feature_handlers' = feature_handlers \ {x[2]}
        BY <1>1, <1>3 DEF FeatureHandler
    <2>2. \A p : x = <<"unfeature", p>> => x[2] = p
        OBVIOUS
    <2> QED
        BY <2>1, <2>2
<1>5. TypeOK'
    BY <1>4 DEF HooksInv, TypeOK
<1>6. ExitUndoes(x)
    <2>1. /\ \A s \in TableSlots : x # <<"restore_table", s>>
          /\ x # <<"clear_hooks">> /\ x # <<"untrace">>
          /\ \A p : x # <<"unprobe", p>>
        BY <1>1, <1>3
    <2> QED
        BY <1>4, <2>1 DEF ExitUndoes
<1>7. HideUndoes(x)
    <2>1. Unhooking(q)
        BY DEF HooksInv, HideInv, q
    <2> QED
        BY <1>1, <1>3, <2>1, HideUntouched DEF x
<1>8. hooked_entries \in Seq(TableSlots) /\ EntriesExact'
    BY DEF HooksInv, WorkTypes, TableInv, EntriesExact
<1> QED
    BY <1>1, <1>2, <1>5, <1>6, <1>7, <1>8, ExitStep DEF q, x, HooksInv, TableInv

LEMMA FakeFreeExit ==
    ASSUME HooksInv, phase = "exit", FakeFree("life"), work["life"][1] \in ExitSteps
    PROVE  HooksInv'
<1> DEFINE q == work["life"]
           x == q[1]
<1>0. UNCHANGED <<envVars, slot, orig, tableVars, lsmVars, regVars, enabled, running, backup,
                  fake_key, enforcing, phase, sets, callVars>>
    BY DEF FakeFree
<1> USE <1>0 DEF envVars, tableVars, lsmVars, regVars, hideVars, callVars
<1>1. q # <<>> /\ x[1] \in {"fake_free"} /\ Arg("life") = x[2] /\ \A name : Step("life", name) => x[1] = name
    BY StepIs DEF FakeFree, Threads
<1>2. work' = [work EXCEPT !["life"] = Tail(q)]
    BY DEF FakeFree, Done
<1>3. x[1] = "fake_free"
    BY <1>1
<1> HIDE DEF q, x
<1>4. fake' = None
    BY DEF FakeFree
<1>5. TypeOK'
    BY <1>4 DEF HooksInv, TypeOK
<1>6. ExitUndoes(x)
    <2>1. /\ \A s \in TableSlots : x # <<"restore_table", s>>
          /\ x # <<"clear_hooks">> /\ x # <<"untrace">>
          /\ \A p : x # <<"unprobe", p>> /\ x # <<"unfeature", p>>
        BY <1>1, <1>3
    <2> QED
        BY <1>4, <2>1 DEF ExitUndoes
<1>7. HideUndoes(x)
    <2>1. Unhooking(q)
        BY DEF HooksInv, HideInv, q
    <2> QED
        BY <1>1, <1>3, <2>1, HideUntouched DEF x
<1>8. hooked_entries \in Seq(TableSlots) /\ EntriesExact'
    BY DEF HooksInv, WorkTypes, TableInv, EntriesExact
<1> QED
    BY <1>1, <1>2, <1>5, <1>6, <1>7, <1>8, ExitStep DEF q, x, HooksInv, TableInv

LEMMA ExitWorks ==
    ASSUME HooksInv, phase = "exit", NEW t \in Threads, Works(t)
    PROVE  HooksInv'
<1> DEFINE q == work["life"]
           x == q[1]
<1>1. \A name : ~Step("ioctl", name)
    BY DEF HooksInv, OrderInv, Step
<1>2. t = "life"
    BY <1>1 DEF Threads, Works, ksu_find_ni_syscall_slots, TableRecord, patch_syscall_table, RestoreTable,
                ClearHooks, RouteHook, TraceHook, ProbeHook, FeatureHandler, FakeInit, FakeFree,
                hook_selinux_status_open, PatchStatus, CheckEnable, SaveSlot, PatchSlot, RestoreSlot,
                LsmTrack, ksu_lsm_hook_patch_slot, LsmSet, LsmRestore, LsmUntrack, SetRunning, Rules
<1>3. \E name : Step("life", name)
    BY <1>2 DEF Works, ksu_find_ni_syscall_slots, TableRecord, patch_syscall_table, RestoreTable,
                ClearHooks, RouteHook, TraceHook, ProbeHook, FeatureHandler, FakeInit, FakeFree,
                hook_selinux_status_open, PatchStatus, CheckEnable, SaveSlot, PatchSlot, RestoreSlot,
                LsmTrack, ksu_lsm_hook_patch_slot, LsmSet, LsmRestore, LsmUntrack, SetRunning, Rules
<1>4. q # <<>> /\ x \in ExitSteps
    BY <1>3, StepIs DEF HooksInv, OrderInv, ExitOrder, Threads
<1>5. \A name : Step("life", name) => x[1] = name
    BY StepIs DEF Threads
<1>6. x[1] \in ExitNames \cup {"running"}
    BY <1>4, ExitName
<1>7. ~(\/ ksu_find_ni_syscall_slots(t) \/ TableRecord(t) \/ patch_syscall_table(t) \/ FakeInit(t)
        \/ hook_selinux_status_open(t) \/ PatchStatus(t) \/ CheckEnable(t) \/ SaveSlot(t) \/ PatchSlot(t)
        \/ LsmTrack(t) \/ ksu_lsm_hook_patch_slot(t) \/ LsmSet(t) \/ Rules(t))
    BY <1>2, <1>5, <1>6 DEF ExitNames, ksu_find_ni_syscall_slots, TableRecord, patch_syscall_table, FakeInit,
                hook_selinux_status_open, PatchStatus, CheckEnable, SaveSlot, PatchSlot,
                LsmTrack, ksu_lsm_hook_patch_slot, LsmSet, Rules
<1>8. ASSUME RestoreSlot(t) \/ LsmRestore(t) \/ LsmUntrack(t) \/ SetRunning(t)
      PROVE  HooksInv'
    <2>1. Unhooking(q)
        BY DEF HooksInv, HideInv
    <2>2. HideUndoes(x) /\ HideOnly
        BY <1>2, <1>4, <1>8, <2>1, RestoreUndoes, LsmUndoes, RunningUndoes
    <2>3. work' = [work EXCEPT !["life"] = Tail(@)]
        BY <1>2, <1>8 DEF RestoreSlot, LsmRestore, LsmUntrack, SetRunning, Done
    <2>4. x[1] \in {"restore", "lsm_restore", "lsm_untrack", "running"}
        BY <1>2, <1>5, <1>8 DEF RestoreSlot, LsmRestore, LsmUntrack, SetRunning
    <2> QED
        BY <1>4, <2>2, <2>3, <2>4, ExitHides
<1> QED
    BY <1>2, <1>4, <1>7, <1>8, RestoreTableExit, ClearHooksExit, RouteExit, TraceExit, ProbeExit,
       FeatureExit, FakeFreeExit DEF Works

-----------------------------------------------------------------------------
(* The ioctl that sets selinux_hide                                        *)

\* What no step of it touches.
IoctlOnly ==
    /\ UNCHANGED <<envVars, tableVars, regVars, backup, enforcing, phase, callVars>>
    /\ TypeOK'
    /\ \A s \in TableSlots : slot'[s] = slot[s] /\ orig'[s] = orig[s]
    /\ \A s \in Slots : slot'[s] = "ksu" => s \notin unmapped

LEMMA IoctlStep ==
    ASSUME HooksInv, phase = "live", NEW r \in Seq(Steps), work' = [work EXCEPT !["ioctl"] = r],
           IoctlOnly, running' => backup',
           \/ r = <<>> /\ (On \/ Off)'
           \/ \E k \in 1..11 : r = From(k) /\ EnabledTo(k)'
           \/ r # <<>> /\ Range(r) \subseteq UnhookSteps /\ Follows(r, <<"lsm_restore">>, <<"lsm_untrack">>) /\ Unhooking(r)'
    PROVE  HooksInv'
<1> USE DEF IoctlOnly, envVars, tableVars, regVars, callVars
<1>1. work' \in [Threads -> Seq(Steps)] /\ work'["ioctl"] = r /\ work'["life"] = work["life"]
    BY WorkPopped DEF Threads
<1>2. OrderInv'
    BY <1>1 DEF HooksInv, OrderInv
<1>3. WorkTypes'
    BY <1>1 DEF HooksInv, WorkTypes
<1>4. TableInv'
    BY <1>1, TableKept DEF HooksInv, Before
<1>5. RouteInv'
    <2>1. "ni" \in TableSlots
        BY DEF TableSlots
    <2> QED
        BY <1>1, <2>1, RouteKept DEF HooksInv, Before
<1>6. PendingInv'
    BY BeforePends DEF HooksInv, PendingInv, Before
<1>7. HideInv'
    <2>1. CASE r = <<>> /\ (On \/ Off)'
        BY <1>1, <2>1 DEF HideInv
    <2>2. CASE \E k \in 1..11 : r = From(k) /\ EnabledTo(k)'
        <3>1. PICK k \in 1..11 : r = From(k) /\ EnabledTo(k)'
            BY <2>2
        <3>2. EnableAt(k)'
            BY <1>1, <3>1 DEF EnableAt, From
        <3> QED
            BY <3>2 DEF HideInv
    <2>3. CASE r # <<>> /\ Range(r) \subseteq UnhookSteps /\ Follows(r, <<"lsm_restore">>, <<"lsm_untrack">>) /\ Unhooking(r)'
        <3>1. UnhookAt'
            BY <1>1, <2>3 DEF UnhookAt, Unhooking
        <3> QED
            BY <1>1, <2>3, <3>1 DEF HideInv
    <2> QED
        BY <2>1, <2>2, <2>3
<1> QED
    BY <1>2, <1>3, <1>4, <1>5, <1>6, <1>7, <1>1 DEF HooksInv

\* The steps of ksu_selinux_hide_unhook().
LEMMA UnhookWorks ==
    ASSUME HooksInv, phase = "live", UnhookAt, work["ioctl"] # <<>>,
           RestoreSlot("ioctl") \/ LsmRestore("ioctl") \/ LsmUntrack("ioctl") \/ SetRunning("ioctl")
    PROVE  HooksInv'
<1> PICK q : q = work["ioctl"]
    OBVIOUS
<1>1. q \in Seq(Steps) /\ Unhooking(q) /\ Range(q) \subseteq UnhookSteps
      /\ Follows(q, <<"lsm_restore">>, <<"lsm_untrack">>)
    BY DEF HooksInv, WorkTypes, UnhookAt, Threads
<1>2. /\ Tail(q) \in Seq(Steps) /\ q[1] \in Range(q) /\ Range(Tail(q)) \subseteq Range(q)
    BY <1>1, TailRange, TailFacts
<1>3. q[1] \in ExitSteps
    BY <1>1, <1>2, UnhookIsExit
<1>4. HideUndoes(q[1]) /\ HideOnly
    BY <1>1, <1>3, RestoreUndoes, LsmUndoes, RunningUndoes DEF Threads
<1>5. /\ Follows(Tail(q), <<"lsm_restore">>, <<"lsm_untrack">>)
      /\ First(Tail(q), <<"lsm_untrack">>) => q[1] = <<"lsm_restore">>
    BY <1>1, FollowsTail
<1>6. work' = [work EXCEPT !["ioctl"] = Tail(q)]
    BY DEF RestoreSlot, LsmRestore, LsmUntrack, SetRunning, Done
<1>7. slot' \in [Slots -> {"kernel", "ksu"}]
    BY <1>4 DEF HideOnly, TypeOK
<1>8. Unhooking(Tail(q))'
    BY <1>1, <1>4, <1>5, <1>7, UnhookingTail
<1>9. IoctlOnly
    BY <1>4 DEF HideOnly, IoctlOnly
<1>10. running' => backup'
    BY <1>4 DEF HideUndoes, HideOnly, HooksInv, HideInv
<1>11. CASE Tail(q) = <<>>
    <2>1. Range(<<>>) = {}
        BY DEF Range
    <2>2. Off'
        BY <1>7, <1>8, <1>11, <2>1 DEF Off, Unhooking, HideAll, HideSlots, Slots
    <2> QED
        BY <1>2, <1>6, <1>9, <1>10, <1>11, <2>2, IoctlStep
<1>12. CASE Tail(q) # <<>>
    BY <1>1, <1>2, <1>5, <1>6, <1>8, <1>9, <1>10, <1>12, IoctlStep
<1> QED
    BY <1>11, <1>12

\* ... and how ksu_selinux_hide_enable() comes to it.
LEMMA EnableFails ==
    ASSUME HooksInv, phase = "live", NEW k \in 1..9, EnableAt(k), IoctlOnly,
           work' = [work EXCEPT !["ioctl"] = ksu_selinux_hide_unhook],
           \A s \in HideAll : slot'[s] = slot[s] /\ orig'[s] = orig[s],
           lsm_entry' = lsm_entry, running' = running
    PROVE  HooksInv'
<1> DEFINE u == ksu_selinux_hide_unhook
<1>1. /\ u \in Seq(UnhookSteps) /\ u # <<>> /\ ~First(u, <<"lsm_untrack">>)
      /\ Follows(u, <<"lsm_restore">>, <<"lsm_untrack">>)
      /\ \A s \in HideSlots : <<"restore", s>> \in Range(u)
      /\ <<"lsm_restore">> \in Range(u) /\ <<"lsm_untrack">> \in Range(u)
    BY UnhookProgram DEF HideSlots
<1> HIDE DEF u
<1>2. u \in Seq(Steps) /\ Range(u) \subseteq UnhookSteps
    BY <1>1 DEF Steps, ExitSteps, Range
<1>3. ~running /\ ~lsm_entry /\ slot["setprocattr"] # "ksu"
    BY DEF EnableAt, EnabledTo
<1>4. \A s \in HideSlots : slot[s] = "ksu" => orig[s] # None
    BY DEF EnableAt, EnabledTo, HideSlots
<1>5. Unhooking(u)'
    BY <1>1, <1>3, <1>4 DEF Unhooking, HideAll
<1> QED
    BY <1>1, <1>2, <1>3, <1>5, IoctlStep DEF u

LEMMA EnableNext ==
    ASSUME HooksInv, phase = "live", NEW k \in 1..11, EnabledTo(k)', IoctlOnly,
           work' = [work EXCEPT !["ioctl"] = From(k)]
    PROVE  HooksInv'
<1>1. From(k) \in Seq(Steps)
    <2>1. EnableSteps \subseteq Steps
        BY DEF Steps
    <2>2. From(k) \in Seq(EnableSteps)
        BY FromIs
    <2> QED
        BY <2>1, <2>2
<1>2. ~running'
    BY DEF EnabledTo
<1> QED
    BY <1>1, <1>2, IoctlStep

LEMMA EnableStepAt ==
    ASSUME NEW k \in 1..11
    PROVE  LET x == ksu_selinux_hide_enable[k]
           IN  /\ x[1] \in EnableNames \cup StatusNames \cup {"running"}
               /\ x[1] = "check_enable" => k = 1
               /\ x[1] = "save_status" => k = 2
               /\ x[1] = "patch_status" => k = 3
               /\ x[1] = "save" => (k = 4 /\ x[2] = "context_write") \/ (k = 6 /\ x[2] = "access_write")
               /\ x[1] = "patch" => (k = 5 /\ x[2] = "context_write") \/ (k = 7 /\ x[2] = "access_write")
               /\ x[1] = "lsm_track" => k = 8
               /\ x[1] = "lsm_patch" => k = 9
               /\ x[1] = "lsm_set" => k = 10
               /\ x[1] = "running" => k = 11 /\ x[2] = TRUE
<1> DEFINE e == ksu_selinux_hide_enable
           R == <<"running", TRUE>>
<1>1. /\ e[1] = <<"check_enable">> /\ e[2] = <<"save_status">> /\ e[3] = <<"patch_status">>
      /\ e[4] = <<"save", "context_write">> /\ e[5] = <<"patch", "context_write">>
      /\ e[6] = <<"save", "access_write">> /\ e[7] = <<"patch", "access_write">>
      /\ e[8] = <<"lsm_track">> /\ e[9] = <<"lsm_patch">> /\ e[10] = <<"lsm_set">>
      /\ e[11] = R
    BY EnableProgram
<1>2. R[1] = "running" /\ R[2] = TRUE
    OBVIOUS
<1> HIDE DEF e, R
<1> USE DEF EnableNames, StatusNames
<1>3. CASE k \in {1, 2, 3, 8, 9, 10}
    BY <1>1, <1>3 DEF e
<1>4. CASE k \in {4, 5, 6, 7}
    BY <1>1, <1>4 DEF e
<1>5. CASE k = 11
    BY <1>1, <1>2, <1>5 DEF e
<1>6. k \in {1, 2, 3, 8, 9, 10} \/ k \in {4, 5, 6, 7} \/ k = 11
    OBVIOUS
<1> QED
    BY <1>3, <1>4, <1>5, <1>6

LEMMA EnableHead ==
    ASSUME HooksInv, NEW k \in 1..11, EnableAt(k)
    PROVE  /\ work["ioctl"] = From(k) /\ work["ioctl"] # <<>> /\ Tail(work["ioctl"]) = From(k + 1)
           /\ \A name : Step("ioctl", name) => name = ksu_selinux_hide_enable[k][1]
           /\ Arg("ioctl") = ksu_selinux_hide_enable[k][2]
<1>1. work["ioctl"] = From(k)
    BY DEF EnableAt, From
<1> QED
    BY <1>1, FromIs DEF Step, Arg

\* Its steps until the first slot is patched.
LEMMA EnableStart ==
    ASSUME HooksInv, phase = "live", NEW k \in 1..11, EnableAt(k),
           CheckEnable("ioctl") \/ hook_selinux_status_open("ioctl") \/ PatchStatus("ioctl") \/ SaveSlot("ioctl")
    PROVE  HooksInv'
<1> USE DEF envVars, tableVars, lsmVars, regVars, hideVars, callVars
<1>1. /\ Tail(work["ioctl"]) = From(k + 1) /\ Arg("ioctl") = ksu_selinux_hide_enable[k][2]
      /\ \A name : Step("ioctl", name) => name = ksu_selinux_hide_enable[k][1]
    BY EnableHead
<1>2. EnabledTo(k)
    BY DEF EnableAt
<1>3. /\ \A s \in TableSlots : s \in Slots /\ s \notin HideAll /\ s # "status_open"
      /\ \A s \in HideAll : s \in Slots /\ s # "status_open" /\ s \in {"context_write", "access_write", "setprocattr"}
    BY DEF TableSlots, HideAll, HideSlots, Slots
<1>4. CASE CheckEnable("ioctl")
    <2>1. k = 1
        BY <1>1, <1>4, EnableStepAt DEF CheckEnable
    <2>2. UNCHANGED <<envVars, slot, orig, tableVars, lsmVars, regVars, hideVars, enforcing, phase, callVars>>
        BY <1>4 DEF CheckEnable
    <2>3. TypeOK'
        BY <2>2 DEF HooksInv, TypeOK
    <2>4. IoctlOnly
        BY <2>2, <2>3 DEF IoctlOnly, HooksInv, TableInv
    <2>5. CASE backup /\ Found("write_op")
        <3>1. work' = [work EXCEPT !["ioctl"] = From(2)]
            <4>1. Tail(work["ioctl"]) = From(2)
                <5>1. k + 1 = 2
                    BY <2>1
                <5> QED
                    BY <1>1, <5>1
            <4>2. work' = [work EXCEPT !["ioctl"] = Tail(work["ioctl"])]
                BY <1>4, <2>5 DEF CheckEnable
            <4> QED
                BY <4>1, <4>2
        <3>2. EnabledTo(2)'
            BY <1>2, <2>1, <2>2, <2>5 DEF EnabledTo
        <3> QED
            BY <3>1, <3>2, <2>4, EnableNext
    <2>6. CASE ~(backup /\ Found("write_op"))
        <3>1. work' = [work EXCEPT !["ioctl"] = <<>>]
            BY <1>4, <2>6, Zenon DEF CheckEnable
        <3>4. <<>> \in Seq(Steps)
            OBVIOUS
        <3>2. \A s \in HideAll : slot[s] = "kernel"
            BY <1>2, <1>3, <2>1 DEF EnabledTo, HooksInv, TypeOK
        <3>3. Off' /\ ~running'
            BY <1>2, <2>1, <2>2, <3>2 DEF Off, EnabledTo
        <3> QED
            BY <3>1, <3>3, <3>4, <2>4, IoctlStep
    <2> QED
        BY <2>5, <2>6
<1>5. CASE hook_selinux_status_open("ioctl")
    <2>1. k = 2
        BY <1>1, <1>5, EnableStepAt DEF hook_selinux_status_open
    <2>2. UNCHANGED <<envVars, slot, tableVars, lsmVars, regVars, hideVars, enforcing, phase, callVars>>
        BY <1>5 DEF hook_selinux_status_open
    <2>3. /\ orig' \in [Slots -> {"kernel", "ksu", None}]
          /\ \A s \in Slots \ {"status_open"} : orig'[s] = orig[s]
        BY <1>5 DEF HooksInv, TypeOK, hook_selinux_status_open, Slots
    <2>4. TypeOK'
        BY <2>2, <2>3 DEF HooksInv, TypeOK
    <2>5. IoctlOnly
        BY <1>3, <2>2, <2>3, <2>4 DEF IoctlOnly, HooksInv, TableInv
    <2>6. From(3) = Tail(work["ioctl"]) /\ From(4) = Tail(Tail(work["ioctl"]))
        <3>1. k + 1 = 3 /\ 3 \in 1..11 /\ 3 + 1 = 4
            BY <2>1
        <3>2. Tail(From(3)) = From(3 + 1)
            BY <3>1, FromIs
        <3> QED
            BY <1>1, <3>1, <3>2
    <2>7. \/ work' = [work EXCEPT !["ioctl"] = From(3)]
          \/ work' = [work EXCEPT !["ioctl"] = From(4)]
        BY <1>5, <2>6 DEF hook_selinux_status_open, Done
    <2>8. EnabledTo(3)' /\ EnabledTo(4)'
        BY <1>2, <2>1, <2>2, <2>3 DEF EnabledTo, Slots
    <2> QED
        BY <2>5, <2>7, <2>8, EnableNext
<1>6. CASE PatchStatus("ioctl")
    <2>1. k = 3
        BY <1>1, <1>6, EnableStepAt DEF PatchStatus
    <2>2. UNCHANGED <<envVars, tableVars, lsmVars, regVars, hideVars, enforcing, phase, callVars>>
        BY <1>6 DEF PatchStatus
    <2>3. /\ orig' \in [Slots -> {"kernel", "ksu", None}]
          /\ \A s \in Slots \ {"status_open"} : orig'[s] = orig[s]
        BY <1>6 DEF HooksInv, TypeOK, PatchStatus, Slots
    <2>4. /\ slot' \in [Slots -> {"kernel", "ksu"}]
          /\ \A s \in Slots : s # "status_open" => slot'[s] = slot[s]
          /\ \A s \in Slots : slot'[s] = "ksu" => s \notin unmapped
        <3>1. ksu_patch_text("status_open", "ksu") /\ "status_open" \in Slots /\ unmapped' = unmapped
            BY <1>6 DEF PatchStatus, Slots
        <3> QED
            BY <3>1, PatchIs
    <2>5. TypeOK'
        BY <2>2, <2>3, <2>4 DEF HooksInv, TypeOK
    <2>6. IoctlOnly
        BY <1>3, <2>2, <2>3, <2>4, <2>5 DEF IoctlOnly
    <2>7. work' = [work EXCEPT !["ioctl"] = From(4)]
        <3>1. k + 1 = 4
            BY <2>1
        <3>2. work' = [work EXCEPT !["ioctl"] = Tail(work["ioctl"])]
            BY <1>6 DEF PatchStatus, Done
        <3> QED
            BY <1>1, <3>1, <3>2
    <2>8. EnabledTo(4)'
        BY <1>2, <2>1, <2>2, <2>3, <2>4 DEF EnabledTo, Slots, HideSlots
    <2> QED
        BY <2>6, <2>7, <2>8, EnableNext
<1>7. CASE SaveSlot("ioctl")
    <2>1. (k = 4 /\ Arg("ioctl") = "context_write") \/ (k = 6 /\ Arg("ioctl") = "access_write")
        BY <1>1, <1>7, EnableStepAt DEF SaveSlot
    <2>2. UNCHANGED <<envVars, slot, tableVars, lsmVars, regVars, hideVars, enforcing, phase, callVars>>
        BY <1>7 DEF SaveSlot
    <2> DEFINE s == Arg("ioctl")
    <2>3. s \in HideAll /\ s \in Slots
        BY <2>1 DEF HideAll, HideSlots, Slots
    <2> HIDE DEF s
    <2>4. /\ orig' \in [Slots -> {"kernel", "ksu", None}]
          /\ \A p \in Slots : p # s => orig'[p] = orig[p]
          /\ orig'[s] = slot[s]
        BY <1>7, <2>3 DEF HooksInv, TypeOK, SaveSlot, s
    <2>5. TypeOK'
        BY <2>2, <2>4 DEF HooksInv, TypeOK
    <2>6. IoctlOnly
        BY <1>3, <2>2, <2>3, <2>4, <2>5 DEF IoctlOnly, HooksInv, TableInv
    <2>7. orig'[s] # None
        BY <2>3, <2>4 DEF HooksInv, TypeOK, None
    <2>8. CASE k = 4 /\ s = "context_write"
        <3>1. work' = [work EXCEPT !["ioctl"] = From(5)]
            <4>1. k + 1 = 5
                BY <2>8
            <4>2. work' = [work EXCEPT !["ioctl"] = Tail(work["ioctl"])]
                BY <1>7 DEF SaveSlot, Done
            <4> QED
                BY <1>1, <4>1, <4>2
        <3>2. EnabledTo(5)'
            BY <1>2, <2>2, <2>4, <2>7, <2>8 DEF EnabledTo
        <3> QED
            BY <3>1, <3>2, <2>6, EnableNext
    <2>9. CASE k = 6 /\ s = "access_write"
        <3>1. work' = [work EXCEPT !["ioctl"] = From(7)]
            <4>1. k + 1 = 7
                BY <2>9
            <4>2. work' = [work EXCEPT !["ioctl"] = Tail(work["ioctl"])]
                BY <1>7 DEF SaveSlot, Done
            <4> QED
                BY <1>1, <4>1, <4>2
        <3>2. EnabledTo(7)'
            BY <1>2, <2>2, <2>4, <2>7, <2>9 DEF EnabledTo, Slots, HideSlots
        <3> QED
            BY <3>1, <3>2, <2>6, EnableNext
    <2> QED
        BY <2>1, <2>8, <2>9 DEF s
<1> QED
    BY <1>4, <1>5, <1>6, <1>7

\* The two selinuxfs slots.
LEMMA EnablePatch ==
    ASSUME HooksInv, phase = "live", NEW k \in 1..11, EnableAt(k), PatchSlot("ioctl")
    PROVE  HooksInv'
<1> USE DEF envVars, tableVars, lsmVars, regVars, hideVars, callVars
<1> DEFINE s == Arg("ioctl")
<1>0. UNCHANGED <<envVars, orig, tableVars, lsmVars, regVars, hideVars, enforcing, phase, callVars>>
    BY DEF PatchSlot
<1>1. /\ Tail(work["ioctl"]) = From(k + 1) /\ Arg("ioctl") = ksu_selinux_hide_enable[k][2]
      /\ \A name : Step("ioctl", name) => name = ksu_selinux_hide_enable[k][1]
    BY EnableHead
<1>2. EnabledTo(k)
    BY DEF EnableAt
<1>3. (k = 5 /\ s = "context_write") \/ (k = 7 /\ s = "access_write")
    BY <1>1, EnableStepAt DEF PatchSlot
<1>4. s \in HideSlots /\ s \in Slots /\ k \in 1..9
    BY <1>3 DEF HideSlots, Slots
<1>5. \A p \in TableSlots : p \in Slots /\ p # s
    BY <1>4 DEF TableSlots, HideSlots, Slots
<1> HIDE DEF s
<1>6. /\ slot' \in [Slots -> {"kernel", "ksu"}]
      /\ \A p \in Slots : p # s => slot'[p] = slot[p]
      /\ s \notin unmapped => slot'[s] = "ksu"
      /\ s \in unmapped => slot'[s] = slot[s]
      /\ \A p \in Slots : slot'[p] = "ksu" => p \notin unmapped
    <2>1. ksu_patch_text(s, "ksu")
        BY DEF PatchSlot, s
    <2> QED
        BY <1>0, <1>4, <2>1, PatchIs
<1>7. TypeOK'
    BY <1>0, <1>6 DEF HooksInv, TypeOK
<1>8. IoctlOnly
    BY <1>0, <1>5, <1>6, <1>7 DEF IoctlOnly
<1>9. CASE s \in unmapped
    <2>1. work' = [work EXCEPT !["ioctl"] = ksu_selinux_hide_unhook]
        BY <1>9 DEF PatchSlot, s
    <2>2. \A p \in HideAll : slot'[p] = slot[p] /\ orig'[p] = orig[p]
        BY <1>0, <1>6, <1>9 DEF HideAll, HideSlots, Slots
    <2> QED
        BY <1>0, <1>4, <1>8, <2>1, <2>2, EnableFails
<1>10. CASE s \notin unmapped
    <2>1. work' = [work EXCEPT !["ioctl"] = Tail(work["ioctl"])]
        BY <1>10 DEF PatchSlot, s
    <2>2. CASE k = 5 /\ s = "context_write"
        <3>1. k + 1 = 6
            BY <2>2
        <3>2. work' = [work EXCEPT !["ioctl"] = From(6)]
            BY <1>1, <2>1, <3>1
        <3>3. EnabledTo(6)'
            BY <1>0, <1>2, <1>6, <1>10, <2>2 DEF EnabledTo, Slots, HideSlots
        <3> QED
            BY <1>8, <3>2, <3>3, EnableNext
    <2>3. CASE k = 7 /\ s = "access_write"
        <3>1. k + 1 = 8
            BY <2>3
        <3>2. work' = [work EXCEPT !["ioctl"] = From(8)]
            BY <1>1, <2>1, <3>1
        <3>3. EnabledTo(8)'
            BY <1>0, <1>2, <1>6, <1>10, <2>3 DEF EnabledTo, Slots, HideSlots
        <3> QED
            BY <1>8, <3>2, <3>3, EnableNext
    <2> QED
        BY <1>3, <2>2, <2>3
<1> QED
    BY <1>9, <1>10

\* ksu_lsm_hook(), and the end of ksu_selinux_hide_enable().
LEMMA EnableLsm ==
    ASSUME HooksInv, phase = "live", NEW k \in 1..11, EnableAt(k),
           LsmTrack("ioctl") \/ ksu_lsm_hook_patch_slot("ioctl") \/ LsmSet("ioctl") \/ SetRunning("ioctl")
    PROVE  HooksInv'
<1> USE DEF envVars, tableVars, lsmVars, regVars, hideVars, callVars
<1>1. /\ Tail(work["ioctl"]) = From(k + 1) /\ Arg("ioctl") = ksu_selinux_hide_enable[k][2]
      /\ \A name : Step("ioctl", name) => name = ksu_selinux_hide_enable[k][1]
    BY EnableHead
<1>2. EnabledTo(k)
    BY DEF EnableAt
<1>3. /\ \A s \in TableSlots : s \in Slots /\ s # "setprocattr"
      /\ \A s \in HideAll : s \in Slots /\ s \in {"context_write", "access_write", "setprocattr"}
    BY DEF TableSlots, HideAll, HideSlots, Slots
<1>4. CASE LsmTrack("ioctl")
    <2>1. k = 8
        BY <1>1, <1>4, EnableStepAt DEF LsmTrack
    <2>2. UNCHANGED <<envVars, slot, orig, tableVars, lsm_entry, regVars, hideVars, enforcing, phase, callVars>>
        BY <1>4 DEF LsmTrack
    <2>3. lsm_tracked' \in BOOLEAN
        BY <1>4 DEF LsmTrack, HooksInv, TypeOK
    <2>4. TypeOK'
        BY <2>2, <2>3 DEF HooksInv, TypeOK
    <2>5. IoctlOnly
        BY <2>2, <2>4 DEF IoctlOnly, HooksInv, TableInv
    <2>6. CASE work' = [work EXCEPT !["ioctl"] = ksu_selinux_hide_unhook]
        <3>1. k \in 1..9
            BY <2>1
        <3> QED
            BY <2>2, <2>5, <2>6, <3>1, EnableFails
    <2>7. CASE work' = [work EXCEPT !["ioctl"] = Tail(work["ioctl"])]
        <3>1. k + 1 = 9
            BY <2>1
        <3>2. work' = [work EXCEPT !["ioctl"] = From(9)]
            BY <1>1, <2>7, <3>1
        <3>3. EnabledTo(9)'
            BY <1>2, <2>1, <2>2 DEF EnabledTo
        <3> QED
            BY <2>5, <3>2, <3>3, EnableNext
    <2> QED
        BY <1>4, <2>6, <2>7 DEF LsmTrack, Done
<1>5. CASE ksu_lsm_hook_patch_slot("ioctl")
    <2>1. k = 9
        BY <1>1, <1>5, EnableStepAt DEF ksu_lsm_hook_patch_slot
    <2>2. UNCHANGED <<envVars, orig, tableVars, lsm_entry, regVars, hideVars, enforcing, phase, callVars>>
        BY <1>5 DEF ksu_lsm_hook_patch_slot
    <2>3. lsm_tracked' \in BOOLEAN
        BY <1>5 DEF ksu_lsm_hook_patch_slot, HooksInv, TypeOK
    <2>4. /\ slot' \in [Slots -> {"kernel", "ksu"}]
          /\ \A p \in Slots : p # "setprocattr" => slot'[p] = slot[p]
          /\ "setprocattr" \notin unmapped => slot'["setprocattr"] = "ksu"
          /\ "setprocattr" \in unmapped => slot'["setprocattr"] = slot["setprocattr"]
          /\ \A p \in Slots : slot'[p] = "ksu" => p \notin unmapped
        <3>1. ksu_patch_text("setprocattr", "ksu") /\ "setprocattr" \in Slots
            BY <1>5 DEF ksu_lsm_hook_patch_slot, Slots
        <3> QED
            BY <2>2, <3>1, PatchIs
    <2>5. TypeOK'
        BY <2>2, <2>3, <2>4 DEF HooksInv, TypeOK
    <2>6. IoctlOnly
        BY <1>3, <2>2, <2>4, <2>5 DEF IoctlOnly
    <2>7. CASE "setprocattr" \in unmapped
        <3>1. k \in 1..9
            BY <2>1
        <3>2. work' = [work EXCEPT !["ioctl"] = ksu_selinux_hide_unhook]
            BY <1>5, <2>7 DEF ksu_lsm_hook_patch_slot
        <3>3. \A s \in HideAll : slot'[s] = slot[s] /\ orig'[s] = orig[s]
            BY <1>3, <2>2, <2>4, <2>7
        <3> QED
            BY <2>2, <2>6, <3>1, <3>2, <3>3, EnableFails
    <2>8. CASE "setprocattr" \notin unmapped
        <3>1. k + 1 = 10
            BY <2>1
        <3>2. work' = [work EXCEPT !["ioctl"] = From(10)]
            <4>1. work' = [work EXCEPT !["ioctl"] = Tail(work["ioctl"])]
                BY <1>5, <2>8 DEF ksu_lsm_hook_patch_slot, Done
            <4> QED
                BY <1>1, <3>1, <4>1
        <3>3. EnabledTo(10)'
            BY <1>2, <2>1, <2>2, <2>4, <2>8 DEF EnabledTo, Slots, HideSlots
        <3> QED
            BY <2>6, <3>2, <3>3, EnableNext
    <2> QED
        BY <2>7, <2>8
<1>6. CASE LsmSet("ioctl")
    <2>1. k = 10
        BY <1>1, <1>6, EnableStepAt DEF LsmSet
    <2>2. /\ UNCHANGED <<envVars, slot, tableVars, lsm_tracked, regVars, hideVars, enforcing, phase, callVars>>
          /\ lsm_entry' = TRUE
        BY <1>6 DEF LsmSet
    <2>3. /\ orig' \in [Slots -> {"kernel", "ksu", None}]
          /\ \A p \in Slots : p # "setprocattr" => orig'[p] = orig[p]
        BY <1>6 DEF LsmSet, HooksInv, TypeOK
    <2>4. TypeOK'
        BY <2>2, <2>3 DEF HooksInv, TypeOK
    <2>5. IoctlOnly
        BY <1>3, <2>2, <2>3, <2>4 DEF IoctlOnly, HooksInv, TableInv
    <2>6. k + 1 = 11
        BY <2>1
    <2>7. work' = [work EXCEPT !["ioctl"] = From(11)]
        <3>1. work' = [work EXCEPT !["ioctl"] = Tail(work["ioctl"])]
            BY <1>6 DEF LsmSet, Done
        <3> QED
            BY <1>1, <2>6, <3>1
    <2>8. EnabledTo(11)'
        BY <1>2, <2>1, <2>2, <2>3 DEF EnabledTo, Slots, HideSlots
    <2> QED
        BY <2>5, <2>7, <2>8, EnableNext
<1>7. CASE SetRunning("ioctl")
    <2>1. k = 11 /\ Arg("ioctl") = TRUE
        BY <1>1, <1>7, EnableStepAt DEF SetRunning
    <2>2. /\ UNCHANGED <<envVars, slot, orig, tableVars, lsmVars, regVars, enabled, backup, fake,
                         fake_key, enforcing, phase, sets, callVars>>
          /\ running' = TRUE
        BY <1>7, <2>1 DEF SetRunning
    <2>3. TypeOK'
        BY <2>2 DEF HooksInv, TypeOK
    <2>4. IoctlOnly
        BY <2>2, <2>3 DEF IoctlOnly, HooksInv, TableInv
    <2>5. k + 1 = 12 /\ From(12) = <<>>
        BY <2>1, FromIs
    <2>6. work' = [work EXCEPT !["ioctl"] = <<>>]
        <3>1. work' = [work EXCEPT !["ioctl"] = Tail(work["ioctl"])]
            BY <1>7 DEF SetRunning, Done
        <3> QED
            BY <1>1, <2>5, <3>1
    <2>7. backup
        BY <1>2, <2>1 DEF EnabledTo
    <2>8. On'
        BY <1>2, <2>1, <2>2 DEF On, EnabledTo, HideAll, HideSlots
    <2>9. <<>> \in Seq(Steps)
        OBVIOUS
    <2> QED
        BY <2>2, <2>4, <2>6, <2>7, <2>8, <2>9, IoctlStep
<1> QED
    BY <1>4, <1>5, <1>6, <1>7

LEMMA LiveWorks ==
    ASSUME HooksInv, phase = "live", NEW t \in Threads, Works(t)
    PROVE  HooksInv'
<1>1. \A name : ~Step("life", name)
    BY DEF HooksInv, OrderInv, Step
<1>2. t = "ioctl"
    BY <1>1 DEF Threads, Works, ksu_find_ni_syscall_slots, TableRecord, patch_syscall_table, RestoreTable,
                ClearHooks, RouteHook, TraceHook, ProbeHook, FeatureHandler, FakeInit, FakeFree,
                hook_selinux_status_open, PatchStatus, CheckEnable, SaveSlot, PatchSlot, RestoreSlot,
                LsmTrack, ksu_lsm_hook_patch_slot, LsmSet, LsmRestore, LsmUntrack, SetRunning, Rules
<1>3. \E name : Step("ioctl", name)
    BY <1>2 DEF Works, ksu_find_ni_syscall_slots, TableRecord, patch_syscall_table, RestoreTable,
                ClearHooks, RouteHook, TraceHook, ProbeHook, FeatureHandler, FakeInit, FakeFree,
                hook_selinux_status_open, PatchStatus, CheckEnable, SaveSlot, PatchSlot, RestoreSlot,
                LsmTrack, ksu_lsm_hook_patch_slot, LsmSet, LsmRestore, LsmUntrack, SetRunning, Rules
<1>4. work["ioctl"] # <<>>
    BY <1>3 DEF Step
<1>5. ASSUME NEW k \in 1..11, EnableAt(k)
      PROVE  HooksInv'
    <2>1. \A name : Step("ioctl", name) => name \in EnableNames \cup StatusNames \cup {"running"}
        BY <1>5, EnableHead, EnableStepAt
    <2>2. ~(\/ ksu_find_ni_syscall_slots(t) \/ TableRecord(t) \/ patch_syscall_table(t) \/ FakeInit(t)
            \/ RestoreTable(t) \/ ClearHooks(t) \/ RouteHook(t) \/ TraceHook(t) \/ ProbeHook(t)
            \/ FeatureHandler(t) \/ FakeFree(t) \/ RestoreSlot(t) \/ LsmRestore(t) \/ LsmUntrack(t) \/ Rules(t))
        BY <1>2, <2>1 DEF EnableNames, StatusNames, ksu_find_ni_syscall_slots, TableRecord,
              patch_syscall_table, FakeInit, RestoreTable, ClearHooks, RouteHook, TraceHook, ProbeHook,
              FeatureHandler, FakeFree, RestoreSlot, LsmRestore, LsmUntrack, Rules
    <2> QED
        BY <1>2, <1>5, <2>2, EnableStart, EnablePatch, EnableLsm DEF Works
<1>6. ASSUME UnhookAt
      PROVE  HooksInv'
    <2> DEFINE q == work["ioctl"]
    <2>1. q \in Seq(Steps) /\ Range(q) \subseteq UnhookSteps
        BY <1>6 DEF HooksInv, WorkTypes, UnhookAt, Threads
    <2>2. q[1] \in UnhookSteps
        BY <1>4, <2>1, TailRange
    <2>3. q[1][1] \in {"lsm_restore", "lsm_untrack", "running", "restore"}
        <3> DEFINE R == <<"running", FALSE>>
        <3>1. R[1] = "running"
            OBVIOUS
        <3>2. \/ q[1] = R \/ q[1] \in {<<"lsm_restore">>, <<"lsm_untrack">>}
              \/ q[1] \in {"restore"} \X (HideSlots \cup {"status_open"})
            BY <2>2 DEF UnhookSteps
        <3> HIDE DEF R, q
        <3> QED
            BY <3>1, <3>2
    <2>4. \A name : Step("ioctl", name) => name \in {"lsm_restore", "lsm_untrack", "running", "restore"}
        BY <2>3, StepIs DEF Threads
    <2>5. RestoreSlot("ioctl") \/ LsmRestore("ioctl") \/ LsmUntrack("ioctl") \/ SetRunning("ioctl")
        BY <1>2, <2>4 DEF Works, ksu_find_ni_syscall_slots, TableRecord, patch_syscall_table, RestoreTable,
                ClearHooks, RouteHook, TraceHook, ProbeHook, FeatureHandler, FakeInit, FakeFree,
                hook_selinux_status_open, PatchStatus, CheckEnable, SaveSlot, PatchSlot,
                LsmTrack, ksu_lsm_hook_patch_slot, LsmSet, Rules
    <2> QED
        BY <1>4, <1>6, <2>5, UnhookWorks
<1> QED
    BY <1>4, <1>5, <1>6 DEF HooksInv, HideInv

-----------------------------------------------------------------------------
(* The other events                                                        *)

LEMMA HideKept ==
    ASSUME HooksInv, \A s \in HideAll : slot'[s] = slot[s] /\ orig'[s] = orig[s], lsm_entry' = lsm_entry,
           running' = running, work' = work, phase' = phase, running' => backup',
           backup' = backup \/ work["ioctl"] = <<>>
    PROVE  HideInv'
<1>1. /\ \A s \in HideSlots : s \in HideAll
      /\ {"context_write", "access_write", "setprocattr"} \subseteq HideAll
    BY DEF HideAll, HideSlots
<1>2. On' <=> On
    BY <1>1 DEF On
<1>3. Off' <=> Off
    BY DEF Off
<1>4. phase = "init" => Off'
    BY <1>3 DEF HooksInv, HideInv
<1>5. ASSUME phase = "live", NEW k \in 1..11, EnableAt(k)
      PROVE  EnableAt(k)'
    <2>1. work["ioctl"] # <<>>
        BY <1>5, EnableHead
    <2> QED
        BY <1>1, <1>5, <2>1 DEF EnableAt, EnabledTo
<1>6. UnhookAt => UnhookAt'
    BY <1>1 DEF UnhookAt, Unhooking
<1>7. phase = "exit" => Unhooking(work["life"])'
    BY <1>1 DEF HooksInv, HideInv, Unhooking
<1>8. ASSUME phase = "live"
      PROVE  \/ work'["ioctl"] = <<>> /\ (On \/ Off)'
             \/ \E k \in 1..11 : EnableAt(k)'
             \/ work'["ioctl"] # <<>> /\ UnhookAt'
    BY <1>2, <1>3, <1>5, <1>6, <1>8 DEF HooksInv, HideInv
<1> QED
    BY <1>4, <1>7, <1>8 DEF HideInv

\* An event that leaves the slots and the steps of the threads alone.
LEMMA StillStep ==
    ASSUME HooksInv, phase \in Before, TypeOK', probes' \subseteq probes,
           UNCHANGED <<envVars, slot, orig, tableVars, lsmVars, running, work, phase, callVars>>,
           enforcing' \in {None, "permissive", "enforcing"}, running' => backup',
           backup' = backup \/ work["ioctl"] = <<>>
    PROVE  HooksInv'
<1> USE DEF envVars, tableVars, lsmVars, callVars
<1>1. WorkTypes' /\ OrderInv'
    <2>1. OrderInv'
        BY DEF HooksInv, OrderInv, InitOrder, ExitOrder
    <2> QED
        BY <2>1 DEF HooksInv, WorkTypes
<1>2. TableInv'
    BY TableKept DEF HooksInv, TableInv
<1>3. RouteInv'
    BY RouteKept DEF HooksInv, Before
<1>4. PendingInv'
    BY BeforePends DEF HooksInv, PendingInv, Before
<1>5. HideInv'
    BY HideKept
<1> QED
    BY <1>1, <1>2, <1>3, <1>4, <1>5 DEF HooksInv

LEMMA SecondStageKeeps ==
    ASSUME HooksInv, SecondStage
    PROVE  HooksInv'
<1>1. late \in BOOLEAN
    BY DEF HooksInv, TypeOK
<1>2. fake' \in {None, "permissive", "enforcing"}
    BY <1>1, FakeTyped DEF SecondStage
<1>3. fake_key' \in BOOLEAN /\ backup' \in BOOLEAN
    BY DEF SecondStage
<1>4. UNCHANGED <<envVars, slot, orig, tableVars, lsmVars, regVars, enabled, running, enforcing, work, phase, callVars>>
    BY DEF SecondStage
<1>5. TypeOK'
    BY <1>2, <1>3, <1>4 DEF HooksInv, TypeOK, envVars, tableVars, lsmVars, regVars, callVars
<1>6. phase \in Before /\ ~running' /\ work["ioctl"] = <<>>
    BY <1>4 DEF SecondStage, Before
<1>7. probes' \subseteq probes /\ enforcing' \in {None, "permissive", "enforcing"}
    BY <1>4 DEF HooksInv, WorkTypes, regVars
<1> QED
    BY <1>4, <1>5, <1>6, <1>7, StillStep

LEMMA PostFsDataKeeps ==
    ASSUME HooksInv, on_post_fs_data
    PROVE  HooksInv'
<1>1. UNCHANGED <<envVars, slot, orig, tableVars, lsmVars, feature_handlers, enabled, running,
                  backup, fake, enforcing, work, phase, callVars>>
    BY DEF on_post_fs_data
<1>2. fake_key' = FALSE /\ probes' \subseteq probes /\ phase \in Before
    BY DEF on_post_fs_data, Before
<1>3. TypeOK'
    BY <1>1, <1>2 DEF HooksInv, TypeOK, envVars, tableVars, lsmVars, regVars, callVars
<1>4. enforcing' \in {None, "permissive", "enforcing"} /\ (running' => backup')
    BY <1>1 DEF HooksInv, WorkTypes, HideInv
<1> QED
    BY <1>1, <1>2, <1>3, <1>4, StillStep

LEMMA DropBackupKeeps ==
    ASSUME HooksInv, ksu_selinux_hide_drop_backup_if_unused
    PROVE  HooksInv'
<1>1. UNCHANGED <<envVars, slot, orig, tableVars, lsmVars, regVars, enabled, running, fake,
                  fake_key, enforcing, work, phase, callVars>>
    BY DEF ksu_selinux_hide_drop_backup_if_unused
<1>2. ~running /\ backup' = FALSE /\ phase \in Before /\ work["ioctl"] = <<>>
    BY DEF ksu_selinux_hide_drop_backup_if_unused, Before
<1>3. TypeOK'
    BY <1>1, <1>2 DEF HooksInv, TypeOK, envVars, tableVars, lsmVars, regVars, callVars
<1>4. enforcing' \in {None, "permissive", "enforcing"} /\ ~running' /\ probes' \subseteq probes
    BY <1>1, <1>2 DEF HooksInv, WorkTypes, regVars
<1> QED
    BY <1>1, <1>2, <1>3, <1>4, StillStep

LEMMA StatusChangesKeeps ==
    ASSUME HooksInv, StatusChanges
    PROVE  HooksInv'
<1>1. /\ UNCHANGED <<envVars, slot, orig, tableVars, lsmVars, regVars, hideVars, work, phase, callVars>>
      /\ enforcing' \in {None, "permissive", "enforcing"} /\ phase \in Before
    BY DEF StatusChanges, Before
<1>2. TypeOK'
    BY <1>1 DEF HooksInv, TypeOK, envVars, tableVars, lsmVars, regVars, hideVars, callVars
<1>3. (running' => backup') /\ probes' \subseteq probes
    BY <1>1 DEF HooksInv, HideInv, regVars, hideVars
<1> QED
    BY <1>1, <1>2, <1>3, StillStep DEF hideVars

\* A call through a slot.
LEMMA CallStep ==
    ASSUME HooksInv, TypeOK', RouteInv', nullCall' \cap TableSlots = {}, DOMAIN call' = Tasks,
           UNCHANGED <<envVars, slot, orig, tableVars, lsmVars, regVars, enabled, running, backup, fake_key,
                       enforcing, work, phase>>
    PROVE  HooksInv'
<1> USE DEF envVars, tableVars, lsmVars, regVars
<1>1. OrderInv' /\ WorkTypes'
    <2>1. OrderInv'
        BY DEF HooksInv, OrderInv, InitOrder, ExitOrder
    <2> QED
        BY <2>1 DEF HooksInv, WorkTypes
<1>2. TableInv'
    BY DEF HooksInv, TableInv, EntriesExact, Patches, Found
<1>3. PendingInv'
    BY DEF HooksInv, PendingInv, UnloadClean
<1>4. HideInv'
    BY HideKept DEF HooksInv, HideInv
<1> QED
    BY <1>1, <1>2, <1>3, <1>4 DEF HooksInv

\* A task whose call is over, or has begun, is the only one that changes.
LEMMA CallsBut ==
    ASSUME HooksInv, NEW t \in Tasks, NEW c, call' = [call EXCEPT ![t] = c]
    PROVE  DOMAIN call' = Tasks /\ call'[t] = c /\ \A u \in Tasks : u # t => call'[u] = call[u]
BY DEF HooksInv, WorkTypes

LEMMA RedirectedKeeps ==
    ASSUME HooksInv, NEW t \in Tasks, NEW nr, ksu_sys_enter_handler(t, nr)
    PROVE  HooksInv'
<1> DEFINE c == <<"redirected", nr>>
<1> USE DEF envVars, tableVars, lsmVars, regVars, hideVars
<1>1. /\ UNCHANGED <<envVars, slot, orig, tableVars, lsmVars, regVars, hideVars, enforcing, work,
                     phase, enosys, nullCall>>
      /\ tracepoint /\ dispatcher /\ nr \in syscall_hooks /\ call' = [call EXCEPT ![t] = c]
    BY DEF ksu_sys_enter_handler
<1>2. DOMAIN call' = Tasks /\ call'[t] = c /\ \A u \in Tasks : u # t => call'[u] = call[u]
    BY <1>1, CallsBut
<1>3. nr \in Nrs
    BY <1>1 DEF HooksInv, TypeOK
<1>4. c \in {"redirected"} \X Nrs /\ \A s : c # <<"inside", s>>
    BY <1>3
<1>5. \A m : c = <<"redirected", m>> => m = nr
    OBVIOUS
<1> HIDE DEF c
<1>6. phase \in Before => slot["ni"] = "ksu" \/ "ni" \in unmapped
    BY <1>1 DEF HooksInv, RouteInv, Before
<1>7. RouteInv'
    <2>1. \A u \in Tasks : \/ call'[u] = None
                           \/ call'[u] \in {"redirected"} \X Nrs
                           \/ call'[u] \in {"inside"} \X (Slots \ {"ni"})
        BY <1>2, <1>4 DEF HooksInv, RouteInv
    <2>2. \A u \in Tasks, s \in TableSlots : call'[u] # None /\ call'[u] = <<"inside", s>> => orig'[s] # None
        BY <1>1, <1>2, <1>4 DEF HooksInv, RouteInv
    <2>3. ASSUME phase' \in Before, NEW u \in Tasks, NEW m \in Nrs, call'[u] # None, call'[u] = <<"redirected", m>>
          PROVE  m \in syscall_hooks' /\ (slot'["ni"] = "ksu" \/ "ni" \in unmapped')
        <3>1. CASE u = t
            BY <1>1, <1>2, <1>5, <1>6, <2>3, <3>1
        <3>2. CASE u # t
            BY <1>1, <1>2, <2>3, <3>2 DEF HooksInv, RouteInv, Before
        <3> QED
            BY <3>1, <3>2
    <2>4. RedirectedIsServed' /\ (dispatcher' => Found("sys_call_table")')
        BY <1>1 DEF HooksInv, RouteInv, RedirectedIsServed, Found
    <2>5. phase' \in {"init", "live"} =>
              /\ tracepoint' => {<<"find_slot">>, <<"patch_table", "ni">>} \cap Range(work'["life"]) = {}
              /\ dispatcher' /\ <<"patch_table", "ni">> \notin Range(work'["life"]) =>
                    slot'["ni"] = "ksu" \/ "ni" \in unmapped'
        BY <1>1 DEF HooksInv, RouteInv
    <2> QED
        BY <2>1, <2>2, <2>3, <2>4, <2>5 DEF RouteInv, Before
<1>8. TypeOK'
    BY <1>1 DEF HooksInv, TypeOK
<1>9. nullCall' \cap TableSlots = {}
    BY <1>1 DEF HooksInv, TableInv, EntriesExact
<1> QED
    BY <1>1, <1>2, <1>7, <1>8, <1>9, CallStep

\* A call that begins or ends elsewhere keeps RouteInv.
LEMMA CallRoute ==
    ASSUME HooksInv, NEW t \in Tasks, NEW c, call' = [call EXCEPT ![t] = c],
           c = None \/ (c \in {"inside"} \X (Slots \ {"ni"}) /\ \A s \in TableSlots : c = <<"inside", s>> => orig[s] # None),
           UNCHANGED <<envVars, slot, orig, tableVars, work, phase>>, RedirectedIsServed'
    PROVE  RouteInv'
<1> USE DEF envVars, tableVars
<1>1. call'[t] = c /\ \A u \in Tasks : u # t => call'[u] = call[u]
    BY CallsBut
<1>2. c # None => \A m : c # <<"redirected", m>>
    OBVIOUS
<1>3. \A u \in Tasks : \/ call'[u] = None
                       \/ call'[u] \in {"redirected"} \X Nrs
                       \/ call'[u] \in {"inside"} \X (Slots \ {"ni"})
    BY <1>1 DEF HooksInv, RouteInv
<1>4. \A u \in Tasks, s \in TableSlots : call'[u] # None /\ call'[u] = <<"inside", s>> => orig'[s] # None
    BY <1>1 DEF HooksInv, RouteInv
<1>5. ASSUME phase' \in {"init", "live"}, NEW u \in Tasks, NEW m \in Nrs, call'[u] # None, call'[u] = <<"redirected", m>>
      PROVE  m \in syscall_hooks' /\ (slot'["ni"] = "ksu" \/ "ni" \in unmapped')
    <2>1. u # t
        BY <1>1, <1>2, <1>5
    <2> QED
        BY <1>1, <1>5, <2>1 DEF HooksInv, RouteInv
<1>6. phase' \in {"init", "live"} =>
          /\ tracepoint' => {<<"find_slot">>, <<"patch_table", "ni">>} \cap Range(work'["life"]) = {}
          /\ dispatcher' /\ <<"patch_table", "ni">> \notin Range(work'["life"]) =>
                slot'["ni"] = "ksu" \/ "ni" \in unmapped'
    BY DEF HooksInv, RouteInv
<1>7. dispatcher' => Found("sys_call_table")'
    BY DEF HooksInv, RouteInv, Found
<1> QED
    BY <1>3, <1>4, <1>5, <1>6, <1>7 DEF RouteInv

LEMMA DispatcherKeeps ==
    ASSUME HooksInv, NEW t \in Tasks, ksu_syscall_dispatcher(t)
    PROVE  HooksInv'
<1> USE DEF envVars, tableVars, lsmVars, regVars, hideVars
<1>1. /\ UNCHANGED <<envVars, slot, orig, tableVars, lsmVars, regVars, hideVars, enforcing, work,
                     phase, nullCall>>
      /\ call[t] # None /\ call[t][1] = "redirected" /\ call' = [call EXCEPT ![t] = None]
      /\ enosys' = (enosys \/ slot["ni"] # "ksu" \/ call[t][2] \notin syscall_hooks)
    BY DEF ksu_syscall_dispatcher
<1>2. call[t] \in {"redirected"} \X Nrs
    BY <1>1 DEF HooksInv, RouteInv
<1>3. PICK nr \in Nrs : call[t] = <<"redirected", nr>> /\ call[t][2] = nr
    BY <1>2
<1>4. phase \in {"init", "live"} => nr \in syscall_hooks /\ (slot["ni"] = "ksu" \/ "ni" \in unmapped)
    BY <1>1, <1>3 DEF HooksInv, RouteInv
<1>5. RedirectedIsServed'
    <2>1. phase \in {"init", "live", "exit", "gone"}
        BY DEF HooksInv, WorkTypes
    <2>2. enosys => phase \in {"exit", "gone"} \/ "ni" \in unmapped
        BY DEF HooksInv, RouteInv, RedirectedIsServed
    <2> QED
        BY <1>1, <1>3, <1>4, <2>1, <2>2 DEF RedirectedIsServed
<1>6. RouteInv'
    BY <1>1, <1>5, CallRoute
<1>7. enosys' \in BOOLEAN
    BY <1>1
<1>8. TypeOK'
    BY <1>1, <1>7 DEF HooksInv, TypeOK
<1>9. nullCall' \cap TableSlots = {} /\ DOMAIN call' = Tasks
    BY <1>1, CallsBut DEF HooksInv, TableInv, EntriesExact
<1> QED
    BY <1>1, <1>6, <1>8, <1>9, CallStep

LEMMA EnterKeeps ==
    ASSUME HooksInv, NEW t \in Tasks, NEW s \in Slots, Enter(t, s)
    PROVE  HooksInv'
<1> USE DEF envVars, tableVars, lsmVars, regVars, hideVars
<1> DEFINE c == <<"inside", s>>
<1>1. /\ UNCHANGED <<envVars, slot, orig, tableVars, lsmVars, regVars, hideVars, enforcing, work,
                     phase, enosys, nullCall>>
      /\ slot[s] = "ksu" /\ s # "ni" /\ call' = [call EXCEPT ![t] = c]
    BY DEF Enter
<1>2. c \in {"inside"} \X (Slots \ {"ni"}) /\ \A p : c = <<"inside", p>> => p = s
    BY <1>1
<1> HIDE DEF c
<1>3. \A p \in TableSlots : c = <<"inside", p>> => orig[p] # None
    BY <1>1, <1>2 DEF HooksInv, TableInv, EntriesExact, None
<1>4. RedirectedIsServed'
    BY <1>1 DEF HooksInv, RouteInv, RedirectedIsServed
<1>5. RouteInv'
    BY <1>1, <1>2, <1>3, <1>4, CallRoute
<1>6. TypeOK'
    BY <1>1 DEF HooksInv, TypeOK
<1>7. nullCall' \cap TableSlots = {} /\ DOMAIN call' = Tasks
    BY <1>1, CallsBut DEF HooksInv, TableInv, EntriesExact
<1> QED
    BY <1>1, <1>5, <1>6, <1>7, CallStep

LEMMA CallOriginalKeeps ==
    ASSUME HooksInv, NEW t \in Tasks, CallOriginal(t)
    PROVE  HooksInv'
<1> USE DEF envVars, tableVars, lsmVars, regVars
<1>1. /\ UNCHANGED <<envVars, slot, orig, tableVars, lsmVars, regVars, enabled, running, backup,
                     fake_key, enforcing, work, phase, enosys>>
      /\ call[t] # None /\ call[t][1] = "inside" /\ call' = [call EXCEPT ![t] = None]
      /\ nullCall' = IF orig[call[t][2]] = None THEN nullCall \cup {call[t][2]} ELSE nullCall
      /\ initialize_fake_status \/ fake' = fake
    BY DEF CallOriginal
<1>2. call[t] \in {"inside"} \X (Slots \ {"ni"})
    BY <1>1 DEF HooksInv, RouteInv
<1>3. PICK s \in Slots : call[t] = <<"inside", s>> /\ call[t][2] = s
    BY <1>2
<1>4. s \in TableSlots => orig[s] # None
    BY <1>1, <1>3 DEF HooksInv, RouteInv
<1>5. nullCall' \cap TableSlots = {}
    BY <1>1, <1>3, <1>4 DEF HooksInv, TableInv, EntriesExact
<1>6. RedirectedIsServed'
    BY <1>1 DEF HooksInv, RouteInv, RedirectedIsServed
<1>7. RouteInv' /\ DOMAIN call' = Tasks
    BY <1>1, <1>6, CallRoute, CallsBut
<1>8. late \in BOOLEAN /\ fake \in {None, "permissive", "enforcing"}
    BY DEF HooksInv, TypeOK
<1>9. fake' \in {None, "permissive", "enforcing"}
    BY <1>1, <1>8, FakeTyped
<1>10. TypeOK'
    BY <1>1, <1>9 DEF HooksInv, TypeOK
<1> QED
    BY <1>1, <1>5, <1>7, <1>10, CallStep

\* The entry that is dropped is replaced by the last one.
LEMMA SwapDrop ==
    ASSUME NEW S, NEW h \in Seq(S), IsInjective(h), NEW i \in 1..Len(h),
           NEW g, g = Front([h EXCEPT ![i] = h[Len(h)]])
    PROVE  g \in Seq(S) /\ IsInjective(g) /\ Range(g) = Range(h) \ {h[i]}
<1> DEFINE n == Len(h)
           m == [h EXCEPT ![i] = h[n]]
<1>1. n \in Nat /\ n \in 1..n /\ n - 1 \in 0..n
    BY LenProperties
<1>2. m \in Seq(S) /\ Len(m) = n /\ \A j \in 1..n : m[j] = IF j = i THEN h[n] ELSE h[j]
    BY <1>1, ExceptSeq, ElementOfSeq
<1> HIDE DEF n, m
<1>3. g = SubSeq(m, 1, n - 1)
    BY <1>2 DEF Front, m, n
<1>4. \A j \in 1..(n - 1) : m[j] \in S
    BY <1>1, <1>2, ElementOfSeq
<1>5. g \in Seq(S) /\ Len(g) = n - 1 /\ \A j \in 1..(n - 1) : g[j] = m[j]
    <2>1. n - 1 \in 0..Len(m) /\ 1 \in 1 .. Len(m) + 1 /\ n - 1 \in 1 - 1 .. Len(m)
        BY <1>1, <1>2
    <2>2. /\ SubSeq(m, 1, n - 1) \in Seq(S)
          /\ Len(SubSeq(m, 1, n - 1)) = IF 1 <= n - 1 THEN (n - 1) - 1 + 1 ELSE 0
          /\ \A j \in 1 .. (n - 1) - 1 + 1 : SubSeq(m, 1, n - 1)[j] = m[1 + j - 1]
        BY <1>1, <1>2, <1>4, SubSeqProperties
    <2>3. \A j \in 1..(n - 1) : j \in 1 .. (n - 1) - 1 + 1 /\ 1 + j - 1 = j
        BY <1>1
    <2>4. Len(SubSeq(m, 1, n - 1)) = n - 1
        BY <2>2, <1>1
    <2> QED
        BY <1>3, <2>2, <2>3, <2>4
<1>6. \A j \in 1..(n - 1) : j \in 1..n /\ j # n /\ g[j] = IF j = i THEN h[n] ELSE h[j]
    <2>1. \A j \in 1..(n - 1) : j \in 1..n /\ j # n
        BY <1>1
    <2>2. \A j \in 1..(n - 1) : m[j] = IF j = i THEN h[n] ELSE h[j]
        BY <1>2, <2>1
    <2> QED
        BY <1>5, <2>1, <2>2
<1>7. \A j, k \in 1..n : h[j] = h[k] => j = k
    BY DEF IsInjective, n
<1>8. i \in 1..n
    BY DEF n
<1>9. ASSUME NEW j \in 1..(n - 1), NEW k \in 1..(n - 1), g[j] = g[k]
      PROVE  j = k
    BY <1>1, <1>6, <1>7, <1>8, <1>9
<1>10. DOMAIN g = 1..(n - 1)
    BY <1>5
<1>11. IsInjective(g)
    BY <1>9, <1>10 DEF IsInjective
<1>12. /\ \A y : y \in Range(h) <=> \E j \in 1..n : h[j] = y
       /\ \A y : y \in Range(g) <=> \E j \in 1..(n - 1) : g[j] = y
    <2>1. \A y : y \in Range(h) <=> \E j \in 1..n : h[j] = y
        BY RangeIs DEF n
    <2>2. g \in Seq(S) /\ 1..Len(g) = 1..(n - 1)
        BY <1>5
    <2>3. \A y : y \in Range(g) <=> \E j \in 1..Len(g) : g[j] = y
        BY <2>2, RangeIs
    <2> QED
        BY <2>1, <2>2, <2>3
<1>13. \A y \in Range(g) : y \in Range(h) /\ y # h[i]
    <2> SUFFICES ASSUME NEW j \in 1..(n - 1)
                 PROVE  g[j] \in Range(h) /\ g[j] # h[i]
        BY <1>12
    <2>1. j \in 1..n /\ j # n /\ n \in 1..n
        BY <1>1, <1>6
    <2>2. CASE j = i
        <3>1. g[j] = h[n] /\ n # i
            BY <1>6, <2>1, <2>2
        <3> QED
            BY <1>7, <1>8, <1>12, <2>1, <3>1
    <2>3. CASE j # i
        <3>1. g[j] = h[j]
            BY <1>6, <2>3
        <3> QED
            BY <1>7, <1>8, <1>12, <2>1, <2>3, <3>1
    <2> QED
        BY <2>2, <2>3
<1>14. ASSUME NEW j \in 1..n, h[j] # h[i]
       PROVE  h[j] \in Range(g)
    <2>1. CASE j # n
        <3>1. j \in 1..(n - 1) /\ j # i
            BY <1>1, <1>14, <2>1
        <3>2. g[j] = h[j]
            BY <1>6, <3>1
        <3> QED
            BY <1>12, <3>1, <3>2
    <2>2. CASE j = n
        <3>1. i # n /\ i \in 1..(n - 1)
            BY <1>1, <1>8, <1>14, <2>2
        <3>2. g[i] = h[n]
            BY <1>6, <3>1
        <3> QED
            BY <1>12, <2>2, <3>1, <3>2
    <2> QED
        BY <2>1, <2>2
<1>15. \A y \in Range(h) : y # h[i] => y \in Range(g)
    BY <1>12, <1>14
<1> QED
    BY <1>5, <1>11, <1>13, <1>15

LEMMA TableUnhookKeeps ==
    ASSUME HooksInv, NEW s \in TableSlots, ksu_syscall_table_unhook(s)
    PROVE  HooksInv'
<1> USE DEF envVars, lsmVars, regVars, hideVars, callVars
<1>1. /\ UNCHANGED <<envVars, orig, syscall_hooks, dispatcher, tracepoint, lsmVars, regVars,
                     hideVars, enforcing, work, phase, callVars>>
      /\ UnhookMayRun(s) /\ ksu_patch_text(s, "kernel")
    BY DEF ksu_syscall_table_unhook
<1>2. /\ phase \in Before /\ s \in {"read", "fstat"} /\ s \in Range(hooked_entries)
      /\ ~Step("life", "patch_table") /\ s \in Slots
    BY <1>1 DEF UnhookMayRun, Before, Slots
<1>3. hooked_entries \in Seq(TableSlots) /\ IsInjective(hooked_entries)
    BY DEF HooksInv, WorkTypes, TableInv, EntriesExact
<1> DEFINE i == CHOOSE k \in DOMAIN hooked_entries : hooked_entries[k] = s
           n == Len(hooked_entries)
<1>4. i \in 1..n /\ hooked_entries[i] = s
    <2>1. DOMAIN hooked_entries = 1..n
        BY <1>3
    <2>2. \E k \in DOMAIN hooked_entries : hooked_entries[k] = s
        BY <1>2 DEF Range
    <2> QED
        BY <2>1, <2>2
<1>5. hooked_entries' = Front([hooked_entries EXCEPT ![i] = hooked_entries[n]])
    BY DEF ksu_syscall_table_unhook
<1> HIDE DEF i
<1>6. /\ hooked_entries' \in Seq(TableSlots) /\ IsInjective(hooked_entries')
      /\ Range(hooked_entries') = Range(hooked_entries) \ {s}
    BY <1>3, <1>4, <1>5, SwapDrop
<1>7. /\ slot' \in [Slots -> {"kernel", "ksu"}]
      /\ \A p \in Slots : p # s => slot'[p] = slot[p]
      /\ slot'[s] = "kernel"
      /\ \A p \in Slots : slot'[p] = "ksu" => p \notin unmapped
    <2>1. /\ slot' \in [Slots -> {"kernel", "ksu"}]
          /\ \A p \in Slots : p # s => slot'[p] = slot[p]
          /\ s \notin unmapped => slot'[s] = "kernel"
          /\ s \in unmapped => slot'[s] = slot[s]
          /\ \A p \in Slots : slot'[p] = "ksu" => p \notin unmapped
        BY <1>1, <1>2, PatchIs
    <2> QED
        BY <1>2, <2>1 DEF HooksInv, TypeOK, TableInv
<1>8. \A p \in TableSlots : p \in Slots
    BY DEF Slots
<1>9. TypeOK'
    BY <1>1, <1>6, <1>7 DEF HooksInv, TypeOK
<1>10. WorkTypes'
    BY <1>1, <1>6 DEF HooksInv, WorkTypes
<1>11. OrderInv'
    BY <1>1 DEF HooksInv, OrderInv, InitOrder, ExitOrder
<1>12. TableInv'
    <2>1. EntriesExact'
        BY <1>1, <1>6, <1>7, <1>8 DEF HooksInv, TableInv, EntriesExact
    <2>2. \A p : ~First(work["life"], <<"patch_table", p>>)
        <3> SUFFICES ASSUME NEW p, First(work["life"], <<"patch_table", p>>)
                     PROVE  FALSE
            OBVIOUS
        <3>1. Head(work["life"]) = work["life"][1] /\ work["life"] # <<>>
            <4>1. work["life"] \in Seq(Steps) /\ work["life"] # <<>>
                BY DEF HooksInv, WorkTypes, Threads, First
            <4> QED
                BY <4>1, TailFacts
        <3> QED
            BY <1>2, <3>1 DEF First, Step
    <2>3. ASSUME NEW p \in TableSlots, <<"record", p>> \in Range(work["life"])
          PROVE  slot'[p] = "kernel"
        <3>1. slot[p] = "kernel"
            BY <1>2, <2>3 DEF HooksInv, TableInv, Before
        <3> QED
            BY <1>7, <1>8, <3>1
    <2> QED
        BY <1>1, <1>7, <2>1, <2>2, <2>3 DEF TableInv
<1>13. RouteInv'
    <2>1. slot'["ni"] = slot["ni"]
        BY <1>2, <1>7 DEF Slots, TableSlots
    <2> QED
        BY <1>1, <1>2, <2>1, RouteKept DEF HooksInv, Before
<1>14. PendingInv'
    BY <1>1, <1>2, BeforePends DEF HooksInv, PendingInv, Before
<1>15. HideInv'
    <2>1. \A p \in HideAll : p \in Slots /\ p # s
        BY <1>2 DEF HideAll, HideSlots, Slots
    <2>2. running' => backup'
        BY <1>1 DEF HooksInv, HideInv
    <2> QED
        BY <1>1, <1>7, <2>1, <2>2, HideKept
<1> QED
    BY <1>9, <1>10, <1>11, <1>12, <1>13, <1>14, <1>15 DEF HooksInv

\* The ioctl sets the feature: nothing, the whole of ksu_selinux_hide_enable() or
\* the whole of ksu_selinux_hide_unhook() is to be done.
LEMMA FeatureSetKeeps ==
    ASSUME HooksInv, NEW v \in BOOLEAN, selinux_hide_feature_set(v)
    PROVE  HooksInv'
<1> USE DEF envVars, tableVars, lsmVars, regVars, callVars
<1>1. /\ UNCHANGED <<envVars, slot, orig, tableVars, lsmVars, regVars, running, backup, fake,
                     fake_key, enforcing, phase, callVars>>
      /\ phase = "live" /\ work["ioctl"] = <<>> /\ enabled' = v
    BY DEF selinux_hide_feature_set
<1>2. running \in BOOLEAN
    BY DEF HooksInv, TypeOK
<1>3. TypeOK'
    BY <1>1 DEF HooksInv, TypeOK
<1>4. IoctlOnly
    BY <1>1, <1>3 DEF IoctlOnly, HooksInv, TableInv
<1>5. running' => backup'
    BY <1>1 DEF HooksInv, HideInv
<1>6. On \/ Off
    <2>1. \A k \in 1..11 : ~EnableAt(k)
        BY <1>1, EnableHead
    <2> QED
        BY <1>1, <2>1 DEF HooksInv, HideInv
<1>7. CASE v /\ ~running
    <2>1. work' = [work EXCEPT !["ioctl"] = ksu_selinux_hide_enable]
        BY <1>7 DEF selinux_hide_feature_set
    <2>2. ksu_selinux_hide_enable = From(1)
        <3>1. ksu_selinux_hide_enable \in Seq(EnableSteps) /\ Len(ksu_selinux_hide_enable) = 11
            BY EnableProgram
        <3> QED
            BY <3>1, SubSeqFull DEF From
    <2>3. EnabledTo(1)'
        BY <1>1, <1>6, <1>7 DEF Off, On, EnabledTo, HideAll, HideSlots
    <2> QED
        BY <1>1, <1>4, <2>1, <2>2, <2>3, EnableNext
<1>8. CASE ~v /\ running
    <2>1. work' = [work EXCEPT !["ioctl"] = UnhookRunning]
        BY <1>8 DEF selinux_hide_feature_set, UnhookRunning
    <2>2. /\ UnhookRunning \in Seq(UnhookSteps) /\ UnhookRunning # <<>>
          /\ Range(UnhookRunning) = {<<"restore", "context_write">>, <<"restore", "access_write">>,
                 <<"restore", "status_open">>, <<"lsm_restore">>, <<"lsm_untrack">>, <<"running", FALSE>>}
          /\ Follows(UnhookRunning, <<"lsm_restore">>, <<"lsm_untrack">>)
          /\ ~First(UnhookRunning, <<"lsm_untrack">>)
        BY UnhookRunningProgram
    <2>3. UnhookRunning \in Seq(Steps) /\ Range(UnhookRunning) \subseteq UnhookSteps
        BY <2>2 DEF Steps, ExitSteps, Range
    <2>4. On
        BY <1>6, <1>8 DEF Off
    <2>5. Unhooking(UnhookRunning)'
        <3> HIDE DEF UnhookRunning
        <3>1. \A s \in HideSlots : <<"restore", s>> \in Range(UnhookRunning)
            BY <2>2 DEF HideSlots
        <3>2. {<<"lsm_restore">>, <<"lsm_untrack">>, <<"running", FALSE>>} \subseteq Range(UnhookRunning)
            BY <2>2
        <3>3. \A s \in HideSlots : orig'[s] # None
            BY <1>1, <2>4 DEF On
        <3>4. lsm_entry'
            BY <1>1, <2>4 DEF On
        <3> QED
            BY <2>2, <3>1, <3>2, <3>3, <3>4 DEF Unhooking
    <2> QED
        BY <1>1, <1>4, <1>5, <2>1, <2>2, <2>3, <2>5, IoctlStep
<1>9. CASE v <=> running
    <2>1. work' = [work EXCEPT !["ioctl"] = <<>>]
        BY <1>2, <1>9 DEF selinux_hide_feature_set
    <2>2. <<>> \in Seq(Steps) /\ (On \/ Off)'
        BY <1>1, <1>6 DEF On, Off
    <2> QED
        BY <1>1, <1>4, <1>5, <2>1, <2>2, IoctlStep
<1> QED
    BY <1>2, <1>7, <1>8, <1>9

\* The last step of kernelsu_init().
LEMMA LiveKeeps ==
    ASSUME HooksInv, Lives, Step("life", "live"), phase' = "live", Done("life")
    PROVE  HooksInv'
<1> USE DEF envVars, tableVars, lsmVars, regVars, hideVars, callVars
<1>1. UNCHANGED <<envVars, slot, orig, tableVars, lsmVars, regVars, hideVars, enforcing, sets, callVars>>
    BY DEF Lives
<1> PICK q : q = work["life"]
    OBVIOUS
<1>2. /\ q \in Seq(Steps) /\ q # <<>> /\ q[1][1] = "live" /\ Popped(q, Tail(q)) /\ Tail(q) \in Seq(Steps)
      /\ q[1] \in Range(q)
    BY StepIs DEF Threads
<1>3. phase = "init" /\ InitOrder(q)
    <2>1. phase = "exit" => q[1] \in ExitSteps
        BY <1>2 DEF HooksInv, OrderInv, ExitOrder
    <2>2. phase # "exit"
        BY <1>2, <2>1, ExitName DEF ExitNames
    <2> QED
        BY <1>2, <2>2 DEF HooksInv, OrderInv, WorkTypes
<1>4. q[1] = <<"live">> /\ Tail(q) = <<>>
    <2>1. q[1] \in InitSteps
        BY <1>2, <1>3 DEF InitOrder
    <2>2. q[1] = <<"live">>
        BY <1>2, <2>1 DEF InitSteps
    <2>3. Taken(q, Tail(q))
        BY <1>2, <1>3, InitPop
    <2> QED
        BY <2>2, <2>3 DEF Taken
<1>5. /\ work' = [work EXCEPT !["life"] = Tail(q)] /\ work' \in [Threads -> Seq(Steps)]
      /\ work'["life"] = <<>> /\ work'["ioctl"] = <<>>
    <2>1. work' = [work EXCEPT !["life"] = Tail(q)]
        BY DEF Done
    <2>2. work["ioctl"] = <<>>
        BY <1>3 DEF HooksInv, OrderInv
    <2> QED
        BY <1>2, <1>4, <2>1, <2>2, WorkPopped DEF Threads
<1>6. Range(work'["life"]) = {} /\ \A x : ~First(work'["life"], x)
    BY <1>5 DEF Range, First
<1>7. TypeOK' /\ WorkTypes'
    BY <1>1, <1>5 DEF HooksInv, TypeOK, WorkTypes
<1>8. OrderInv'
    BY <1>5 DEF OrderInv
<1>9. TableInv'
    BY <1>1, <1>3, <1>6, TableKept DEF HooksInv, TableInv, Before
<1>10. RouteInv'
    <2>1. \A x \in Early : x \in Range(q) => x = q[1] \/ x \in Range(Tail(q))
        BY <1>2, TailRange
    <2>2. \A x \in Early : x # <<"live">>
        BY DEF Early
    <2>3. \A x \in Early : x \in Range(work'["life"]) <=> x \in Range(work["life"])
        BY <1>4, <1>5, <1>6, <2>1, <2>2
    <2> QED
        BY <1>1, <1>3, <2>3, RouteKept DEF HooksInv, Before
<1>11. PendingInv'
    BY <1>1, <1>3, BeforePends DEF HooksInv, PendingInv, Before
<1>12. HideInv'
    <2>1. Off'
        BY <1>1, <1>3 DEF HooksInv, HideInv, Off
    <2> QED
        BY <1>1, <1>5, <2>1 DEF HooksInv, HideInv, Off
<1> QED
    BY <1>7, <1>8, <1>9, <1>10, <1>11, <1>12 DEF HooksInv

\* The unload begins with the whole of kernelsu_exit().
LEMMA ExitKeeps ==
    ASSUME HooksInv, Lives, phase = "live", work["ioctl"] = <<>>, phase' = "exit",
           work' = [work EXCEPT !["life"] = kernelsu_exit]
    PROVE  HooksInv'
<1> USE DEF envVars, tableVars, lsmVars, regVars, hideVars, callVars
<1>1. UNCHANGED <<envVars, slot, orig, tableVars, lsmVars, regVars, hideVars, enforcing, sets, callVars>>
    BY DEF Lives
<1> PICK e : e = kernelsu_exit
    OBVIOUS
<1>2. /\ e \in Seq(ExitSteps) /\ ExitOrder(e)
      /\ ~First(e, <<"lsm_untrack">>)
      /\ {<<"untrace">>, <<"clear_hooks">>} \subseteq Range(e)
      /\ \A s \in TableSlots : <<"restore_table", s>> \in Range(e)
      /\ \A f \in Features : <<"unfeature", f>> \in Range(e)
      /\ \A p \in Probes : p # "input" \/ ~late => <<"unprobe", p>> \in Range(e)
      /\ running => Range(UnhookRunning) \subseteq Range(e)
    BY ExitProgram
<1>3. e \in Seq(Steps)
    BY <1>2 DEF Steps
<1>4. /\ work' \in [Threads -> Seq(Steps)] /\ work'["life"] = e /\ work'["ioctl"] = <<>>
    BY <1>3, WorkPopped DEF Threads
<1>5. TypeOK' /\ WorkTypes'
    BY <1>1, <1>4 DEF HooksInv, TypeOK, WorkTypes
<1>6. OrderInv'
    BY <1>2, <1>4 DEF OrderInv
<1>7. TableInv'
    BY <1>1, TableKept DEF HooksInv, TableInv, Before
<1>8. RouteInv'
    BY <1>1, RouteKept DEF HooksInv, Before
<1>9. PendingInv'
    <2>1. probes \subseteq Probes /\ (late => "input" \notin probes) /\ feature_handlers \subseteq Features
        BY DEF HooksInv, PendingInv, TypeOK
    <2> QED
        BY <1>1, <1>2, <1>4, <2>1 DEF PendingInv, UnloadClean
<1>10. HideInv'
    <2>1. On \/ Off
        <3>1. \A k \in 1..11 : ~EnableAt(k)
            BY EnableHead
        <3> QED
            BY <3>1 DEF HooksInv, HideInv
    <2>2. Unhooking(e)'
        <3>1. CASE Off
            BY <1>1, <1>2, <3>1 DEF Off, Unhooking, HideAll
        <3>2. CASE On
            <4>1. /\ \A s \in HideSlots : <<"restore", s>> \in Range(e)
                  /\ {<<"lsm_restore">>, <<"lsm_untrack">>, <<"running", FALSE>>} \subseteq Range(e)
                BY <1>2, <3>2, UnhookRunningProgram DEF On, HideSlots
            <4> HIDE DEF UnhookRunning
            <4>2. /\ \A s \in HideSlots : orig'[s] # None
                  /\ lsm_entry'
                BY <1>1, <3>2 DEF On
            <4> QED
                BY <1>2, <4>1, <4>2 DEF Unhooking
        <3> QED
            BY <2>1, <3>1, <3>2
    <2>3. running' => backup'
        BY <1>1 DEF HooksInv, HideInv
    <2> QED
        BY <1>4, <2>2, <2>3 DEF HideInv, Unhooking
<1> QED
    BY <1>5, <1>6, <1>7, <1>8, <1>9, <1>10 DEF HooksInv

\* Its last step leaves nothing to do: everything is undone.
LEMMA GoneKeeps ==
    ASSUME HooksInv, Lives, Step("life", "gone"), phase' = "gone", Done("life")
    PROVE  HooksInv'
<1> USE DEF envVars, tableVars, lsmVars, regVars, hideVars, callVars
<1>1. UNCHANGED <<envVars, slot, orig, tableVars, lsmVars, regVars, hideVars, enforcing, sets, callVars>>
    BY DEF Lives
<1> PICK q : q = work["life"]
    OBVIOUS
<1>2. /\ q \in Seq(Steps) /\ q # <<>> /\ q[1][1] = "gone" /\ Tail(q) \in Seq(Steps) /\ q[1] \in Range(q)
    BY StepIs DEF Threads
<1>3. phase = "exit" /\ ExitOrder(q)
    <2>1. ASSUME phase = "init"
          PROVE  FALSE
        <3>1. q[1] \in InitSteps
            BY <1>2, <2>1 DEF HooksInv, OrderInv, InitOrder
        <3> QED
            BY <1>2, <3>1, InitKinds DEF InitNames, StatusNames
    <2> QED
        BY <1>2, <2>1 DEF HooksInv, OrderInv, WorkTypes
<1>4. q[1] = <<"gone">> /\ Tail(q) = <<>> /\ \A x \in Range(q) : x = <<"gone">>
    <2>1. q[1] \in ExitSteps
        BY <1>2, <1>3 DEF ExitOrder
    <2>2. q[1] = <<"gone">>
        <3> DEFINE R == <<"running", FALSE>>
        <3>1. R[1] = "running"
            OBVIOUS
        <3>2. \/ q[1] = R
              \/ q[1] \in {<<"untrace">>, <<"clear_hooks">>, <<"fake_free">>, <<"gone">>,
                           <<"lsm_restore">>, <<"lsm_untrack">>}
              \/ q[1] \in {"restore"} \X (HideSlots \cup {"status_open"})
              \/ q[1] \in {"restore_table"} \X TableSlots \/ q[1] \in {"unprobe"} \X Probes
              \/ q[1] \in {"unfeature"} \X Features \/ q[1] \in {"unregister"} \X Nrs
            BY <2>1 DEF ExitSteps, UnhookSteps
        <3> HIDE DEF R
        <3> QED
            BY <1>2, <3>1, <3>2
    <2>3. Tail(q) = <<>> /\ \A x \in Range(q) : x = q[1] \/ x \in Range(Tail(q))
        BY <1>2, <1>3, <2>2, ExitPop
    <2>4. Range(<<>>) = {}
        BY DEF Range
    <2> QED
        BY <2>2, <2>3, <2>4
<1>5. /\ work' = [work EXCEPT !["life"] = Tail(q)] /\ work' \in [Threads -> Seq(Steps)]
      /\ work'["life"] = <<>> /\ work'["ioctl"] = <<>>
    <2>1. work' = [work EXCEPT !["life"] = Tail(q)]
        BY DEF Done
    <2>2. work["ioctl"] = <<>>
        BY <1>3 DEF HooksInv, OrderInv
    <2> QED
        BY <1>2, <1>4, <2>1, <2>2, WorkPopped DEF Threads
<1>6. /\ \A s \in TableSlots : <<"restore_table", s>> \notin Range(q)
      /\ <<"clear_hooks">> \notin Range(q) /\ <<"untrace">> \notin Range(q)
      /\ \A p : <<"unprobe", p>> \notin Range(q) /\ <<"unfeature", p>> \notin Range(q)
      /\ \A s \in HideSlots : <<"restore", s>> \notin Range(q)
      /\ <<"lsm_restore">> \notin Range(q)
    BY <1>4
<1>7. TypeOK' /\ WorkTypes'
    BY <1>1, <1>5 DEF HooksInv, TypeOK, WorkTypes
<1>8. OrderInv'
    BY <1>5 DEF OrderInv
<1>9. TableInv'
    BY <1>1, TableKept DEF HooksInv, TableInv, Before
<1>10. RouteInv'
    BY <1>1, <1>3, RouteKept DEF HooksInv, Before
<1>11. \A s \in Slots \ {"status_open"} : slot[s] = "kernel"
    <2>1. \A s \in TableSlots : slot[s] # "ksu"
        BY <1>3, <1>6 DEF HooksInv, PendingInv
    <2>2. (\A s \in HideSlots : slot[s] # "ksu") /\ slot["setprocattr"] # "ksu"
        <3>1. Unhooking(q)
            BY <1>3 DEF HooksInv, HideInv
        <3> QED
            BY <1>6, <3>1 DEF Unhooking
    <2> QED
        BY <2>1, <2>2 DEF HooksInv, TypeOK, Slots
<1>12. PendingInv'
    <2>1. syscall_hooks = {} /\ ~tracepoint /\ probes = {} /\ feature_handlers = {}
        BY <1>3, <1>6 DEF HooksInv, PendingInv
    <2> QED
        BY <1>1, <1>11, <2>1 DEF PendingInv, UnloadClean
<1>13. HideInv'
    BY <1>1 DEF HooksInv, HideInv
<1> QED
    BY <1>7, <1>8, <1>9, <1>10, <1>12, <1>13 DEF HooksInv

LEMMA LivesKeeps ==
    ASSUME HooksInv, Lives
    PROVE  HooksInv'
BY LiveKeeps, ExitKeeps, GoneKeeps DEF Lives, Lifecycle

\* What is unloaded takes no more steps.
LEMMA GoneWorks ==
    ASSUME HooksInv, phase = "gone", NEW t \in Threads, Works(t)
    PROVE  FALSE
<1>1. \A n \in Threads : \A name : ~Step(n, name)
    BY DEF HooksInv, OrderInv, Step, Threads
<1> QED
    BY <1>1 DEF Works, ksu_find_ni_syscall_slots, TableRecord, patch_syscall_table, RestoreTable,
                ClearHooks, RouteHook, TraceHook, ProbeHook, FeatureHandler, FakeInit, FakeFree,
                hook_selinux_status_open, PatchStatus, CheckEnable, SaveSlot, PatchSlot, RestoreSlot,
                LsmTrack, ksu_lsm_hook_patch_slot, LsmSet, LsmRestore, LsmUntrack, SetRunning, Rules

-----------------------------------------------------------------------------
(* The invariant                                                           *)

LEMMA HooksInit ==
    ASSUME Init
    PROVE  HooksInv
<1>1. /\ kernelsu_init \in Seq(InitSteps) /\ InitOrder(kernelsu_init)
      /\ \A s \in TableSlots : ~First(kernelsu_init, <<"patch_table", s>>)
    BY InitProgram
<1> PICK q : q = kernelsu_init
    OBVIOUS
<1>2. q \in Seq(Steps)
    BY <1>1 DEF Steps
<1>3. work = [t \in Threads |-> IF t = "life" THEN q ELSE <<>>]
    BY DEF Init
<1>4. work \in [Threads -> Seq(Steps)] /\ work["life"] = q /\ work["ioctl"] = <<>>
    BY <1>2, <1>3 DEF Threads
<1>5. slot = [s \in Slots |-> "kernel"] /\ orig = [s \in Slots |-> None] /\ hooked_entries = <<>>
    BY DEF Init
<1>6. Range(hooked_entries) = {} /\ IsInjective(hooked_entries) /\ hooked_entries \in Seq(TableSlots)
    BY <1>5 DEF Range, IsInjective
<1>7. /\ \A s \in TableSlots : s \in Slots /\ slot[s] = "kernel"
      /\ \A s \in HideAll : s \in Slots /\ slot[s] = "kernel"
    BY <1>5 DEF Slots, HideAll
<1>8. TypeOK
    BY <1>5, <1>6 DEF Init, TypeOK
<1>9. WorkTypes
    BY <1>4, <1>6 DEF Init, WorkTypes
<1>10. OrderInv
    BY <1>1, <1>4 DEF Init, OrderInv
<1>11. TableInv
    <2>1. EntriesExact
        BY <1>6, <1>7 DEF Init, EntriesExact
    <2> QED
        BY <1>1, <1>4, <1>5, <1>7, <2>1 DEF TableInv
<1>12. RouteInv
    BY DEF Init, RouteInv, RedirectedIsServed, None
<1>13. PendingInv
    BY DEF Init, PendingInv, UnloadClean
<1>14. HideInv
    BY <1>7 DEF Init, HideInv, Off
<1> QED
    BY <1>8, <1>9, <1>10, <1>11, <1>12, <1>13, <1>14 DEF HooksInv

LEMMA HooksStutter ==
    ASSUME HooksInv, UNCHANGED vars
    PROVE  HooksInv'
<1> USE DEF vars, envVars, tableVars, lsmVars, regVars, hideVars, callVars
<1>1. TypeOK' /\ enforcing' \in {None, "permissive", "enforcing"} /\ DOMAIN call' = Tasks
    BY DEF HooksInv, TypeOK, WorkTypes
<1>2. WorkTypes'
    BY DEF HooksInv, WorkTypes
<1>3. OrderInv'
    BY DEF HooksInv, OrderInv, InitOrder, ExitOrder
<1>4. TableInv'
    BY DEF HooksInv, TableInv, EntriesExact, Patches, Found
<1>5. RouteInv'
    BY DEF HooksInv, RouteInv, RedirectedIsServed, Found
<1>6. PendingInv'
    BY DEF HooksInv, PendingInv, UnloadClean
<1>7. HideInv'
    <2>1. running' => backup'
        BY DEF HooksInv, HideInv
    <2> QED
        BY <2>1, HideKept
<1> QED
    BY <1>1, <1>2, <1>3, <1>4, <1>5, <1>6, <1>7 DEF HooksInv

LEMMA HooksNext ==
    ASSUME HooksInv, [Next]_vars
    PROVE  HooksInv'
<1>1. ASSUME NEW t \in Threads, Works(t)
      PROVE  HooksInv'
    <2>1. phase \in {"init", "live", "exit", "gone"}
        BY DEF HooksInv, WorkTypes
    <2> QED
        BY <1>1, <2>1, InitWorks, LiveWorks, ExitWorks, GoneWorks
<1>2. ASSUME NEW v \in BOOLEAN, selinux_hide_feature_set(v)
      PROVE  HooksInv'
    BY <1>2, FeatureSetKeeps
<1>3. ASSUME SecondStage \/ on_post_fs_data \/ ksu_selinux_hide_drop_backup_if_unused
      PROVE  HooksInv'
    BY <1>3, SecondStageKeeps, PostFsDataKeeps, DropBackupKeeps
<1>4. ASSUME NEW s \in TableSlots, ksu_syscall_table_unhook(s)
      PROVE  HooksInv'
    BY <1>4, TableUnhookKeeps
<1>5. ASSUME StatusChanges \/ Lives
      PROVE  HooksInv'
    BY <1>5, StatusChangesKeeps, LivesKeeps
<1>6. ASSUME NEW t \in Tasks, NEW nr \in Nrs \cup {Unhooked}, ksu_sys_enter_handler(t, nr)
      PROVE  HooksInv'
    BY <1>6, RedirectedKeeps
<1>7. ASSUME NEW t \in Tasks, ksu_syscall_dispatcher(t) \/ CallOriginal(t)
      PROVE  HooksInv'
    BY <1>7, DispatcherKeeps, CallOriginalKeeps
<1>8. ASSUME NEW t \in Tasks, NEW s \in Slots, Enter(t, s)
      PROVE  HooksInv'
    BY <1>8, EnterKeeps
<1> QED
    BY <1>1, <1>2, <1>3, <1>4, <1>5, <1>6, <1>7, <1>8, HooksStutter DEF Next

\* Whatever step of the initialization, of the exit, of an ioctl or of a task
\* comes next, the steps still to do fit what is hooked.
THEOREM HooksInvariant == Spec => []HooksInv
<1>1. Init => HooksInv
    BY HooksInit
<1>2. HooksInv /\ [Next]_vars => HooksInv'
    BY HooksNext
<1> QED
    BY <1>1, <1>2, PTL DEF Spec

\* Everything the module hooks can be undone at every time, whatever page or
\* symbol is missing: a replaced entry of the system call table is recorded
\* once, with the kernel's function saved (ksu_syscall_table_hook(),
\* ksu_syscall_table_unhook()), and kernelsu_exit() leaves no slot, probe,
\* handler or tracepoint behind.
THEOREM UndoneCorrect == Spec => []HooksUndone
<1>1. HooksInv => HooksUndone
    BY DEF HooksInv, HooksUndone, TableInv, PendingInv
<1> QED
    BY <1>1, HooksInvariant, PTL

\* After an ioctl selinux_hide is on entirely or not at all, wherever
\* ksu_selinux_hide_enable() failed, and it never runs without its backup policy.
THEOREM HideWholeCorrect == Spec => []HideAllOrNothing
<1>1. ASSUME HooksInv, work["ioctl"] = <<>>, phase = "live", NEW s \in HideSlots \cup {"setprocattr"}
      PROVE  slot[s] = "ksu" <=> running
    <2>1. \A k \in 1..11 : ~EnableAt(k)
        BY <1>1, EnableHead
    <2>2. On \/ Off
        BY <1>1, <2>1 DEF HooksInv, HideInv
    <2> QED
        BY <1>1, <2>2 DEF On, Off, HideAll
<1>2. HooksInv => HideAllOrNothing
    BY <1>1 DEF HideAllOrNothing, HooksInv, HideInv
<1> QED
    BY <1>2, HooksInvariant, PTL

\* A system call ksu_sys_enter_handler() has redirected is served by
\* ksu_syscall_dispatcher() as long as the module is not being unloaded and the
\* page of the dispatcher's entry was there to be patched.
THEOREM RoutedCorrect == Spec => []RedirectedIsServed
<1>1. HooksInv => RedirectedIsServed
    BY DEF HooksInv, RouteInv
<1> QED
    BY <1>1, HooksInvariant, PTL

=============================================================================
