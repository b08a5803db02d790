---------------------------- MODULE AllowlistRcu ----------------------------
(***************************************************************************)
(* The in-memory allowlist of kernel/policy/allowlist.c: one bucket of the *)
(* RCU hash table, whose perm_data nodes are reference counted, replaced   *)
(* and deleted under allowlist_mutex, walked without it by lookups, and    *)
(* freed by kfree_rcu().                                                   *)
(*                                                                         *)
(* Each store that a lookup can observe (a list pointer, a count) is one   *)
(* action of the writer, each pointer load one action of a reader.  The    *)
(* mutex admits one writer, which is therefore a single process.           *)
(***************************************************************************)
EXTENDS Naturals, Sequences, FiniteSets

CONSTANTS
    Readers,    \* tasks that look profiles up
    Uids,       \* uids that hash to the bucket
    Nodes,      \* perm_data objects the allocator can hand out
    Nil,
    MaxCount    \* U16_MAX, the limit of allow_list_count

(* What a profile says of its uid, as far as lookups tell profiles apart:  *)
(* allow_su off, on with rp_config.use_default, on with a profile of its   *)
(* own.  "none" stands for a uid that has no profile.                      *)
Grants == {"deny", "default", "custom"}

(* The lookups: ksu_get_app_profile(), __ksu_is_allow_uid() and            *)
(* ksu_get_root_profile().                                                 *)
Ops == {"app", "allow", "root"}

ASSUME AllowlistAssumption ==
    /\ Nil \notin Nodes
    /\ MaxCount \in Nat
    /\ IsFiniteSet(Readers)

VARIABLES
    chain,          \* the linked nodes, first to last
    stale,          \* the next pointer an unlinked node is left with
    uidOf, grantOf, \* the profile in each node
    ref,            \* kref of each node
    mem,            \* "free", "used", or "dying": given to kfree_rcu()
    grace,          \* the readers that kfree_rcu() of a node waits for
    allow_list_count,
    wpc, victim, keep,      \* the writer: step, node at hand, uids to keep
    rpc, op, uid, cur, res, \* the readers: step, arguments, cursor, result
    seen            \* the grants each reader's uid had since it began

listVars   == <<chain, stale, uidOf, grantOf, allow_list_count>>
memVars    == <<ref, mem, grace>>
writerVars == <<wpc, victim, keep>>
readerVars == <<rpc, op, uid, cur, res>>
vars == <<listVars, memVars, writerVars, readerVars, seen>>

-----------------------------------------------------------------------------
Linked == {chain[i] : i \in 1..Len(chain)}
Pos(n) == CHOOSE i \in 1..Len(chain) : chain[i] = n

\* What a load of n->list.next returns.
NextOf(n) == IF n \notin Linked THEN stale[n]
             ELSE IF Pos(n) = Len(chain) THEN Nil ELSE chain[Pos(n) + 1]

First == IF chain = <<>> THEN Nil ELSE chain[1]

\* The grant of u that the list holds.
GrantFor(u) == LET found == {n \in Linked : uidOf[n] = u}
               IN  IF found = {} THEN "none" ELSE grantOf[CHOOSE n \in found : TRUE]

\* The readers inside an RCU read-side section.
InSection == {r \in Readers : rpc[r] \in {"walk", "get"}}

\* Every lookup in progress can linearize at this moment too.
Observe == seen' = [r \in Readers |->
                       IF r \in InSection THEN seen[r] \cup {GrantFor(uid[r])'}
                       ELSE seen[r]]

Init ==
    /\ chain = <<>>
    /\ stale = [n \in Nodes |-> Nil]
    /\ uidOf = [n \in Nodes |-> Nil]
    /\ grantOf = [n \in Nodes |-> "none"]
    /\ ref = [n \in Nodes |-> 0]
    /\ mem = [n \in Nodes |-> "free"]
    /\ grace = [n \in Nodes |-> {}]
    /\ allow_list_count = 0
    /\ wpc = "idle" /\ victim = Nil /\ keep = {}
    /\ rpc = [r \in Readers |-> "idle"]
    /\ op = [r \in Readers |-> "app"]
    /\ uid = [r \in Readers |-> Nil]
    /\ cur = [r \in Readers |-> Nil]
    /\ res = [r \in Readers |-> "none"]
    /\ seen = [r \in Readers |-> {}]

-----------------------------------------------------------------------------
(* References and memory *)

\* Mutant: the last reference is freed with kfree().
PutAndFree(n) ==
    /\ ref' = [ref EXCEPT ![n] = @ - 1]
    /\ mem' = [mem EXCEPT ![n] = IF ref[n] = 1 THEN "free" ELSE @]
    /\ UNCHANGED grace

\* put_perm_data(): kref_put(), and kfree_rcu() of the last reference.
put_perm_data(n) ==
    /\ ref' = [ref EXCEPT ![n] = @ - 1]
    /\ IF ref[n] = 1
       THEN /\ mem' = [mem EXCEPT ![n] = "dying"]
            /\ grace' = [grace EXCEPT ![n] = InSection]
       ELSE UNCHANGED <<mem, grace>>

\* The grace period of n is over: every section it waited for has ended.
Reclaim(n) ==
    /\ mem[n] = "dying"
    /\ grace[n] = {}
    /\ mem' = [mem EXCEPT ![n] = "free"]
    /\ stale' = [stale EXCEPT ![n] = Nil]
    /\ uidOf' = [uidOf EXCEPT ![n] = Nil]
    /\ grantOf' = [grantOf EXCEPT ![n] = "none"]
    /\ UNCHANGED <<chain, allow_list_count, ref, grace, writerVars, readerVars, seen>>

\* kzalloc(), kref_init() and memcpy() of the profile, all before the node
\* is published.
Allocate(n, u, g) ==
    /\ mem[n] = "free"
    /\ mem' = [mem EXCEPT ![n] = "used"]
    /\ ref' = [ref EXCEPT ![n] = 1]
    /\ uidOf' = [uidOf EXCEPT ![n] = u]
    /\ grantOf' = [grantOf EXCEPT ![n] = g]

-----------------------------------------------------------------------------
(* The writer.  Refusals (EINVAL, ENOMEM, E2BIG) change nothing.           *)

\* ksu_set_app_profile(), uid present: hlist_replace_rcu(); the old node
\* keeps its next pointer and is put afterwards.
Replace(u, g, n) ==
    /\ wpc = "idle"
    /\ \E old \in Linked :
          /\ uidOf[old] = u
          /\ Allocate(n, u, g)
          /\ chain' = [chain EXCEPT ![Pos(old)] = n]
          /\ stale' = [stale EXCEPT ![old] = NextOf(old)]
          /\ victim' = old
    /\ wpc' = "put"
    /\ UNCHANGED <<allow_list_count, grace, keep, readerVars>>
    /\ Observe

\* ksu_set_app_profile(), uid absent: hash_add_rcu() at the head.
Add(u, g, n) ==
    /\ wpc = "idle"
    /\ \A m \in Linked : uidOf[m] # u
    /\ allow_list_count # MaxCount
    /\ Allocate(n, u, g)
    /\ chain' = <<n>> \o chain
    /\ allow_list_count' = allow_list_count + 1
    /\ UNCHANGED <<stale, grace, writerVars, readerVars>>
    /\ Observe

PutVictim(from, to) ==
    /\ wpc = from
    /\ put_perm_data(victim)
    /\ wpc' = to
    /\ UNCHANGED <<keep, chain, stale, uidOf, grantOf, readerVars, seen>>

PutReplaced ==
    /\ PutVictim("put", "idle")
    /\ victim' = Nil
    /\ UNCHANGED allow_list_count

\* ksu_prune_allowlist(): valid is the answer of the callback for each uid.
PruneStart(valid) ==
    /\ wpc = "idle"
    /\ wpc' = "prune"
    /\ keep' = valid
    /\ victim' = First
    /\ UNCHANGED <<listVars, memVars, readerVars, seen>>

PruneSkip ==
    /\ wpc = "prune" /\ victim # Nil
    /\ uidOf[victim] \in keep
    /\ victim' = NextOf(victim)
    /\ UNCHANGED <<wpc, keep, listVars, memVars, readerVars, seen>>

\* hlist_del_rcu() leaves the next pointer for readers on the node.
PruneDelete ==
    /\ wpc = "prune" /\ victim # Nil
    /\ uidOf[victim] \notin keep
    /\ chain' = SubSeq(chain, 1, Pos(victim) - 1) \o SubSeq(chain, Pos(victim) + 1, Len(chain))
    /\ stale' = [stale EXCEPT ![victim] = NextOf(victim)]
    /\ wpc' = "prune_put"
    /\ UNCHANGED <<uidOf, grantOf, allow_list_count, memVars, victim, keep, readerVars>>
    /\ Observe

PrunePut ==
    /\ PutVictim("prune_put", "prune")
    /\ victim' = stale[victim]
    /\ allow_list_count' = allow_list_count - 1

PruneEnd ==
    /\ wpc = "prune" /\ victim = Nil
    /\ wpc' = "idle"
    /\ keep' = {}
    /\ UNCHANGED <<victim, listVars, memVars, readerVars, seen>>

-----------------------------------------------------------------------------
(* The readers *)

ReaderOnly == UNCHANGED <<listVars, writerVars>>

\* rcu_read_lock() and the load of the bucket's head.
LookupStart(r, o, u) ==
    /\ rpc[r] = "idle"
    /\ rpc' = [rpc EXCEPT ![r] = "walk"]
    /\ op' = [op EXCEPT ![r] = o]
    /\ uid' = [uid EXCEPT ![r] = u]
    /\ cur' = [cur EXCEPT ![r] = First]
    /\ seen' = [seen EXCEPT ![r] = {GrantFor(u)}]
    /\ UNCHANGED <<res, memVars>> /\ ReaderOnly

\* The loop's test: only ksu_get_app_profile() takes a profile without su.
Matches(r, n) == /\ uidOf[n] = uid[r]
                 /\ op[r] = "app" \/ grantOf[n] # "deny"

\* The lookups that return the node itself and so need a reference.
WantsNode(r, n) == op[r] = "app" \/ (op[r] = "root" /\ grantOf[n] = "custom")

\* rcu_read_unlock() with a result; grace periods stop waiting for r.
Leave(r, label, result) ==
    /\ rpc' = [rpc EXCEPT ![r] = label]
    /\ res' = [res EXCEPT ![r] = result]
    /\ grace' = [n \in Nodes |-> grace[n] \ {r}]

LookupNext(r) ==
    /\ rpc[r] = "walk" /\ cur[r] # Nil
    /\ ~Matches(r, cur[r])
    /\ cur' = [cur EXCEPT ![r] = NextOf(cur[r])]
    /\ UNCHANGED <<rpc, op, uid, res, memVars, seen>> /\ ReaderOnly

LookupFound(r) ==
    /\ rpc[r] = "walk" /\ cur[r] # Nil
    /\ Matches(r, cur[r])
    /\ IF WantsNode(r, cur[r])
       THEN rpc' = [rpc EXCEPT ![r] = "get"] /\ UNCHANGED <<cur, res, grace>>
       ELSE /\ Leave(r, "done", IF op[r] = "allow" THEN "yes" ELSE "default")
            /\ cur' = [cur EXCEPT ![r] = Nil]
    /\ UNCHANGED <<op, uid, ref, mem, seen>> /\ ReaderOnly

LookupMissed(r) ==
    /\ rpc[r] = "walk" /\ cur[r] = Nil
    /\ Leave(r, "done", IF op[r] = "app" THEN "none"
                        ELSE IF op[r] = "allow" THEN "no" ELSE "default")
    /\ UNCHANGED <<op, uid, cur, ref, mem, seen>> /\ ReaderOnly

\* Mutant: a node on its way out counts as not found.
LookupRefNoRetry(r) ==
    /\ rpc[r] = "get"
    /\ \/ /\ ref[cur[r]] # 0
          /\ ref' = [ref EXCEPT ![cur[r]] = @ + 1]
          /\ Leave(r, "hold", grantOf[cur[r]])
          /\ UNCHANGED cur
       \/ /\ ref[cur[r]] = 0
          /\ Leave(r, "done", IF op[r] = "app" THEN "none" ELSE "default")
          /\ cur' = [cur EXCEPT ![r] = Nil]
          /\ UNCHANGED ref
    /\ UNCHANGED <<op, uid, mem, seen>> /\ ReaderOnly

\* kref_get_unless_zero(): a node on its way out sends the lookup back to
\* the head of the bucket.
LookupRef(r) ==
    /\ rpc[r] = "get"
    /\ \/ /\ ref[cur[r]] # 0
          /\ ref' = [ref EXCEPT ![cur[r]] = @ + 1]
          /\ Leave(r, "hold", grantOf[cur[r]])
          /\ UNCHANGED cur
       \/ /\ ref[cur[r]] = 0
          /\ rpc' = [rpc EXCEPT ![r] = "walk"]
          /\ cur' = [cur EXCEPT ![r] = First]
          /\ UNCHANGED <<ref, res, grace>>
    /\ UNCHANGED <<op, uid, mem, seen>> /\ ReaderOnly

Reset(r) ==
    /\ rpc' = [rpc EXCEPT ![r] = "idle"]
    /\ op' = [op EXCEPT ![r] = "app"]
    /\ uid' = [uid EXCEPT ![r] = Nil]
    /\ cur' = [cur EXCEPT ![r] = Nil]
    /\ res' = [res EXCEPT ![r] = "none"]
    /\ seen' = [seen EXCEPT ![r] = {}]

LookupDone(r) ==
    /\ rpc[r] = "done"
    /\ Reset(r)
    /\ UNCHANGED memVars /\ ReaderOnly

\* ksu_put_app_profile() or ksu_put_root_profile(), after any use.
LookupPut(r) ==
    /\ rpc[r] = "hold"
    /\ put_perm_data(cur[r])
    /\ Reset(r)
    /\ ReaderOnly

-----------------------------------------------------------------------------
SetProfile == \E u \in Uids, g \in Grants, n \in Nodes : Replace(u, g, n) \/ Add(u, g, n)

WriterNext ==
    \/ SetProfile
    \/ PutReplaced
    \/ \E valid \in SUBSET Uids : PruneStart(valid)
    \/ PruneSkip \/ PruneDelete \/ PrunePut \/ PruneEnd

ReaderNext(r) ==
    \/ \E o \in Ops, u \in Uids : LookupStart(r, o, u)
    \/ LookupNext(r) \/ LookupFound(r) \/ LookupMissed(r) \/ LookupRef(r)
    \/ LookupDone(r) \/ LookupPut(r)

Next ==
    \/ WriterNext
    \/ \E r \in Readers : ReaderNext(r)
    \/ \E n \in Nodes : Reclaim(n)

Spec == Init /\ [][Next]_vars

-----------------------------------------------------------------------------
(* Properties *)

(* Lists, counters and cursors stay in their types; no count goes below 0. *)
TypeOK ==
    /\ chain \in Seq(Nodes)
    /\ stale \in [Nodes -> Nodes \cup {Nil}]
    /\ uidOf \in [Nodes -> Uids \cup {Nil}]
    /\ grantOf \in [Nodes -> Grants \cup {"none"}]
    /\ ref \in [Nodes -> Nat]
    /\ mem \in [Nodes -> {"free", "used", "dying"}]
    /\ grace \in [Nodes -> SUBSET Readers]
    /\ allow_list_count \in Nat
    /\ wpc \in {"idle", "put", "prune", "prune_put"}
    /\ victim \in Nodes \cup {Nil}
    /\ keep \subseteq Uids
    /\ rpc \in [Readers -> {"idle", "walk", "get", "hold", "done"}]
    /\ op \in [Readers -> Ops]
    /\ uid \in [Readers -> Uids \cup {Nil}]
    /\ cur \in [Readers -> Nodes \cup {Nil}]
    /\ res \in [Readers -> Grants \cup {"none", "yes", "no"}]
    /\ seen \in [Readers -> SUBSET (Grants \cup {"none"})]

(* No lookup ever dereferences freed memory: neither the node it stands on *)
(* while walking, even after a replace or a prune unlinked that node, nor  *)
(* a profile it holds a reference to.                                      *)
NoUseAfterFree ==
    \A r \in Readers :
        rpc[r] \in {"walk", "get", "hold"} /\ cur[r] # Nil => mem[cur[r]] # "free"

Holders(n) == {r \in Readers : rpc[r] = "hold" /\ cur[r] = n}
OwnedByWriter(n) == n = victim /\ wpc \in {"put", "prune_put"}

(* Each count equals the references that exist: the list's (or the writer  *)
(* about to drop it) and one per lookup holding the node.  A node is on    *)
(* its way out exactly when none is left, so none is released early and    *)
(* none leaks.                                                             *)
RefcountsExact ==
    \A n \in Nodes :
        /\ mem[n] = "used" <=> ref[n] > 0
        /\ ref[n] = Cardinality(Holders(n))
                    + (IF n \in Linked \/ OwnedByWriter(n) THEN 1 ELSE 0)

\* What lookup o says of a uid whose grant is g.
Answer(o, g) ==
    IF o = "app" THEN g
    ELSE IF o = "allow" THEN IF g \in {"default", "custom"} THEN "yes" ELSE "no"
    ELSE IF g = "custom" THEN "custom" ELSE "default"

RightAnswer(r) == \E g \in seen[r] : res[r] = Answer(op[r], g)

(* A lookup answers with a grant its uid really had at some moment of the  *)
(* lookup, although it may walk over replaced and deleted nodes: a uid     *)
(* whose profile is only ever replaced is never reported absent.           *)
LookupSeesSomeState ==
    \A r \in Readers : rpc[r] \in {"hold", "done"} => RightAnswer(r)

(* One node per uid, and allow_list_count counts the nodes, except in the  *)
(* middle of a prune between the unlink and the decrement.                 *)
ListAndCountAgree ==
    /\ Cardinality({uidOf[n] : n \in Linked}) = Len(chain)
    /\ allow_list_count = Len(chain) + (IF wpc = "prune_put" THEN 1 ELSE 0)
    /\ allow_list_count <= MaxCount

(* References, list and counter tell the same story at every step, and no  *)
(* lookup meets freed memory, whatever was replaced or pruned under it.    *)
MemoryExact == TypeOK /\ NoUseAfterFree /\ RefcountsExact /\ ListAndCountAgree
=============================================================================
