------------------------------ MODULE SePolicy ------------------------------
(***************************************************************************)
(* The SELinux policy the module edits: what a rule does to the policy     *)
(* database (selinux/sepolicy.c), how a new policy takes the place of the  *)
(* old one under policy_mutex and RCU (selinux/rules.c), and the answers   *)
(* that apps get from the backup (feature/selinux_hide.c).                 *)
(*                                                                         *)
(* A database is a record: types (name -> is it an attribute), has (the    *)
(* pairs of a type and its attributes, each type its own), permissive,     *)
(* av, xp, tr, ft (the rules of the four kinds), cons (constraints in      *)
(* postfix form), roles (the types of each role), role_allow and bounds.   *)
(* Bit masks of permissions are sets.                                      *)
(***************************************************************************)
EXTENDS Naturals, FiniteSets, Sequences, SequencesExt, TLC

CONSTANTS
    Boot,       \* the database init has loaded
    Classes, Perms, \* classes and their permissions
    Drivers, Funcs, \* the two halves of an ioctl number, 0..n
    Ranges,     \* text of a range -> its first and last number
    Payloads,   \* what a process may send with KSU_IOCTL_SET_SEPOLICY
    Procs,      \* processes that send it
    Readers,    \* tasks in an RCU section on the policy
    Slots,      \* memory for policies
    LateLoad,   \* are the rules applied while processes run already
    MaxBatches  \* how many batches are sent

ALL == "ALL"
None == "none"
Rules == "rules"    \* the thread that applies the module's own rules

ASSUME SePolicyAssumption ==
    /\ LateLoad \in BOOLEAN /\ MaxBatches \in Nat
    /\ None \notin Slots \cup Procs /\ Rules \notin Procs
    /\ Payloads \subseteq Seq(STRING)

Free == <<>>        \* no database
SU == "su"          \* KERNEL_SU_DOMAIN
SU_FILE == "ksu_file" \* KERNEL_SU_FILE

-----------------------------------------------------------------------------
(* sepolicy.c: one rule *)

Fail(db) == [ok |-> FALSE, db |-> db]
Ok(db) == [ok |-> TRUE, db |-> db]

\* f with a value for keys, which it may have had.
Put(f, keys, value) == [k \in DOMAIN f \cup keys |-> IF k \in keys THEN value ELSE f[k]]

Known(db, names) == names \ {ALL} \subseteq DOMAIN db.types
Attributes(db) == {n \in DOMAIN db.types : db.types[n]}

\* Mutant: the two cases are confused.
StripWhereAdding(effect, invert) == (effect = "auditdeny") = invert

\* strip_av(): the rule removes permissions.
strip_av(effect, invert) == (effect = "auditdeny") = ~invert

\* The types a name in a rule stands for: ALL is every attribute, and every
\* type too where the rule removes.
Expand(db, name, strip) ==
    IF name # ALL THEN {name} ELSE IF strip THEN DOMAIN db.types ELSE Attributes(db)

\* get_avtab_node(): a node made for the purpose has no effect yet.
get_avtab_node(av, k) ==
    IF k \in DOMAIN av THEN av[k] ELSE IF k[4] = "auditdeny" THEN Perms ELSE {}

is_redundant_avtab_node(k, data) == data = IF k[4] = "auditdeny" THEN Perms ELSE {}

\* add_rule_raw(), for all the keys it recurses to; a removal looks only at
\* nodes that exist, and remove_avtab_node() takes out those without effect.
add_rule_raw(db, keys, p, invert) ==
    LET touched == {k \in keys : invert /\ k[4] # "auditdeny" => k \in DOMAIN db.av}
        mask == IF p = ALL THEN Perms ELSE {p}
        Data(k) == IF invert THEN get_avtab_node(db.av, k) \ mask
                   ELSE get_avtab_node(db.av, k) \cup mask
        kept == {k \in touched : ~is_redundant_avtab_node(k, Data(k))}
    IN  [db EXCEPT !.av = [k \in (DOMAIN db.av \ touched) \cup kept |->
                              IF k \in kept THEN Data(k) ELSE db.av[k]]]

add_rule(db, s, t, c, p, effect, invert) ==
    IF \/ ~Known(db, {s, t}) \/ c \notin Classes \cup {ALL}
       \/ p # ALL /\ (c = ALL \/ p \notin Perms)
    THEN Fail(db)
    ELSE LET strip == strip_av(effect, invert)
             cs == IF c = ALL THEN Classes ELSE {c}
         IN  Ok(add_rule_raw(db, Expand(db, s, strip) \X Expand(db, t, strip) \X cs \X {effect},
                             p, invert))

\* add_xperm_rule_raw(): a range within one driver is a set of functions of
\* it, a longer one a set of drivers.  A node of the same kind stays as it is.
add_xperm_rule_raw(db, keys, low, high, effect) ==
    LET one == low[1] = high[1]
        spec == IF one THEN <<"function", low[1]>> ELSE <<"driver", 0>>
        set == IF one THEN low[2]..high[2] ELSE low[1]..high[1]
        new == {<<k[1], k[2], k[3], effect, spec>> : k \in keys} \ DOMAIN db.xp
    IN  [db EXCEPT !.xp = Put(@, new, set)]

LastDriver == CHOOSE d \in Drivers : \A e \in Drivers : e <= d
LastFunc == CHOOSE f \in Funcs : \A e \in Funcs : e <= f

\* add_xperm_rule(): no range is 0 to 0xFFFF.
add_xperm_rule(db, s, t, c, range, effect) ==
    IF ~Known(db, {s, t}) \/ c \notin Classes \cup {ALL} THEN Fail(db)
    ELSE LET r == IF range = ALL THEN <<<<0, 0>>, <<LastDriver, LastFunc>>>> ELSE Ranges[range]
             keys == Expand(db, s, FALSE) \X Expand(db, t, FALSE)
                        \X (IF c = ALL THEN Classes ELSE {c})
         IN  Ok(add_xperm_rule_raw(db, keys, r[1], r[2], effect))

\* add_type_rule(): the last rule for a key holds.
add_type_rule(db, s, t, c, d, effect) ==
    IF ~Known(db, {s, t, d}) \/ c \notin Classes THEN Fail(db)
    ELSE Ok([db EXCEPT !.tr = Put(@, {<<s, t, c, effect>>}, d)])

\* add_filename_trans(): the data of a key are a list.  One that has the
\* source gets the new result, for all its sources; one with this result gets
\* the source; a key that exists cannot be inserted again.
add_filename_trans(db, s, t, c, d, o) ==
    IF ~Known(db, {s, t, d}) \/ c \notin Classes THEN Fail(db)
    ELSE LET k == <<t, c, o>>
             list == IF k \in DOMAIN db.ft THEN db.ft[k] ELSE <<>>
             stops == {i \in DOMAIN list : s \in list[i].stypes \/ list[i].otype = d}
         IN  IF stops # {}
             THEN LET i == CHOOSE j \in stops : \A l \in stops : j <= l
                      datum == IF s \in list[i].stypes THEN [list[i] EXCEPT !.otype = d]
                               ELSE [list[i] EXCEPT !.stypes = @ \cup {s}]
                  IN  Ok([db EXCEPT !.ft[k][i] = datum])
             ELSE IF list # <<>> THEN Fail(db)
             ELSE Ok([db EXCEPT !.ft = Put(@, {k}, <<[stypes |-> {s}, otype |-> d]>>)])

\* add_type(): a name that exists stays what it is; every role may take a new
\* type.
add_type(db, name, attr) ==
    IF name \in DOMAIN db.types THEN Ok(db)
    ELSE Ok([db EXCEPT !.types = Put(@, {name}, attr),
                       !.has = @ \cup {<<name, name>>},
                       !.roles = [r \in DOMAIN @ |-> @[r] \cup {name}]])

set_type_state(db, name, permissive) ==
    LET set == IF name = ALL THEN DOMAIN db.types ELSE {name}
    IN  IF ~Known(db, {name}) THEN Fail(db)
        ELSE Ok([db EXCEPT !.permissive = IF permissive THEN @ \cup set ELSE @ \ set])

\* add_typeattribute_raw(): the constraints that name the attribute name the
\* type from now on.
add_typeattribute_raw(db, type, attr) ==
    LET Expr(e) == IF e.op = "names" /\ attr \in e.type_names
                   THEN [e EXCEPT !.names = @ \cup {type}] ELSE e
        Con(con) == [con EXCEPT !.expr = [i \in DOMAIN @ |-> Expr(@[i])]]
    IN  [db EXCEPT !.has = @ \cup {<<type, attr>>},
                   !.cons = [c \in DOMAIN @ |-> [i \in DOMAIN @[c] |-> Con(@[c][i])]]]

add_typeattribute(db, type, attr) ==
    IF ~Known(db, {type, attr}) \/ db.types[type] \/ ~db.types[attr] THEN Fail(db)
    ELSE Ok(add_typeattribute_raw(db, type, attr))

ksu_type(db, name, attr) == add_typeattribute(add_type(db, name, FALSE).db, name, attr)

-----------------------------------------------------------------------------
(* rules.c: the rules of the module, and a batch of commands *)

NotAll(args, is) == \A i \in is : args[i] # ALL

\* apply_one_sepolicy_cmd()
apply_one_sepolicy_cmd(db, cmd, sub, a) ==
    CASE cmd = "perm" /\ sub = "allow" -> add_rule(db, a[1], a[2], a[3], a[4], "allowed", FALSE)
      [] cmd = "perm" /\ sub = "deny" -> add_rule(db, a[1], a[2], a[3], a[4], "allowed", TRUE)
      [] cmd = "perm" /\ sub = "auditallow" ->
            add_rule(db, a[1], a[2], a[3], a[4], "auditallow", FALSE)
      [] cmd = "perm" /\ sub = "dontaudit" ->
            add_rule(db, a[1], a[2], a[3], a[4], "auditdeny", TRUE)
      [] cmd = "xperm" /\ sub \in {"allow", "auditallow", "dontaudit"} /\ NotAll(a, {4, 5}) ->
            add_xperm_rule(db, a[1], a[2], a[3], a[5], sub)
      [] cmd = "state" /\ sub \in {"permissive", "enforce"} /\ NotAll(a, {1}) ->
            set_type_state(db, a[1], sub = "permissive")
      [] cmd = "type" /\ NotAll(a, {1, 2}) -> ksu_type(db, a[1], a[2])
      [] cmd = "typeattr" /\ NotAll(a, {1, 2}) -> add_typeattribute(db, a[1], a[2])
      [] cmd = "attr" /\ NotAll(a, {1}) -> add_type(db, a[1], TRUE)
      [] cmd = "transition" /\ NotAll(a, 1..4) ->
            IF a[5] # ALL THEN add_filename_trans(db, a[1], a[2], a[3], a[4], a[5])
            ELSE add_type_rule(db, a[1], a[2], a[3], a[4], "transition")
      [] cmd = "change" /\ sub \in {"change", "member"} /\ NotAll(a, 1..4) ->
            add_type_rule(db, a[1], a[2], a[3], a[4], sub)
      [] OTHER -> Fail(db) \* unknown, ALL where it may not be, and genfscon

\* sepol_expected_argc()
sepol_expected_argc ==
    [perm |-> 4, xperm |-> 5, state |-> 1, type |-> 2, typeattr |-> 2, attr |-> 1,
     transition |-> 5, change |-> 4, genfscon |-> 3]

\* sepol_read_cmd_header(), sepol_read_string() and the loop around them.  A
\* payload is a sequence of words: a header is two, a string its length (the
\* empty one is ALL), its text and a NUL.
Word(pay, i) == IF i <= Len(pay) THEN pay[i] ELSE None

StringAt(pay, i) ==
    CASE Word(pay, i) = "0" /\ Word(pay, i + 1) = "NUL" -> [text |-> ALL, next |-> i + 2]
      [] Word(pay, i) = "1" /\ Word(pay, i + 1) # "NUL" /\ Word(pay, i + 2) = "NUL" ->
            [text |-> pay[i + 1], next |-> i + 3]
      [] OTHER -> [text |-> None, next |-> 0]

\* The arguments of a command whose strings start at i: where they end, or 0.
ArgsAt(pay, i, argc) ==
    LET read[n \in 0..argc] ==
            IF n = 0 THEN [args |-> <<>>, next |-> i]
            ELSE LET before == read[n - 1]
                     str == StringAt(pay, before.next)
                 IN  IF before.next = 0 \/ str.next = 0 THEN [args |-> <<>>, next |-> 0]
                     ELSE [args |-> Append(before.args, str.text), next |-> str.next]
    IN  read[argc]

\* One turn of the loop in handle_sepolicy(): a malformed command ends it, a
\* command that fails is skipped.
BatchTurn(pay, st) ==
    LET i == st.next
        cmd == Word(pay, i)
        a == ArgsAt(pay, i + 2, sepol_expected_argc[cmd])
        r == apply_one_sepolicy_cmd(st.db, cmd, pay[i + 1], a.args)
    IN  IF i = 0 \/ i > Len(pay) THEN st
        ELSE IF i = Len(pay) \/ cmd \notin DOMAIN sepol_expected_argc \/ a.next = 0
        THEN [st EXCEPT !.next = 0]
        ELSE [db |-> r.db, next |-> a.next, count |-> st.count + (IF r.ok THEN 1 ELSE 0)]

RunBatch(pay, db) ==
    LET turn[n \in 0..Len(pay)] ==
            IF n = 0 THEN [db |-> db, next |-> 1, count |-> 0] ELSE BatchTurn(pay, turn[n - 1])
    IN  turn[Len(pay)]

\* What apply_kernelsu_rules() adds, in its order; the rules for the domains
\* of Android's own services are of the form "allow <domain> su".
KernelsuRules ==
    <<<<"type", "-", <<SU, "domain">>>>, <<"state", "permissive", <<SU>>>>,
      <<"typeattr", "-", <<SU, "mlstrusted">>>>,
      <<"type", "-", <<SU_FILE, "file_type">>>>, <<"typeattr", "-", <<SU_FILE, "mlstrusted">>>>,
      <<"perm", "allow", <<"domain", SU_FILE, ALL, ALL>>>>,
      <<"perm", "allow", <<SU, ALL, ALL, ALL>>>>,
      <<"xperm", "allow", <<SU, ALL, "file", "ioctl", ALL>>>>,
      <<"perm", "allow", <<"init", SU, ALL, ALL>>>>>>

\* The range of allowxperm is ALL here, which a command cannot say.
ApplyRule(db, rule) ==
    IF rule[1] = "xperm" THEN add_xperm_rule(db, SU, ALL, rule[3][3], ALL, "allow").db
    ELSE apply_one_sepolicy_cmd(db, rule[1], rule[2], rule[3]).db

WithKernelsuRules(db) ==
    LET after[n \in 0..Len(KernelsuRules)] ==
            IF n = 0 THEN db ELSE ApplyRule(after[n - 1], KernelsuRules[n])
    IN  after[Len(KernelsuRules)]

-----------------------------------------------------------------------------
(* selinux_hide.c: a decision computed from a database *)

\* constraint_expr_eval(): postfix, on a stack of CEXPR_MAXDEPTH booleans.
CEXPR_MAXDEPTH == 5

Compare(op, a, b) ==
    CASE op = "eq" -> a = b [] op = "neq" -> a # b
      [] op = "dom" -> a >= b [] op = "domby" -> b >= a [] OTHER -> FALSE

\* A push that does not fit ends the evaluation with FALSE.
Push(st, v) ==
    IF Len(st.stack) = CEXPR_MAXDEPTH THEN [st EXCEPT !.full = TRUE]
    ELSE [st EXCEPT !.stack = Append(@, v)]

\* What a node that compares says of two contexts.
NodeValue(sc, tc, e) ==
    CASE e.op = "attr" -> Compare(e.cmp, sc[e.what], tc[e.what])
      [] e.op = "names" -> ((IF e.target THEN tc ELSE sc).type \in e.names) = (e.cmp = "eq")
      [] OTHER -> FALSE

EvalNode(st, op, value) ==
    LET n == Len(st.stack)
        Two(v) == [st EXCEPT !.stack = Append(SubSeq(@, 1, n - 2), v)]
    IN  IF st.full THEN st ELSE
        CASE op = "not" -> [st EXCEPT !.stack[n] = ~@]
          [] op = "and" -> Two(st.stack[n - 1] /\ st.stack[n])
          [] op = "or" -> Two(st.stack[n - 1] \/ st.stack[n])
          [] OTHER -> Push(st, value)

EvalNodes(ops, values) ==
    LET st == FoldLeft(LAMBDA x, i : EvalNode(x, ops[i], values[i]),
                       [stack |-> <<>>, full |-> FALSE], [i \in DOMAIN ops |-> i])
    IN  ~st.full /\ st.stack[1]

constraint_expr_eval(sc, tc, expr) ==
    EvalNodes([i \in DOMAIN expr |-> expr[i].op], [i \in DOMAIN expr |-> NodeValue(sc, tc, expr[i])])

\* The rules of the types of two contexts and of all their attributes.
Pairs(db, sc, tc, c, effect) ==
    {k \in DOMAIN db.av : /\ <<sc.type, k[1]>> \in db.has /\ <<tc.type, k[2]>> \in db.has
                          /\ k[3] = c /\ k[4] = effect}

\* context_struct_compute_av() without the bounds: rules, then constraints,
\* then the roles of a process transition.
ComputeUnbounded(db, sc, tc, c) ==
    LET byRules == UNION {db.av[k] : k \in Pairs(db, sc, tc, c, "allowed")}
        denied == UNION {con.perms : con \in {x \in Range(db.cons[c]) :
                                                 ~constraint_expr_eval(sc, tc, x.expr)}}
        noTransition == IF c = "process" /\ sc.role # tc.role
                           /\ <<sc.role, tc.role>> \notin db.role_allow
                        THEN {"transition"} ELSE {}
    IN  (byRules \ denied) \ noTransition

\* type_attribute_bounds_av(): a bounded source is never allowed more than the
\* type it is bounded by.  (One level of bounds.)
context_struct_compute_av(db, sc, tc, c) ==
    LET Bound(x) == IF x.type \in DOMAIN db.bounds THEN [x EXCEPT !.type = db.bounds[x.type]]
                    ELSE x
    IN  IF sc.type \in DOMAIN db.bounds
        THEN ComputeUnbounded(db, sc, tc, c) \cap ComputeUnbounded(db, Bound(sc), Bound(tc), c)
        ELSE ComputeUnbounded(db, sc, tc, c)

\* string_to_context_struct(), security_context_to_sid_with_policy(): is the
\* context one of this policy.
ValidContext(db, x) ==
    /\ x.type \in DOMAIN db.types /\ ~db.types[x.type]
    /\ x.role \in DOMAIN db.roles /\ x.type \in db.roles[x.role]

\* my_write_access() for an app, security_compute_av_user_with_policy().
my_write_access(db, sc, tc, c) ==
    IF ~ValidContext(db, sc) \/ ~ValidContext(db, tc) THEN [err |-> "EINVAL"]
    ELSE [err |-> None, allowed |-> context_struct_compute_av(db, sc, tc, c),
          auditallow |-> UNION {db.av[k] : k \in Pairs(db, sc, tc, c, "auditallow")},
          auditdeny |-> {p \in Perms : \A k \in Pairs(db, sc, tc, c, "auditdeny") : p \in db.av[k]},
          permissive |-> sc.type \in db.permissive]

-----------------------------------------------------------------------------
(* The policy of the boot *)

\* A node that a source passes if its type has an attribute.
PassesWith(e, attr) == e.op = "names" /\ ~e.target /\ e.cmp = "eq" /\ attr \in e.type_names

\* Rules are about types and classes there are, and none about su; constraints
\* let a source of type mlstrusted pass, whatever else they compare.
ASSUME BootAssumption ==
    /\ DOMAIN Boot = {"types", "has", "permissive", "av", "xp", "tr", "ft", "cons", "roles",
                      "role_allow", "bounds"}
    /\ Boot.types \in [DOMAIN Boot.types -> BOOLEAN]
    /\ {"app", "domain"} \subseteq DOMAIN Boot.types /\ "mlstrusted" \in Attributes(Boot)
    /\ Boot.av \in [DOMAIN Boot.av -> SUBSET Perms]
    /\ DOMAIN Boot.av \subseteq (DOMAIN Boot.types) \X (DOMAIN Boot.types) \X Classes
                                \X {"allowed", "auditallow", "auditdeny"}
    /\ ALL \notin Classes \cup Perms /\ "file" \in Classes
    /\ LastDriver > 0 /\ Drivers = 0..LastDriver
    /\ SU \notin DOMAIN Boot.types \cup DOMAIN Boot.bounds \cup {k[1] : k \in DOMAIN Boot.xp}
    /\ Boot.cons \in [Classes -> Range(Boot.cons)]
    /\ \A c \in Classes : \A con \in Range(Boot.cons[c]) :
          /\ "expr" \in DOMAIN con
          /\ \A i \in DOMAIN con.expr :
                /\ "op" \in DOMAIN con.expr[i]
                /\ con.expr[i].op = "names" =>
                      {"target", "cmp", "names", "type_names"} \subseteq DOMAIN con.expr[i]
          /\ \A values \in [DOMAIN con.expr -> BOOLEAN] :
                (\A i \in DOMAIN con.expr : PassesWith(con.expr[i], "mlstrusted") => values[i])
                => EvalNodes([i \in DOMAIN con.expr |-> con.expr[i].op], values)

-----------------------------------------------------------------------------
(* The policies in memory, and who replaces them *)

VARIABLES
    mem,        \* slot that is allocated -> database
    policy,     \* selinux_state.policy
    backup,     \* backup_sepolicy, a database or Free
    mutex,      \* the thread that holds policy_mutex
    th,         \* thread -> where it is, its old_pol and pol, its payload
    reading,    \* reader -> the policy it works on
    published,  \* history: the payloads that took effect, in order (first the rules)
    ideal,      \* history: the database they should have made of Boot
    sent, result \* batches sent; what the last one returned

vars == <<mem, policy, backup, mutex, th, reading, published, ideal, sent, result>>

Threads == Procs \cup {Rules}
Idle == [pc |-> "idle", old |-> None, new |-> None, pay |-> <<>>]

Init ==
    /\ \E s \in Slots : policy = s /\ mem = [x \in {s} |-> Boot]
    /\ backup = Free /\ mutex = None
    /\ th = [t \in Threads |-> Idle]
    /\ reading = [r \in Readers |-> None]
    /\ published = <<>> /\ ideal = Boot /\ sent = 0 /\ result = None

Go(t, pc) == th' = [th EXCEPT ![t].pc = pc]

\* A copy of a policy, edited to db before anybody sees it, in a slot n.
ksu_dup_sepolicy(n, db) ==
    /\ n \in Slots \ DOMAIN mem
    /\ mem' = [x \in DOMAIN mem \cup {n} |-> IF x = n THEN db ELSE mem[x]]

\* apply_kernelsu_rules() reads the policy before it takes the mutex.
ReadBeforeLock ==
    /\ th[Rules].pc = "idle" /\ published = <<>>
    /\ th' = [th EXCEPT ![Rules].pc = "lock", ![Rules].old = policy]
    /\ UNCHANGED <<mem, policy, backup, mutex, reading, published, ideal, sent, result>>

\* Mutant: the backup is a copy of the policy that got the rules.
BackupWithRules ==
    /\ th[Rules].pc = "lock" /\ mutex = None
    /\ mutex' = Rules /\ Go(Rules, "dup")
    /\ backup' \in {WithKernelsuRules(mem[th[Rules].old]), Free}
    /\ UNCHANGED <<mem, policy, reading, published, ideal, sent, result>>

\* ksu_dup_sepolicy() for the backup, and its sidtab; each may fail.
TakeBackup ==
    /\ th[Rules].pc = "lock" /\ mutex = None
    /\ mutex' = Rules /\ Go(Rules, "dup")
    /\ backup' \in {mem[th[Rules].old], Free}
    /\ UNCHANGED <<mem, policy, reading, published, ideal, sent, result>>

\* ... and for the policy that gets the rules.
apply_kernelsu_rules ==
    /\ th[Rules].pc = "dup"
    /\ \/ \E n \in Slots : /\ ksu_dup_sepolicy(n, WithKernelsuRules(mem[th[Rules].old]))
                           /\ th' = [th EXCEPT ![Rules].pc = "publish", ![Rules].new = n]
       \/ Go(Rules, "unlock") /\ UNCHANGED mem
    /\ UNCHANGED <<policy, backup, mutex, reading, published, ideal, sent, result>>

\* do_set_sepolicy(), handle_sepolicy() up to the mutex: root sends a batch.
\* When the module is loaded at boot the rules are applied before any process
\* that could send one runs.
SendBatch(p, pay) ==
    /\ th[p].pc = "idle" /\ sent < MaxBatches /\ sent' = sent + 1
    /\ LateLoad \/ (published # <<>> /\ th[Rules].pc = "idle")
    /\ th' = [th EXCEPT ![p].pc = "batch", ![p].pay = pay]
    /\ UNCHANGED <<mem, policy, backup, mutex, reading, published, ideal, result>>

\* Mutant: the batch is applied as far as it can be read.
KeepWhatWasRead(p) ==
    /\ th[p].pc = "batch" /\ mutex = None /\ mutex' = p
    /\ LET run == RunBatch(th[p].pay, mem[policy])
       IN  \E n \in Slots :
             /\ ksu_dup_sepolicy(n, run.db) /\ result' = run.count
             /\ th' = [th EXCEPT ![p].pc = "publish", ![p].old = policy, ![p].new = n]
    /\ UNCHANGED <<policy, backup, reading, published, ideal, sent>>

\* handle_sepolicy() under the mutex: the copy gets the commands, and is
\* dropped if the batch is malformed.
handle_sepolicy(p) ==
    /\ th[p].pc = "batch" /\ mutex = None /\ mutex' = p
    /\ LET run == RunBatch(th[p].pay, mem[policy])
       IN  \/ /\ run.next # 0 /\ result' = run.count
              /\ \E n \in Slots :
                    /\ ksu_dup_sepolicy(n, run.db)
                    /\ th' = [th EXCEPT ![p].pc = "publish", ![p].old = policy, ![p].new = n]
           \/ run.next = 0 /\ result' = "EINVAL" /\ Go(p, "unlock") /\ UNCHANGED mem
           \/ result' = "ENOMEM" /\ Go(p, "unlock") /\ UNCHANGED mem
    /\ UNCHANGED <<policy, backup, reading, published, ideal, sent>>

\* What a batch should make of a database: a malformed one leaves no trace.
Accept(pay, db) == IF RunBatch(pay, db).next = 0 THEN db ELSE RunBatch(pay, db).db

\* rcu_assign_pointer()
Publish(t) ==
    /\ th[t].pc = "publish"
    /\ policy' = th[t].new /\ Go(t, "destroy")
    /\ published' = Append(published, IF t = Rules THEN <<Rules>> ELSE th[t].pay)
    /\ ideal' = IF t = Rules THEN WithKernelsuRules(ideal) ELSE Accept(th[t].pay, ideal)
    /\ UNCHANGED <<mem, backup, mutex, reading, sent, result>>

\* synchronize_rcu(), ksu_destroy_sepolicy(), reset_avc_cache().
ksu_destroy_sepolicy(t) ==
    /\ th[t].pc = "destroy"
    /\ \A r \in Readers : reading[r] # th[t].old
    /\ mem' = Restrict(mem, DOMAIN mem \ {th[t].old}) /\ Go(t, "unlock")
    /\ UNCHANGED <<policy, backup, mutex, reading, published, ideal, sent, result>>

Unlock(t) ==
    /\ th[t].pc = "unlock"
    /\ mutex' = None
    /\ th' = [th EXCEPT ![t] = IF t = Rules /\ published = <<>> THEN [Idle EXCEPT !.pc = "failed"]
                               ELSE Idle]
    /\ UNCHANGED <<mem, policy, backup, reading, published, ideal, sent, result>>

\* A task computes an access decision.
Read(r) ==
    /\ reading' = [reading EXCEPT ![r] = IF @ = None THEN policy ELSE None]
    /\ UNCHANGED <<mem, policy, backup, mutex, th, published, ideal, sent, result>>

Next ==
    \/ ReadBeforeLock \/ TakeBackup \/ apply_kernelsu_rules
    \/ \E p \in Procs : handle_sepolicy(p) \/ \E pay \in Payloads : SendBatch(p, pay)
    \/ \E t \in Threads : Publish(t) \/ ksu_destroy_sepolicy(t) \/ Unlock(t)
    \/ \E r \in Readers : Read(r)

Spec == Init /\ [][Next]_vars

-----------------------------------------------------------------------------
\* The policy in use, the ones tasks are reading and the ones being edited are
\* never freed: readers are waited for, and only the holder of policy_mutex
\* replaces a policy.
NoFreedPolicy ==
    /\ policy \in DOMAIN mem
    /\ \A r \in Readers : reading[r] # None => reading[r] \in DOMAIN mem
    /\ \A t \in Threads : /\ th[t].pc \in {"lock", "dup", "publish", "destroy"}
                            => th[t].old \in DOMAIN mem
                         /\ th[t].pc = "publish" => th[t].new \in DOMAIN mem

\* The policy in use is the boot policy with the module's rules and then every
\* accepted batch, each applied to what the one before it left: no batch is lost
\* to a concurrent one, and a malformed batch leaves no trace.
NoLostRule == mem[policy] = ideal

\* One policy takes the place of another without a reader or a rule lost.
PolicyHandover == NoFreedPolicy /\ NoLostRule

\* Nobody replaces the policy or reads it.
Quiet == mutex = None /\ \A r \in Readers : reading[r] = None

Contexts == [role : DOMAIN Boot.roles, type : DOMAIN mem[policy].types, level : {0, 1}]
HasAttribute(db, x, attrs) == \E a \in attrs : <<x, a>> \in db.has

\* Batches may take permissions away; what the module's own rules promise is
\* looked at until one does.
NoDenial == \A pay \in Range(published) : \A i \in DOMAIN pay : pay[i] # "deny"

\* "allow all!": once the rules are in, su may do everything with every type
\* that has an attribute of the boot policy, types that batches add later
\* included, and no constraint or level stands in its way; all its ioctls are
\* allowed.
SuUnconstrained ==
    LET db == mem[policy]
        su == [role |-> "r", type |-> SU, level |-> 0]
    IN  Quiet /\ published # <<>> /\ NoDenial =>
            /\ \A tc \in {x \in Contexts : x.role = "r" /\ HasAttribute(db, x.type, Attributes(Boot))} :
                  \A c \in Classes : context_struct_compute_av(db, su, tc, c) = Perms
            /\ \A a \in Attributes(Boot) : db.xp[<<SU, a, "file", "allow", <<"driver", 0>>>>] = Drivers

\* Whatever was loaded since, an app that asks gets the boot policy's answer:
\* su and its files do not exist in it, and no rule of theirs shows.
HideAnswersOriginal ==
    Quiet /\ backup # Free =>
        \A sc, tc \in Contexts, c \in Classes :
            my_write_access(backup, sc, tc, c) = my_write_access(Boot, sc, tc, c)

\* What a rule does to decisions, stated on them: "allow" adds its permissions
\* to the pairs it covers and nothing else, where ALL covers the types that
\* have an attribute; "deny ALL ALL" leaves no pair the permission; "dontaudit"
\* silences the pairs it covers.
RuleEffectExact ==
    LET db == mem[policy]
        names == DOMAIN db.types
        Eff(d, s, t, c, e) == {d.av[k] : k \in Pairs(d, [type |-> s], [type |-> t], c, e)}
        Covers(n, x) == IF n = ALL THEN HasAttribute(db, x, Attributes(db)) ELSE <<x, n>> \in db.has
        Silent(d, s, t, c, p) == \E m \in Eff(d, s, t, c, "auditdeny") : p \notin m
    IN  Quiet =>
        \A p \in Perms, c \in Classes :
            /\ \A s, t \in {ALL, "app", "domain"} :
                  LET allow == add_rule(db, s, t, c, p, "allowed", FALSE).db
                      quiet == add_rule(db, s, t, c, p, "auditdeny", TRUE).db
                  IN  \A x, y \in names :
                        /\ UNION Eff(allow, x, y, c, "allowed") = (UNION Eff(db, x, y, c, "allowed"))
                              \cup (IF Covers(s, x) /\ Covers(t, y) THEN {p} ELSE {})
                        /\ Silent(quiet, x, y, c, p)
                              <=> Silent(db, x, y, c, p) \/ (Covers(s, x) /\ Covers(t, y))
            /\ LET deny == add_rule(db, ALL, ALL, c, p, "allowed", TRUE).db
               IN  \A x, y \in names : p \notin UNION Eff(deny, x, y, c, "allowed")

\* Rules decide what they say, those of the module included.
RulesEffective == SuUnconstrained /\ RuleEffectExact
=============================================================================
