---------------------------- MODULE KsudSepolicy ----------------------------
(***************************************************************************)
(* The rules of a sepolicy.rule file on their way to the kernel: ksud      *)
(* parses the text, expands every statement to atomic ones and sends them  *)
(* as one batch (sepolicy.rs).                                             *)
(*                                                                         *)
(* A text is a sequence of lines, a line of the pieces that ";" separates. *)
(* A piece is a comment, or an op and its operands [kind, words, tail]:    *)
(* a word, a list in braces, a list of more than 100 characters ("long"),  *)
(* "*", or a character no operand starts with ("bad"); tail: characters    *)
(* that no word has follow without a space.                                *)
(***************************************************************************)
EXTENDS SePolicy, FiniteSetsExt

CONSTANT Texts  \* texts that are applied

Operands == [kind : STRING, words : Seq(STRING), tail : BOOLEAN]

ASSUME TextsAssumption == Texts \subseteq Seq(Seq([op : STRING, operands : Seq(Operands)]))

-----------------------------------------------------------------------------
(* Parsing *)

parse_single_word == {"word"}
parse_seobj_no_star == parse_single_word \cup {"list"}
parse_seobj == parse_seobj_no_star \cup {"star"}

Rule(cmd, sub, operands) == [cmd |-> cmd, sub |-> sub, operands |-> operands, optional |-> {}, default |-> <<>>]

\* The struct parsers, by the word they start with.
NormalPerm(op) == Rule("perm", op, <<parse_seobj, parse_seobj, parse_seobj, parse_seobj>>)
XPerm(sub) == Rule("xperm", sub, <<parse_seobj, parse_seobj, parse_seobj, parse_single_word, parse_seobj>>)
TypeState(op) == Rule("state", op, <<parse_seobj_no_star>>)
Type == [Rule("type", "-", <<parse_single_word>>) EXCEPT !.optional = parse_seobj_no_star, !.default = <<"domain">>]
TypeAttr == Rule("typeattr", "-", <<parse_seobj_no_star, parse_seobj_no_star>>)
Attr == Rule("attr", "-", <<parse_single_word>>)
TypeTransition == [Rule("transition", "-", [i \in 1..4 |-> parse_single_word])
                      EXCEPT !.optional = parse_single_word, !.default = <<None>>]
TypeChange(sub) == Rule("change", sub, [i \in 1..4 |-> parse_single_word])
GenFsCon == Rule("genfscon", "-", [i \in 1..3 |-> parse_single_word])

Grammar ==
    [allow |-> NormalPerm("allow"), deny |-> NormalPerm("deny"),
     auditallow |-> NormalPerm("auditallow"), dontaudit |-> NormalPerm("dontaudit"),
     allowxperm |-> XPerm("allow"), auditallowxperm |-> XPerm("auditallow"),
     dontauditxperm |-> XPerm("dontaudit"),
     permissive |-> TypeState("permissive"), enforce |-> TypeState("enforce"),
     type |-> Type, typeattribute |-> TypeAttr, attradd |-> TypeAttr, attribute |-> Attr,
     type_transition |-> TypeTransition, name_transition |-> TypeTransition,
     type_change |-> TypeChange("change"), type_member |-> TypeChange("member"),
     genfscon |-> GenFsCon]

\* Operands are separated by space; what follows the last one is not looked at.
Reads(given, wanted) ==
    /\ Len(given) >= Len(wanted)
    /\ \A i \in DOMAIN wanted : given[i].kind \in wanted[i] /\ (i < Len(wanted) => ~given[i].tail)

\* PolicyStatement::parse(): the statement of a piece, or no statement. An
\* optional operand is left out only at the end of the piece.
parse(piece) ==
    LET rule == Grammar[piece.op]
        n == Len(rule.operands)
        ends == Len(piece.operands) = n /\ ~piece.operands[n].tail
        wanted == IF rule.optional = {} \/ ends THEN rule.operands ELSE Append(rule.operands, rule.optional)
        words == [i \in DOMAIN wanted |-> piece.operands[i].words]
    IN  IF piece.op \notin DOMAIN Grammar THEN <<>>
        ELSE IF ~Reads(piece.operands, rule.operands) \/ ~Reads(piece.operands, wanted) THEN <<>>
        ELSE <<[cmd |-> rule.cmd, sub |-> rule.sub,
                objects |-> IF rule.optional # {} /\ ends THEN Append(words, rule.default) ELSE words]>>

\* parse_sepolicy() as live_patch() calls it: a piece that is not a statement
\* is passed over.
parse_sepolicy(text) ==
    LET pieces == FlattenSeq(text)
    IN  FlattenSeq([i \in DOMAIN pieces |-> IF pieces[i].op = "#" THEN <<>> ELSE parse(pieces[i])])

-----------------------------------------------------------------------------
(* Atomic statements *)

\* The nested loops of the conversions: all combinations, the last object
\* varying fastest.
Combinations(objects) ==
    LET Each(done, words) ==
            FlattenSeq([i \in DOMAIN done |-> [j \in DOMAIN words |-> Append(done[i], words[j])]])
        all[n \in 0..Len(objects)] ==
            IF n = 0 THEN <<<<>>>> ELSE Each(all[n - 1], objects[n])
    IN  all[Len(objects)]

AtomicStatements(st) ==
    LET all == Combinations(st.objects)
    IN  [i \in DOMAIN all |-> [cmd |-> st.cmd, sub |-> st.sub, sepol |-> all[i]]]

flatten_atomic_statements(text) ==
    LET sts == parse_sepolicy(text) IN FlattenSeq([i \in DOMAIN sts |-> AtomicStatements(sts[i])])

\* Mutant: the name of a transition is not sent.
ArgcWithoutName ==
    [perm |-> 4, change |-> 4, xperm |-> 5, transition |-> 4, state |-> 1, attr |-> 1,
     type |-> 2, typeattr |-> 2, genfscon |-> 3]

cmd_expected_argc ==
    [perm |-> 4, change |-> 4, xperm |-> 5, transition |-> 5, state |-> 1, attr |-> 1,
     type |-> 2, typeattr |-> 2, genfscon |-> 3]

\* PolicyObject::All and None are both the empty string.
encode_policy_object(word) == IF word \in {"*", None} THEN <<"0", "NUL">> ELSE <<"1", word, "NUL">>

append_atomic_statement(st) ==
    <<st.cmd, st.sub>> \o
    FlattenSeq([i \in 1..cmd_expected_argc[st.cmd] |->
                   encode_policy_object(IF i \in DOMAIN st.sepol THEN st.sepol[i] ELSE None)])

serialize_atomic_statements(sts) == FlattenSeq([i \in DOMAIN sts |-> append_atomic_statement(sts[i])])

\* live_patch(), apply_file() and apply_rules_batch(): the answer of the kernel
\* is logged.
live_patch(p, text) ==
    LET policies == flatten_atomic_statements(text)
    IN  policies # <<>> /\ SendBatch(p, serialize_atomic_statements(policies))

KsudNext == Next \/ \E p \in Procs, text \in Texts : live_patch(p, text)

KsudSpec == Init /\ [][KsudNext]_vars

-----------------------------------------------------------------------------
\* What a text means: its statements one after the other, each for all the
\* combinations of its objects at once, "*" being all.
Applied(db, st) ==
    LET Object(word) == IF word \in {"*", None} THEN ALL ELSE word
    IN  FoldSet(LAMBDA objects, d : apply_one_sepolicy_cmd(d, st.cmd, st.sub, objects).db, db,
                {[i \in DOMAIN st.objects |-> Object(f[i])] :
                    f \in {g \in [DOMAIN st.objects -> UNION {Range(w) : w \in Range(st.objects)}] :
                              \A i \in DOMAIN st.objects : g[i] \in Range(st.objects[i])}})

\* On whatever policy it meets, the batch ksud sends for a text is read by the
\* kernel to its end and changes the policy as the statements of the text do,
\* in their order: the two sides agree on the form of every command, no object
\* moves into the place of another, and an object that is left out is not
\* taken for "*" where that means something else.
TextMeansRules ==
    mutex = None =>
        \A text \in Texts :
            LET run == RunBatch(serialize_atomic_statements(flatten_atomic_statements(text)), mem[policy])
            IN  run.next # 0 /\ run.db = FoldLeft(Applied, mem[policy], parse_sepolicy(text))
=============================================================================
