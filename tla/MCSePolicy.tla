----------------------------- MODULE MCSePolicy -----------------------------
(* A policy with two domains, one of them bounded by the other, a type without  *)
(* an attribute, and one constraint per class: a lower level may not act on a   *)
(* higher one unless its type is trusted.                                       *)
EXTENDS KsudSepolicy

LevelConstraint ==
    [perms |-> {"transition"},
     expr |-> <<[op |-> "attr", what |-> "level", cmp |-> "dom"],
                [op |-> "names", target |-> FALSE, cmp |-> "eq", names |-> {},
                 type_names |-> {"mlstrusted"}],
                [op |-> "or"]>>]

MCBoot ==
    [types |-> [n \in {"init", "app", "kernel", "domain", "file_type", "mlstrusted"} |->
                   n \in {"domain", "file_type", "mlstrusted"}],
     has |-> {<<n, n>> : n \in {"init", "app", "kernel", "domain", "file_type", "mlstrusted"}}
             \cup {<<"init", "domain">>, <<"app", "domain">>},
     permissive |-> {},
     av |-> (<<"domain", "domain", "process", "allowed">> :> {"use"})
            @@ (<<"init", "app", "file", "allowed">> :> {"use", "transition"})
            @@ (<<"app", "kernel", "file", "auditdeny">> :> {"use"}),
     xp |-> <<>>, tr |-> <<>>, ft |-> <<>>,
     cons |-> [c \in {"process", "file"} |-> <<LevelConstraint>>],
     roles |-> [r |-> {"init", "app", "kernel"}, object_r |-> {"init", "app", "kernel"}],
     role_allow |-> {}, bounds |-> "app" :> "init"]

Words(x) == [kind |-> "word", words |-> <<x>>, tail |-> FALSE]
List(x, y) == [kind |-> "list", words |-> <<x, y>>, tail |-> FALSE]
Star == [kind |-> "star", words |-> <<"*">>, tail |-> FALSE]
Piece(op, operands) == [op |-> op, operands |-> operands]
Comment == Piece("#", <<>>)

\* Words of every statement; pieces that are not statements: an operand too few,
\* one of the wrong kind, an unknown op; and a word with a tail.
MCTexts ==
    {<<<<Piece("allow", <<Star, List("app", "kernel"), Words("file"), Words("use")>>),
         Piece("deny", <<Star, Star, Words("process"), List("use", "transition")>>)>>, <<Comment>>>>,
     <<<<Piece("dontaudit", <<Words("app"), Star, Star, Star>>)>>,
       <<Piece("auditallow", <<List("app", "init"), Words("init"), Words("file"), Words("use")>>)>>>>,
     <<<<Piece("type", <<Words("x")>>)>>, <<Piece("attradd", <<List("x", "app"), List("mlstrusted", "file_type")>>)>>>>,
     <<<<Comment, Piece("attribute", <<Words("a")>>), Piece("type", <<Words("x"), List("a", "domain")>>)>>>>,
     <<<<Piece("allowxperm", <<Words("app"), Star, Words("file"), Words("ioctl"), Words("driver0")>>)>>,
       <<Piece("enforce", <<Words("su")>>)>>, <<Piece("permissive", <<Star>>)>>>>,
     <<<<Piece("type_transition", <<Words("app"), Words("init"), Words("file"), Words("kernel"), Words("name")>>)>>,
       <<Piece("name_transition", <<Words("init"), Words("init"), Words("file"), Words("kernel")>>)>>>>,
     <<<<Piece("type_transition", <<Words("app"), Words("init"), Words("file"), [Words("kernel") EXCEPT !.tail = TRUE]>>),
         Piece("type_member", <<Words("app"), Words("init"), Words("file"), [Words("kernel") EXCEPT !.tail = TRUE]>>)>>>>,
     <<<<Piece("genfscon", <<Words("fs"), Words("path"), Words("context")>>), Piece("neverallow", <<Star>>)>>,
       <<Piece("allow", <<Words("app"), Words("init"), Star>>)>>,
       <<Piece("allow", <<Words("app"), Words("init"), Star, Words("use")>>)>>,
       <<Piece("dontauditxperm", <<Words("app"), Words("init"), Words("file"), Words("ioctl"), Star>>)>>>>}

Pair == <<"type", "-", "1", "x", "NUL", "1", "domain", "NUL", "perm", "deny", "0", "NUL", "0", "NUL", "0", "NUL", "0", "NUL">>

\* Other programs send the cuts of a batch of two, and unknown commands.
MCPayloads ==
    {SubSeq(Pair, 1, n) : n \in {1, 5, 8, 9, 11}} \cup {<<"nonsense", "-">>}
    \cup {<<"perm", "unknown", "0", "NUL", "0", "NUL", "0", "NUL", "0", "NUL">>}

MCRanges == [driver0 |-> <<<<0, 0>>, <<0, 1>>>>]

MCSymmetry == Permutations(Procs) \cup Permutations(Slots)
=============================================================================
