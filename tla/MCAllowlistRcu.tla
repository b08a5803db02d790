--------------------------- MODULE MCAllowlistRcu ---------------------------
(* Instances of AllowlistRcu for TLC: one lookup in a list of all uids, where *)
(* it walks past others while memory is reused under it, or all lookups on    *)
(* one uid, where they hold the same node.                                    *)
EXTENDS AllowlistRcu, TLC

VARIABLES
    running, \* the readers that run
    memory,  \* the nodes there is memory for
    known,   \* the uids that profiles are for
    sought   \* the uid that lookups are for

MCInit ==
    /\ Init
    /\ sought \in Uids
    /\ \/ memory = Nodes /\ known = Uids /\ \E r \in Readers : running = {r}
       \/ running = Readers /\ known = {sought} /\ \E n \in Nodes : memory = Nodes \ {n}

\* No lookup reads the profile of a uid that is not sought: one grant will do.
MCNext ==
    /\ Next
    /\ \A r \in Readers : rpc'[r] # "idle" => r \in running /\ uid'[r] = sought
    /\ \A n \in Nodes : mem'[n] # "free" =>
          /\ n \in memory /\ uidOf'[n] \in known
          /\ uidOf'[n] = sought \/ grantOf'[n] = "default"
    /\ keep' \subseteq known
    /\ UNCHANGED <<running, memory, known, sought>>

MCSpec == MCInit /\ [][MCNext]_<<vars, running, memory, known, sought>>

\* Nodes are interchangeable memory, uids interchangeable keys, and readers
\* interchangeable threads.
Symmetry == Permutations(Nodes) \cup Permutations(Uids) \cup Permutations(Readers)
=============================================================================
