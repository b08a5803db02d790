-------------------------- MODULE MCAllowlistStore --------------------------
(* Instances of AllowlistStore for TLC: one app over files of all versions,   *)
(* with a crash and two of a set, a change of packages and a fault, or all    *)
(* apps in one boot, with more sets, so that a profile is set or pruned in    *)
(* the dump of another.                                                       *)
EXTENDS AllowlistStore, TLC

VARIABLE named \* the apps that are told apart; the others come and go with the
               \* manager and have no profile

Others == Apps \ named

MCInit ==
    /\ Init
    /\ \/ named = Apps /\ ver = VER
       \/ \E a \in Apps : named = {a} /\ \A i \in DOMAIN recs : recs[i].uid \notin Others

MCNext ==
    /\ Next
    /\ named = Apps => crashes' = 0 /\ faults' = 0
    /\ named # Apps => sets' + moves' + faults' <= 2 /\ sets' <= 1
    /\ \A a \in Others :
          /\ mem'[a] = None
          /\ a \in packages' <=> Mgr \in packages'
          /\ \A t \in Trackers : a \in snap'[t] <=> Mgr \in snap'[t]
    /\ UNCHANGED named

MCSpec == MCInit /\ [][MCNext]_<<vars, named>>

\* Apps are interchangeable keys.
Symmetry == Permutations(Apps)
=============================================================================
