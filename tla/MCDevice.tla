------------------------------ MODULE MCDevice ------------------------------
(***************************************************************************)
(* Instance of parts of a device that share nothing that their properties  *)
(* are about: the injection into init.rc (RcInject) and ksud's modules     *)
(* that feed it with modules.rc, whose size is arbitrary there             *)
(* (KsudModules); the manager (Manager); the files and lists behind its    *)
(* supercalls (Supercalls); ksud's settings (KsudConfig) and its log       *)
(* (KsudLog). A behaviour is one of one part, with the others at rest.     *)
(*                                                                         *)
(* The apps are the genuine manager, and two whose signing blocks come     *)
(* close: another certificate in a second block, or a certificate that     *)
(* overruns its block and a later scheme beside it. An apk has a comment   *)
(* or none.                                                                *)
(***************************************************************************)
EXTENDS RcInject, KsudModules, Manager, Supercalls, KsudConfig, KsudLog

VARIABLE part

Block(cert) == <<V2, 6, 5, 4, 0, 2, 1, cert>>
WithLength(x) == <<Len(x)>> \o x

Sign(pairs, comment) ==
    LET body == FlattenSeq([i \in DOMAIN pairs |-> WithLength(pairs[i])])
        length == Len(body) + 2
        block == <<length>> \o body \o <<length, SIG_BLOCK>>
    IN  <<7>> \o block \o <<7, EOCD, 1, Len(block) + 1, Len(comment)>> \o comment

MCApk ==
    [manager |-> Sign(<<<<99, 5>>, Block(EXPECTED_CERT)>>, <<>>),
     twice |-> Sign(<<Block(EXPECTED_CERT + 1), Block(EXPECTED_CERT)>>, <<0>>),
     broken |-> Sign(<<<<V2, 6, 5, 4, 0, 2, 2, EXPECTED_CERT>>, <<V3>>>>, <<>>)]

MCInit ==
    /\ part \in {"inject", "modules", "manager", "supercalls", "config", "log"}
    /\ Init /\ ModulesInit /\ ManagerInit /\ SupercallsInit /\ ConfigInit /\ LogInit
    /\ part # "inject" => iter = FALSE

\* Everything but the variables of one part is at rest.
MCNext ==
    /\ UNCHANGED part
    /\ \/ part = "inject" /\ Next /\ UNCHANGED <<moduleVars, managerVars, supercallsVars, configVars, logVars>>
       \/ part = "modules" /\ ModulesNext /\ UNCHANGED <<vars, managerVars, supercallsVars, configVars, logVars>>
       \/ part = "manager" /\ ManagerNext /\ UNCHANGED <<vars, moduleVars, supercallsVars, configVars, logVars>>
       \/ part = "supercalls" /\ SupercallsNext /\ UNCHANGED <<vars, moduleVars, managerVars, configVars, logVars>>
       \/ part = "config" /\ ConfigNext /\ UNCHANGED <<vars, moduleVars, managerVars, supercallsVars, logVars>>
       \/ part = "log" /\ LogNext /\ UNCHANGED <<vars, moduleVars, managerVars, supercallsVars, configVars>>

MCSpec == MCInit /\ [][MCNext]_<<part, vars, moduleVars, managerVars, supercallsVars, configVars, logVars>>
=============================================================================
