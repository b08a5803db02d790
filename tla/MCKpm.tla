-------------------------------- MODULE MCKpm --------------------------------
(***************************************************************************)
(* Instance of the kpm modules, which share no state: a behaviour is one   *)
(* of one part, with the others at rest and, but for its own, no heap.     *)
(***************************************************************************)
EXTENDS Tlsf, KpmRelocate, KpmHooks, KpmStore, KpmModules

CONSTANTS b1, b2

VARIABLE part

MCCallbacks == {b1, b2}
MCSymmetry == Permutations(MCCallbacks)

Inst(op, to) == [op |-> op, to |-> to]

\* Words that name an address inside the moved ones, just behind them, and
\* far away. Literal loads are left out: see the README.
MCFirst ==
    {Inst("B", 1), Inst("B", 20), Inst("BC", 0), Inst("BC", 4), Inst("BL", 2), Inst("BL", 20),
     Inst("CBZ", 3), Inst("TBNZ", 30), Inst("ADR", 1), Inst("ADRP", 0), Inst("PRFM_LIT", 2), Inst("ADD", 7)}
MCThird == {Inst("BC", 0), Inst("BL", 20), Inst("ADD", 7), Inst("B", 4)}
MCFourth == {Inst("BC", 1), Inst("BL", 20), Inst("ADRP", 1024), Inst("ADD", 8)}

\* Functions of four words, and with PAC of five.
MCFunctions ==
    LET plain == MCFirst \X MCFirst \X MCThird \X MCFourth
    IN  plain \cup {<<Inst("PACIASP", 5)>> \o f : f \in plain}

\* Objects: the sections a module must have, code and data around them, and
\* two relocations, of a field in code or data to a symbol of the file, of the
\* loader, or to none.
Sec(name, flags, align, size) == [name |-> name, flags |-> flags, align |-> align, size |-> size, file |-> TRUE]
MCSections ==
    <<Sec(".data", {"alloc", "write"}, 16, 24), Sec(".text", {"alloc", "exec"}, 4, 12), Sec(".comment", {}, 1, 9),
      Sec(".rodata", {"alloc"}, 0, 5), Sec(".kpm.info", {"alloc"}, 1, 7), Sec(".kpm.init", {"alloc", "write"}, 8, 8),
      Sec(".kpm.exit", {"alloc", "write"}, 8, 8), Sec(".kpm.ctl0", {"alloc", "write"}, 8, 8),
      Sec(".bss", {"alloc", "write"}, 32, 40), Sec(".symtab", {}, 8, 144), Sec(".strtab", {}, 1, 30)>>

MCSymbols ==
    <<[sec |-> 2, value |-> 8, name |-> "f"], [sec |-> 1, value |-> 16, name |-> "d"], [sec |-> -1, value |-> 40000, name |-> "a"],
      [sec |-> 0, value |-> 0, name |-> "near"], [sec |-> 0, value |-> 0, name |-> "far"], [sec |-> 9, value |-> 0, name |-> "b"]>>
MCExported == [near |-> 1052672, far |-> 135300000]
MCUnknown == [MCSymbols EXCEPT ![5].name = "other"]

MCRelocations == {[sec |-> 2, offset |-> 4, sym |-> t, addend |-> 16, type |-> k] :
                     t \in {1, 3, 4, 5}, k \in DOMAIN RelocTypes \cup {"TLS"}}
Init64 == [sec |-> 6, offset |-> 0, sym |-> 1, addend |-> 0, type |-> "ABS64"]
Debug == [sec |-> 3, offset |-> 0, sym |-> 2, addend |-> 0, type |-> "ABS32"]
Object(name, symbols, r) ==
    [name |-> name, sections |-> MCSections, symbols |-> symbols, relocations |-> <<Init64, r, Debug>>]

MCObjectFiles ==
    {Object("m", MCSymbols, r) : r \in MCRelocations}
       \cup {Object("n", s, r) : s \in {MCSymbols, MCUnknown}, r \in {x \in MCRelocations : x.type = "CALL26" /\ x.sym = 4}}
       \cup {[Object("n", MCSymbols, Debug) EXCEPT !.sections[6].name = ".init"]}

Parts == {"tlsf", "relocate", "hooks", "store", "modules"}

Init ==
    /\ part \in Parts
    /\ IF part = "tlsf" THEN TlsfInit ELSE heap = "none" /\ owned = "none" /\ junk = FALSE
    /\ RelocateInit /\ KpmHooksInit /\ StoreInit /\ KpmModulesInit

Next ==
    /\ UNCHANGED part
    /\ \/ part = "tlsf" /\ TlsfNext /\ UNCHANGED <<relocateVars, kpmHooksVars, storeVars, kpmModulesVars>>
       \/ part = "relocate" /\ RelocateNext /\ UNCHANGED <<tlsfVars, kpmHooksVars, storeVars, kpmModulesVars>>
       \/ part = "hooks" /\ KpmHooksNext /\ UNCHANGED <<tlsfVars, relocateVars, storeVars, kpmModulesVars>>
       \/ part = "store" /\ StoreNext /\ UNCHANGED <<tlsfVars, relocateVars, kpmHooksVars, kpmModulesVars>>
       \/ part = "modules" /\ KpmModulesNext /\ UNCHANGED <<tlsfVars, relocateVars, kpmHooksVars, storeVars>>

Spec == Init /\ [][Next]_<<part, tlsfVars, relocateVars, kpmHooksVars, storeVars, kpmModulesVars>>

-----------------------------------------------------------------------------
\* HeapIntact (tlsf_check(), tlsf_check_pool() and who owns the blocks) where
\* there is a heap.
HeapAlwaysIntact == part = "tlsf" => HeapIntact
=============================================================================
