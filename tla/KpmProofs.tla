------------------------------ MODULE KpmProofs ------------------------------
(***************************************************************************)
(* Proofs about the inline hooks, the hooks, the storage and the module    *)
(* loader of kpm, for any functions, callbacks, slots, elements and files: *)
(* the moved words of a function do what the function did; however hook(), *)
(* hook_wrap(), fp_hook_wrap() and their undoing are mixed, a patched text *)
(* leads to the one slot in use that is its own and no original is lost; a *)
(* call runs the steady part of a chain there and back while the chain     *)
(* changes; readers of the storage see what was stored; what is allocated  *)
(* is what the modules of the list hold, and these are laid out and linked *)
(* as their files ask.                                                     *)
(***************************************************************************)
EXTENDS KpmRelocate, KpmHooks, KpmStore, KpmModules, FiniteSetTheorems, SequenceTheorems, WellFoundedInduction, TLAPS

SlotFields == {"using", "addr", "type", "saved", "chain"}
StepFields == {"at", "slot", "item", "cb", "install", "remove"}

HookTypes ==
    /\ DOMAIN mem = Slots /\ \A s \in Slots : DOMAIN mem[s] = SlotFields /\ mem[s].using \in BOOLEAN
    /\ DOMAIN code = Origins /\ DOMAIN w = StepFields

(* A slot in use is its origin's only one; the text leads to it, but for   *)
(* the slot that the changing thread has yet to install.                   *)
SlotsInv ==
    /\ \A s \in Slots : mem[s].using =>
          /\ mem[s].addr \in Origins /\ mem[s].saved = Original
          /\ \/ code[mem[s].addr] = s
             \/ w.at # "idle" /\ w.slot = s /\ w.install /\ code[mem[s].addr] = Original
    /\ \A s, t \in Slots : mem[s].using /\ mem[t].using /\ mem[s].addr = mem[t].addr => s = t
    /\ \A o \in Origins : code[o] # Original =>
          code[o] \in Slots /\ mem[code[o]].using /\ mem[code[o]].addr = o

(* The slot of the changing thread stays in use; it installs only what     *)
(* hook_wrap() has made.                                                   *)
StepsInv ==
    /\ w.at # "idle" => w.slot \in Slots /\ mem[w.slot].using
    /\ w.install => w.at \in {"claim", "fill", "ready", "install"}
    /\ w.at = "install" => w.install

HooksInv == HookTypes /\ SlotsInv /\ StepsInv

LEMMA SlotNumbers == Original \notin Slots /\ \A s \in Slots : s \in Int
BY KpmHooksAssumption DEF Slots, Original

LEMMA NoStepsHas ==
    NoSteps.at = "idle" /\ NoSteps.install = FALSE /\ DOMAIN NoSteps = StepFields
BY DEF NoSteps, StepFields

LEMMA HooksStart == KpmHooksInit => HooksInv
<1> SUFFICES ASSUME KpmHooksInit
             PROVE  HooksInv
    OBVIOUS
<1>1. Unused.using = FALSE /\ DOMAIN Unused = SlotFields
    BY DEF Unused, SlotFields
<1> QED
    BY <1>1, NoStepsHas DEF KpmHooksInit, HooksInv, HookTypes, SlotsInv, StepsInv

\* What hook_get_mem_from_origin() finds is the origin's slot.
LEMMA FoundIsUsed ==
    ASSUME HooksInv, NEW o
    PROVE  /\ \A s \in hook_get_mem_from_origin(o) : s \in Slots /\ mem[s].using /\ mem[s].addr = o
           /\ hook_get_mem_from_origin(o) = {} =>
                 \A s \in Slots : ~(mem[s].using /\ mem[s].addr = o)
<1> DEFINE found == {s \in Slots : mem[s].using /\ mem[s].addr = o}
<1>1. hook_get_mem_from_origin(o) = IF found = {} THEN {} ELSE {Min(found)}
    BY DEF hook_get_mem_from_origin
<1>2. ASSUME found # {}
      PROVE  Min(found) \in found
    <2>1. PICK x \in found : TRUE
        BY <1>2
    <2>2. \A y \in found : x <= y
        <3>1. \A y \in found : y = x
            BY <2>1 DEF HooksInv, SlotsInv
        <3> QED
            BY <2>1, <3>1, SlotNumbers
    <2> HIDE DEF found
    <2> QED
        BY <2>1, <2>2 DEF Min
<1> QED
    BY <1>1, <1>2

\* A slot for an origin that has none.
LEMMA AllocKeeps ==
    ASSUME HooksInv, NEW o \in Origins, NEW s \in FreeSlots, NEW type,
           hook_mem_zalloc(s, o, type), code[o] = Original, Idle,
           \/ code' = [code EXCEPT ![o] = s] /\ DOMAIN w' = StepFields /\ ~w'.install
              /\ (w'.at # "idle" => w'.slot = s) /\ w'.at # "install"
           \/ code' = code /\ DOMAIN w' = StepFields /\ w'.install /\ w'.at = "claim" /\ w'.slot = s
    PROVE  HooksInv'
<1>1. s \in Slots /\ ~mem[s].using
    BY DEF FreeSlots
<1>2. /\ mem'[s].using = TRUE /\ mem'[s].addr = o /\ mem'[s].saved = Original
      /\ DOMAIN mem'[s] = SlotFields /\ DOMAIN mem' = Slots
      /\ \A t \in Slots : t # s => mem'[t] = mem[t]
    <2> DEFINE new == [Unused EXCEPT !.using = TRUE, !.addr = o, !.type = type, !.saved = code[o]]
    <2>1. new.using = TRUE /\ new.addr = o /\ new.saved = Original /\ DOMAIN new = SlotFields
        BY DEF Unused, SlotFields
    <2>2. mem' = [mem EXCEPT ![s] = new]
        BY DEF hook_mem_zalloc
    <2> HIDE DEF new
    <2> QED
        BY <1>1, <2>1, <2>2 DEF HooksInv, HookTypes
<1>3. \A t \in Slots : mem[t].using => mem[t].addr # o
    BY SlotNumbers DEF HooksInv, SlotsInv, Idle
<1>4. HookTypes'
    BY <1>2 DEF HooksInv, HookTypes
<1>5. SlotsInv'
    <2>1. \A t \in Slots : mem[t].using => code[mem[t].addr] = t /\ code'[mem[t].addr] = t
        BY <1>3 DEF HooksInv, HookTypes, SlotsInv, Idle
    <2>2. code'[o] = s \/ (code'[o] = Original /\ w'.at # "idle" /\ w'.slot = s /\ w'.install)
        BY DEF HooksInv, HookTypes
    <2>3. \A q \in Origins : q # o => code'[q] = code[q]
        BY DEF HooksInv, HookTypes
    <2> QED
        BY <1>1, <1>2, <1>3, <2>1, <2>2, <2>3 DEF HooksInv, SlotsInv
<1>6. StepsInv'
    BY <1>1, <1>2 DEF HooksInv, StepsInv
<1> QED
    BY <1>4, <1>5, <1>6 DEF HooksInv

\* The slot is given back with its original.
LEMMA FreeKeeps ==
    ASSUME HooksInv, NEW s \in Slots, mem[s].using, ~w.install,
           mem' = Uninstalled(s, mem, code).mem, code' = Uninstalled(s, mem, code).code,
           DOMAIN w' = StepFields, w'.at = "idle", ~w'.install
    PROVE  HooksInv'
<1>1. /\ mem' = [mem EXCEPT ![s].using = FALSE]
      /\ code' = [code EXCEPT ![mem[s].addr] = mem[s].saved]
    BY DEF Uninstalled
<1>2. /\ mem'[s].using = FALSE /\ DOMAIN mem'[s] = SlotFields /\ DOMAIN mem' = Slots
      /\ \A t \in Slots : t # s => mem'[t] = mem[t]
    BY <1>1 DEF HooksInv, HookTypes, SlotFields
<1>3. /\ mem[s].addr \in Origins /\ mem[s].saved = Original
      /\ \A t \in Slots : mem[t].using => code[mem[t].addr] = t
      /\ \A t \in Slots : mem[t].using /\ t # s => mem[t].addr # mem[s].addr
    BY DEF HooksInv, SlotsInv
<1>4. /\ code'[mem[s].addr] = Original /\ DOMAIN code' = Origins
      /\ \A o \in Origins : o # mem[s].addr => code'[o] = code[o]
    BY <1>1, <1>3 DEF HooksInv, HookTypes
<1>5. HookTypes'
    BY <1>2, <1>4 DEF HooksInv, HookTypes
<1>6. SlotsInv'
    BY <1>2, <1>3, <1>4 DEF HooksInv, SlotsInv
<1> QED
    BY <1>5, <1>6 DEF HooksInv, StepsInv

\* A step that is about a chain alone.
LEMMA ChainKeeps ==
    ASSUME HooksInv, DOMAIN mem' = Slots,
           \A s \in Slots : /\ DOMAIN mem'[s] = SlotFields /\ mem'[s].using = mem[s].using
                            /\ mem'[s].addr = mem[s].addr /\ mem'[s].saved = mem[s].saved,
           code' = code, DOMAIN w' = StepFields,
           w'.at # "idle" => w'.slot \in Slots /\ mem[w'.slot].using,
           w'.install => w'.at \in {"claim", "fill", "ready", "install"},
           w'.at = "install" => w'.install,
           w.install => w'.install /\ w'.slot = w.slot
    PROVE  HooksInv'
<1>1. HookTypes'
    BY DEF HooksInv, HookTypes
<1>2. SlotsInv'
    BY DEF HooksInv, SlotsInv, StepsInv
<1>3. StepsInv'
    BY DEF HooksInv, StepsInv
<1> QED
    BY <1>1, <1>2, <1>3 DEF HooksInv

LEMMA SlotsKeep == HooksInv /\ UNCHANGED <<mem, code, w>> => HooksInv'
BY DEF HooksInv, HookTypes, SlotsInv, StepsInv, Original

-----------------------------------------------------------------------------
(* One lemma per group of operations.                                      *)

LEMMA TextSteps ==
    ASSUME HooksInv, NEW f \in Funcs, hook(f) \/ unhook(f)
    PROVE  HooksInv'
<1>0. f \in Origins
    BY DEF Origins
<1>1. ASSUME hook(f)
      PROVE  HooksInv'
    <2>1. Idle /\ w' = w /\ ~w.install
        BY <1>1 DEF hook, HooksInv, StepsInv, Idle
    <2>2. PICK s \in FreeSlots : code[f] = Original /\ hook_mem_zalloc(s, f, "INLINE")
                                 /\ code' = [code EXCEPT ![f] = s]
        BY <1>1 DEF hook
    <2> QED
        BY <1>0, <2>1, <2>2, AllocKeeps DEF HooksInv, HookTypes, Idle
<1>2. ASSUME unhook(f)
      PROVE  HooksInv'
    <2>1. w' = w /\ w.at = "idle" /\ ~w.install
        BY <1>2 DEF unhook, HooksInv, StepsInv, Idle
    <2>2. PICK s \in hook_get_mem_from_origin(f) :
              mem' = Uninstalled(s, mem, code).mem /\ code' = Uninstalled(s, mem, code).code
        BY <1>2 DEF unhook
    <2>3. s \in Slots /\ mem[s].using
        BY <2>2, FoundIsUsed
    <2> QED
        BY <2>1, <2>2, <2>3, FreeKeeps DEF HooksInv, HookTypes
<1> QED
    BY <1>1, <1>2

\* hook_wrap() and fp_hook_wrap() begin: the chain there is, or a new one.
LEMMA WrapSteps ==
    ASSUME HooksInv, NEW o \in Origins, NEW cb,
           WrapKnown(o, cb) \/ hook_wrap(o, cb) \/ fp_hook_wrap(o, cb)
    PROVE  HooksInv'
<1>0. Idle /\ ~w.install
    BY DEF WrapKnown, hook_wrap, fp_hook_wrap, HooksInv, StepsInv, Idle
<1>1. ASSUME WrapKnown(o, cb)
      PROVE  HooksInv'
    <2>1. PICK s \in hook_get_mem_from_origin(o) : \E i \in AddedItem(mem[s].chain, cb) :
              w' = [NoSteps EXCEPT !.at = "claim", !.slot = s, !.item = i, !.cb = cb]
        BY <1>1 DEF WrapKnown
    <2>2. s \in Slots /\ mem[s].using
        BY <2>1, FoundIsUsed
    <2>3. DOMAIN w' = StepFields /\ w'.at = "claim" /\ w'.slot = s /\ ~w'.install
        BY <2>1 DEF NoSteps, StepFields
    <2>4. mem' = mem /\ code' = code
        BY <1>1 DEF WrapKnown
    <2> QED
        BY <1>0, <2>2, <2>3, <2>4, ChainKeeps DEF HooksInv, HookTypes
<1>2. ASSUME hook_wrap(o, cb)
      PROVE  HooksInv'
    <2>1. PICK s \in FreeSlots : hook_mem_zalloc(s, o, "INLINE_CHAIN") /\
              w' = [NoSteps EXCEPT !.at = "claim", !.slot = s, !.item = 1, !.cb = cb, !.install = TRUE]
        BY <1>2 DEF hook_wrap
    <2>2. DOMAIN w' = StepFields /\ w'.at = "claim" /\ w'.slot = s /\ w'.install
        BY <2>1 DEF NoSteps, StepFields
    <2>3. code[o] = Original /\ code' = code
        BY <1>2 DEF hook_wrap
    <2> QED
        BY <1>0, <2>1, <2>2, <2>3, AllocKeeps
<1>3. ASSUME fp_hook_wrap(o, cb)
      PROVE  HooksInv'
    <2>1. PICK s \in FreeSlots : /\ hook_mem_zalloc(s, o, "FUNCTION_POINTER_CHAIN")
                                 /\ code' = [code EXCEPT ![o] = s]
                                 /\ w' = [NoSteps EXCEPT !.at = "claim", !.slot = s, !.item = 1, !.cb = cb]
        BY <1>3 DEF fp_hook_wrap
    <2>2. DOMAIN w' = StepFields /\ w'.at = "claim" /\ w'.slot = s /\ ~w'.install
        BY <2>1 DEF NoSteps, StepFields
    <2>3. code[o] = Original
        <3>1. \A t \in Slots : ~(mem[t].using /\ mem[t].addr = o)
            BY <1>3, FoundIsUsed DEF fp_hook_wrap
        <3> QED
            BY <3>1 DEF HooksInv, SlotsInv
    <2> QED
        BY <1>0, <2>1, <2>2, <2>3, AllocKeeps
<1> QED
    BY <1>1, <1>2, <1>3

\* hook_unwrap_remove() and fp_hook_unwrap() begin.
LEMMA UnwrapStep ==
    ASSUME HooksInv, NEW o \in Origins, NEW cb, NEW r \in BOOLEAN, hook_unwrap_remove(o, cb, r)
    PROVE  HooksInv'
<1>1. PICK s \in hook_get_mem_from_origin(o) : \E i :
          w' = [NoSteps EXCEPT !.at = IF i = 0 THEN "last" ELSE "busy", !.slot = s, !.item = i, !.remove = r]
    BY DEF hook_unwrap_remove
<1>2. s \in Slots /\ mem[s].using
    BY <1>1, FoundIsUsed
<1>3. DOMAIN w' = StepFields /\ w'.at \in {"last", "busy"} /\ w'.slot = s /\ ~w'.install
    BY <1>1 DEF NoSteps, StepFields
<1>4. mem' = mem /\ code' = code /\ ~w.install
    BY DEF hook_unwrap_remove, Idle, HooksInv, StepsInv
<1> QED
    BY <1>2, <1>3, <1>4, ChainKeeps DEF HooksInv, HookTypes

\* The steps of hook_chain_add() and hook_chain_remove() on a chain.
LEMMA ChainSteps ==
    ASSUME HooksInv,
           AddClaim \/ AddFill \/ AddReady \/ RemoveBusy \/ RemoveClear \/ RemoveEmpty
    PROVE  HooksInv'
<1>1. w.slot \in Slots /\ mem[w.slot].using /\ code' = code
    BY DEF AddClaim, AddFill, AddReady, RemoveBusy, RemoveClear, RemoveEmpty, HooksInv, StepsInv
<1>2. DOMAIN mem = Slots /\ \A s \in Slots : DOMAIN mem[s] = SlotFields
    BY DEF HooksInv, HookTypes
<1>3. /\ DOMAIN mem' = Slots
      /\ \A s \in Slots : /\ DOMAIN mem'[s] = SlotFields /\ mem'[s].using = mem[s].using
                          /\ mem'[s].addr = mem[s].addr /\ mem'[s].saved = mem[s].saved
    <2>1. CASE AddClaim
        BY <1>1, <1>2, <2>1 DEF AddClaim, SlotFields
    <2>2. CASE AddFill
        BY <1>1, <1>2, <2>2 DEF AddFill, SlotFields
    <2>3. CASE AddReady
        BY <1>1, <1>2, <2>3 DEF AddReady, SlotFields
    <2>4. CASE RemoveBusy
        BY <1>1, <1>2, <2>4 DEF RemoveBusy, SlotFields
    <2>5. CASE RemoveClear
        BY <1>1, <1>2, <2>5 DEF RemoveClear, SlotFields
    <2>6. CASE RemoveEmpty
        BY <1>1, <1>2, <2>6 DEF RemoveEmpty, SlotFields
    <2> QED
        BY <2>1, <2>2, <2>3, <2>4, <2>5, <2>6
<1>4. /\ DOMAIN w' = StepFields
      /\ w'.at # "idle" => w'.slot = w.slot
      /\ w'.install => w'.at \in {"claim", "fill", "ready", "install"}
      /\ w'.at = "install" => w'.install
      /\ w.install => w'.install /\ w'.slot = w.slot
    BY NoStepsHas DEF AddClaim, AddFill, AddReady, RemoveBusy, RemoveClear, RemoveEmpty,
                      HooksInv, HookTypes, StepsInv, StepFields
<1> QED
    BY <1>1, <1>3, <1>4, ChainKeeps

\* hook_chain_install()
LEMMA InstallStep == HooksInv /\ Install => HooksInv'
<1> SUFFICES ASSUME HooksInv, Install
             PROVE  HooksInv'
    OBVIOUS
<1>1. /\ w.slot \in Slots /\ mem[w.slot].using /\ w.install /\ mem' = mem /\ w' = NoSteps
      /\ code' = [code EXCEPT ![mem[w.slot].addr] = w.slot]
    BY DEF Install, HooksInv, StepsInv
<1>2. mem[w.slot].addr \in Origins
    BY <1>1 DEF HooksInv, SlotsInv
<1>3. HookTypes'
    BY <1>1, NoStepsHas DEF HooksInv, HookTypes
<1>4. SlotsInv'
    <2>1. code'[mem[w.slot].addr] = w.slot
        BY <1>1, <1>2 DEF HooksInv, HookTypes
    <2>2. \A o \in Origins : o # mem[w.slot].addr => code'[o] = code[o]
        BY <1>1, <1>2 DEF HooksInv, HookTypes
    <2> QED
        BY <1>1, <1>2, <2>1, <2>2 DEF HooksInv, SlotsInv
<1>5. StepsInv'
    BY <1>1, NoStepsHas DEF StepsInv
<1> QED
    BY <1>3, <1>4, <1>5 DEF HooksInv

\* The chain is empty and the hook goes, or it stays.
LEMMA LastStep == HooksInv /\ RemoveLast => HooksInv'
<1> SUFFICES ASSUME HooksInv, RemoveLast
             PROVE  HooksInv'
    OBVIOUS
<1>1. w.slot \in Slots /\ mem[w.slot].using /\ ~w.install /\ w' = NoSteps
    BY DEF RemoveLast, HooksInv, StepsInv
<1>2. CASE mem' = Uninstalled(w.slot, mem, code).mem /\ code' = Uninstalled(w.slot, mem, code).code
    BY <1>1, <1>2, NoStepsHas, FreeKeeps
<1>3. CASE mem' = mem /\ code' = code
    BY <1>1, <1>3, NoStepsHas, ChainKeeps DEF HooksInv, HookTypes
<1> QED
    BY <1>2, <1>3 DEF RemoveLast

-----------------------------------------------------------------------------
LEMMA HooksStep == HooksInv /\ [KpmHooksNext]_kpmHooksVars => HooksInv'
<1> SUFFICES ASSUME HooksInv, [KpmHooksNext]_kpmHooksVars
             PROVE  HooksInv'
    OBVIOUS
<1>1. CASE Change
    BY <1>1, TextSteps, WrapSteps, UnwrapStep, ChainSteps, InstallStep, LastStep DEF Change
<1>2. CASE Run \/ UNCHANGED kpmHooksVars
    BY <1>2, SlotsKeep DEF Run, Call, BeforeTest, BeforeCall, OriginCall, AfterTest, AfterCall, kpmHooksVars
<1> QED
    BY <1>1, <1>2 DEF KpmHooksNext

LEMMA HooksMeans == HooksInv => HookTextExact
<1> SUFFICES ASSUME HooksInv, NEW o \in Origins
             PROVE  LET used == {s \in Slots : mem[s].using /\ mem[s].addr = o}
                    IN  /\ Cardinality(used) <= 1
                        /\ code[o] # Original => used = {code[o]} /\ mem[code[o]].saved = Original
                        /\ Idle /\ used # {} => code[o] # Original
    BY DEF HookTextExact
<1> DEFINE used == {s \in Slots : mem[s].using /\ mem[s].addr = o}
<1>1. Cardinality(used) <= 1
    <2>1. CASE used = {}
        BY <2>1, FS_EmptySet
    <2>2. CASE used # {}
        <3>1. PICK s \in used : TRUE
            BY <2>2
        <3>2. \A t \in used : t = s
            BY <3>1 DEF HooksInv, SlotsInv
        <3>3. used = {s}
            BY <3>1, <3>2
        <3>4. Cardinality({s}) = 1
            BY FS_Singleton
        <3> QED
            BY <3>3, <3>4
    <2> QED
        BY <2>1, <2>2
<1>2. code[o] # Original => used = {code[o]} /\ mem[code[o]].saved = Original
    BY DEF HooksInv, SlotsInv
<1>3. Idle /\ used # {} => code[o] # Original
    BY SlotNumbers DEF HooksInv, SlotsInv, Idle
<1> QED
    BY <1>1, <1>2, <1>3

\* HookTextExact: a patched text or pointer leads to the one slot in use of its
\* origin, which has the original to restore, whatever is hooked and unhooked.
THEOREM HooksTextCorrect == KpmHooksSpec => []HookTextExact
<1>1. KpmHooksSpec => []HooksInv
    BY HooksStart, HooksStep, PTL DEF KpmHooksSpec
<1> QED
    BY <1>1, HooksMeans, PTL

-----------------------------------------------------------------------------
(* A call runs through a chain. What the thread that changes the chain has *)
(* yet to do decides which items a call may meet, and where the call       *)
(* stands, which items it has behind it.                                   *)

ItemStates == {"EMPTY", "BUSY", "READY"}
ChainType == [max : 0..HOOK_CHAIN_NUM, states : [Items -> ItemStates], cb : [Items -> Callbacks \cup {NoCallback}]]

\* An item that is ready has its callback and is not behind the end.
Sound(c) ==
    /\ c \in ChainType
    /\ \A i \in Items : c.states[i] = "READY" => c.cb[i] # NoCallback /\ i <= c.max

ChainsInv ==
    /\ \A s \in Slots : Sound(mem[s].chain)
    /\ w.at \in {"claim", "fill", "ready", "busy", "clear", "empty"} => w.item \in Items
    /\ w.at \in {"claim", "fill"} => w.cb \in Callbacks
    /\ w.at = "ready" => mem[w.slot].chain.cb[w.item] # NoCallback /\ w.item <= mem[w.slot].chain.max
    /\ w.at = "clear" => mem[w.slot].chain.states[w.item] # "READY"

Rises(s) == \A i, j \in DOMAIN s : i < j => s[i] < s[j]
Falls(s) == \A i, j \in DOMAIN s : i < j => s[i] > s[j]

CallerType ==
    [at : {"idle", "before", "callbefore", "origin", "after", "callafter"}, slot : Slots \cup {0},
     item : Nat, befores : Seq(Nat), afters : Seq(Nat)]

\* What has been run of the chain: everything steady on the way so far.
RunInv(c, S) ==
    /\ Rises(c.befores) /\ Falls(c.afters)
    /\ c.at \in {"before", "callbefore"} =>
          /\ c.item > 0 /\ c.afters = <<>>
          /\ \A k \in DOMAIN c.befores : c.befores[k] < c.item
          /\ \A i \in S : i < c.item => i \in Range(c.befores)
    /\ c.at \in {"origin", "after", "callafter"} => S \subseteq Range(c.befores)
    /\ c.at = "origin" => c.afters = <<>>
    /\ c.at \in {"after", "callafter"} =>
          /\ \A k \in DOMAIN c.afters : c.item < c.afters[k]
          /\ \A i \in S : c.item < i => i \in Range(c.afters)
    /\ c.at \in {"after", "callafter"} => c.item <= HOOK_CHAIN_NUM
    /\ c.at \in {"callbefore", "callafter"} => c.item \in Items

CallInv ==
    /\ caller \in CallerType /\ calls \in Nat /\ RunInv(caller, steady)
    /\ steady \subseteq Items
    /\ IF caller.at = "idle" THEN steady = {} ELSE caller.slot \in Slots /\ steady \subseteq Ready(mem, caller.slot)

ChainInv == HooksInv /\ ChainsInv /\ CallInv

LEMMA ItemNumbers == Items \subseteq Nat /\ 0 \notin Items /\ 1 \in Items /\ \A i \in Items : i <= HOOK_CHAIN_NUM
BY KpmHooksAssumption DEF Items

LEMMA EmptySound == Sound(EmptyChain)
BY ItemNumbers, KpmHooksAssumption DEF Sound, EmptyChain, ChainType, ItemStates, NoCallback

LEMMA NoCallHas ==
    NoCall \in CallerType /\ NoCall.at = "idle" /\ \A S : RunInv(NoCall, S)
BY DEF NoCall, CallerType, RunInv, Rises, Falls

LEMMA ChainStart == KpmHooksInit => ChainInv
<1> SUFFICES ASSUME KpmHooksInit
             PROVE  ChainInv
    OBVIOUS
<1>1. HooksInv
    BY HooksStart
<1>2. ChainsInv
    <2>1. Unused.chain = EmptyChain
        BY DEF Unused
    <2> QED
        BY <2>1, EmptySound, NoStepsHas DEF KpmHooksInit, ChainsInv
<1>3. CallInv
    BY NoCallHas DEF KpmHooksInit, CallInv
<1> QED
    BY <1>1, <1>2, <1>3 DEF ChainInv

-----------------------------------------------------------------------------
\* A slot is taken, with an empty chain, or given back, or nothing is done.
LEMMA SlotsStaySound ==
    ASSUME HooksInv, ChainsInv, DOMAIN mem' = Slots,
           \A s \in Slots : mem'[s].chain \in {mem[s].chain, EmptyChain},
           w'.at \notin {"ready", "clear"},
           w'.at \in {"claim", "fill", "busy", "empty"} => w'.item \in Items,
           w'.at \in {"claim", "fill"} => w'.cb \in Callbacks
    PROVE  ChainsInv'
BY EmptySound DEF ChainsInv

\* A step on one item of a chain.
LEMMA ItemStaysSound ==
    ASSUME ChainsInv, HooksInv, NEW c, Sound(c), w.slot \in Slots,
           mem' = [mem EXCEPT ![w.slot].chain = c], w'.at # "idle" => w'.slot = w.slot,
           w'.at \in {"claim", "fill", "ready", "busy", "clear", "empty"} => w'.item \in Items,
           w'.at \in {"claim", "fill"} => w'.cb \in Callbacks,
           w'.at = "ready" => c.cb[w'.item] # NoCallback /\ w'.item <= c.max,
           w'.at = "clear" => c.states[w'.item] # "READY"
    PROVE  ChainsInv'
<1>1. DOMAIN mem' = Slots /\ mem'[w.slot].chain = c /\ \A s \in Slots : s # w.slot => mem'[s] = mem[s]
    BY DEF HooksInv, HookTypes, SlotFields
<1> QED
    BY <1>1 DEF ChainsInv

LEMMA LeastNumber ==
    ASSUME NEW T, T \subseteq Nat, T # {}
    PROVE  \E x \in T : \A y \in T : x <= y
<1> DEFINE R == {ss \in Nat \X Nat : ss[1] < ss[2]}
<1>1. IsWellFoundedOn(R, Nat)
    BY NatLessThanWellFounded DEF OpToRel
<1> HIDE DEF R
<1>2. PICK x \in T : \A y \in T : ~(<<y, x>> \in R)
    BY <1>1, WFMin
<1>3. \A y \in T : <<y, x>> \in R <=> y < x
    BY <1>2 DEF R
<1>4. \A y \in T : ~(y < x)
    BY <1>2, <1>3, Zenon
<1>5. \A y \in T : x <= y
    BY <1>4
<1> QED
    BY <1>5

LEMMA LeastItem ==
    ASSUME NEW S \in SUBSET Items, S # {}
    PROVE  Min(S) \in S
<1>1. S \subseteq Nat
    BY ItemNumbers
<1>2. \E x \in S : \A y \in S : x <= y
    BY <1>1, LeastNumber
<1> QED
    BY <1>2 DEF Min

\* The steps of hook_chain_add() and hook_chain_remove(): between them an item
\* that is changed is busy.
LEMMA ChainsItem ==
    ASSUME HooksInv, ChainsInv,
           AddClaim \/ AddFill \/ AddReady \/ RemoveBusy \/ RemoveClear \/ RemoveEmpty
    PROVE  ChainsInv'
<1> DEFINE c == mem[w.slot].chain
<1>1. w.slot \in Slots /\ w.item \in Items /\ Sound(c)
    BY DEF AddClaim, AddFill, AddReady, RemoveBusy, RemoveClear, RemoveEmpty, HooksInv, StepsInv, ChainsInv
<1>2. /\ c \in ChainType /\ w.item \in Nat /\ w.item <= HOOK_CHAIN_NUM
      /\ \A i \in Items : i \in Nat /\ i <= HOOK_CHAIN_NUM
      /\ \A i \in Items : c.states[i] = "READY" => c.cb[i] # NoCallback /\ i <= c.max
      /\ HOOK_CHAIN_NUM \in Nat
    BY <1>1, ItemNumbers, KpmHooksAssumption DEF Sound
<1>3. DOMAIN mem = Slots /\ DOMAIN mem[w.slot] = SlotFields
    BY <1>1 DEF HooksInv, HookTypes
<1>4. DOMAIN w = StepFields
    BY DEF HooksInv, HookTypes
<1>5. ASSUME NEW st \in {"BUSY", "EMPTY"}
      PROVE  LET c2 == [c EXCEPT !.states[w.item] = st]
             IN  Sound(c2) /\ c2.states[w.item] = st
    BY <1>1, <1>2, <1>5 DEF Sound, ChainType, ItemStates
<1>6. CASE AddClaim
    <2> DEFINE c2 == [c EXCEPT !.states[w.item] = "BUSY"]
    <2>1. Sound(c2)
        BY <1>5
    <2>2. mem' = [mem EXCEPT ![w.slot].chain = c2]
        BY <1>6 DEF AddClaim
    <2>3. w'.at = "fill" /\ w'.slot = w.slot /\ w'.item = w.item /\ w'.cb = w.cb /\ w.cb \in Callbacks
        BY <1>4, <1>6 DEF AddClaim, StepFields, ChainsInv
    <2> HIDE DEF c2, c
    <2> QED
        BY <1>1, <2>1, <2>2, <2>3, ItemStaysSound
<1>7. CASE AddFill
    <2> DEFINE c2 == [c EXCEPT !.cb[w.item] = w.cb, !.max = IF w.item > @ THEN w.item ELSE @]
    <2>1. w.cb \in Callbacks /\ w.cb # NoCallback
        BY <1>7, KpmHooksAssumption DEF AddFill, ChainsInv, NoCallback
    <2>2. /\ c2.states = c.states /\ c2.cb = [c.cb EXCEPT ![w.item] = w.cb]
          /\ c2.max = IF w.item > c.max THEN w.item ELSE c.max
          /\ c2 = [max |-> c2.max, states |-> c2.states, cb |-> c2.cb]
        <3>1. /\ c2.states = c.states /\ c2.cb = [c.cb EXCEPT ![w.item] = w.cb]
              /\ c2.max = IF w.item > c.max THEN w.item ELSE c.max
            BY <1>2 DEF ChainType
        <3>2. DOMAIN c2 = {"max", "states", "cb"} /\ c2 = [f \in DOMAIN c2 |-> c2[f]]
            BY <1>2 DEF ChainType
        <3> HIDE DEF c2
        <3>3. c2 = [max |-> c2.max, states |-> c2.states, cb |-> c2.cb]
            BY <3>2
        <3> QED
            BY <3>1, <3>3
    <2>3. c2.max \in 0..HOOK_CHAIN_NUM /\ c2.max >= c.max /\ c2.max >= w.item /\ c.max \in Nat
        BY <1>2, <2>2 DEF ChainType
    <2>4. c2.cb \in [Items -> Callbacks \cup {NoCallback}] /\ c2.states \in [Items -> ItemStates]
        BY <1>1, <1>2, <2>1, <2>2 DEF ChainType
    <2> HIDE DEF c2
    <2>5. c2 \in ChainType
        BY <2>2, <2>3, <2>4 DEF ChainType
    <2>6. c2.cb[w.item] = w.cb /\ \A i \in Items : i # w.item => c2.cb[i] = c.cb[i]
        BY <1>1, <1>2, <2>2 DEF ChainType
    <2>7. Sound(c2)
        BY <1>2, <2>1, <2>2, <2>3, <2>5, <2>6 DEF Sound
    <2>8. mem' = [mem EXCEPT ![w.slot].chain = c2]
        BY <1>7 DEF AddFill, c2
    <2>9. w'.at = "ready" /\ w'.slot = w.slot /\ w'.item = w.item
        BY <1>4, <1>7 DEF AddFill, StepFields
    <2> HIDE DEF c
    <2> QED
        BY <1>1, <2>1, <2>3, <2>6, <2>7, <2>8, <2>9, ItemStaysSound
<1>8. CASE AddReady
    <2> DEFINE c2 == [c EXCEPT !.states[w.item] = "READY"]
    <2>1. c.cb[w.item] # NoCallback /\ w.item <= c.max
        BY <1>8 DEF AddReady, ChainsInv
    <2>2. Sound(c2)
        BY <1>1, <1>2, <2>1 DEF Sound, ChainType, ItemStates
    <2>3. mem' = [mem EXCEPT ![w.slot].chain = c2]
        BY <1>8 DEF AddReady
    <2>4. w'.at \in {"install", "idle"} /\ (w'.at # "idle" => w'.slot = w.slot)
        BY <1>4, <1>8, NoStepsHas DEF AddReady, StepFields
    <2> HIDE DEF c2, c
    <2> QED
        BY <1>1, <2>2, <2>3, <2>4, ItemStaysSound
<1>9. CASE RemoveBusy
    <2> DEFINE c2 == [c EXCEPT !.states[w.item] = "BUSY"]
    <2>1. Sound(c2) /\ c2.states[w.item] = "BUSY"
        BY <1>5
    <2>2. mem' = [mem EXCEPT ![w.slot].chain = c2]
        BY <1>9 DEF RemoveBusy
    <2>3. w'.at = "clear" /\ w'.slot = w.slot /\ w'.item = w.item
        BY <1>4, <1>9 DEF RemoveBusy, StepFields
    <2> HIDE DEF c2, c
    <2> QED
        BY <1>1, <2>1, <2>2, <2>3, ItemStaysSound
<1>10. CASE RemoveClear
    <2> DEFINE c2 == [c EXCEPT !.cb[w.item] = NoCallback]
    <2>1. c.states[w.item] # "READY"
        BY <1>10 DEF RemoveClear, ChainsInv
    <2>2. Sound(c2)
        BY <1>1, <1>2, <2>1 DEF Sound, ChainType
    <2>3. mem' = [mem EXCEPT ![w.slot].chain = c2]
        BY <1>10 DEF RemoveClear
    <2>4. w'.at = "empty" /\ w'.slot = w.slot /\ w'.item = w.item
        BY <1>4, <1>10 DEF RemoveClear, StepFields
    <2> HIDE DEF c2, c
    <2> QED
        BY <1>1, <2>2, <2>3, <2>4, ItemStaysSound
<1>11. CASE RemoveEmpty
    <2> DEFINE c2 == [c EXCEPT !.states[w.item] = "EMPTY"]
    <2>1. Sound(c2)
        BY <1>5
    <2>2. mem' = [mem EXCEPT ![w.slot].chain = c2]
        BY <1>11 DEF RemoveEmpty
    <2>3. w'.at = "last" /\ w'.slot = w.slot
        BY <1>4, <1>11 DEF RemoveEmpty, StepFields
    <2> HIDE DEF c2, c
    <2> QED
        BY <1>1, <2>1, <2>2, <2>3, ItemStaysSound
<1> QED
    BY <1>6, <1>7, <1>8, <1>9, <1>10, <1>11

LEMMA ChainsChange ==
    ASSUME HooksInv, HooksInv', ChainsInv, Change
    PROVE  ChainsInv'
<1>1. DOMAIN mem = Slots /\ DOMAIN mem' = Slots
    BY DEF HooksInv, HookTypes
<1>2. ASSUME NEW o \in Origins, NEW s \in FreeSlots, NEW type, hook_mem_zalloc(s, o, type)
      PROVE  \A t \in Slots : mem'[t].chain \in {mem[t].chain, EmptyChain}
    <2> DEFINE new == [Unused EXCEPT !.using = TRUE, !.addr = o, !.type = type, !.saved = code[o]]
    <2>1. new.chain = EmptyChain
        BY DEF Unused
    <2>2. mem' = [mem EXCEPT ![s] = new]
        BY <1>2 DEF hook_mem_zalloc
    <2> HIDE DEF new
    <2> QED
        BY <1>1, <2>1, <2>2 DEF FreeSlots
<1>3. ASSUME NEW s \in Slots, mem' = Uninstalled(s, mem, code).mem
      PROVE  \A t \in Slots : mem'[t].chain \in {mem[t].chain, EmptyChain}
    <2>1. mem' = [mem EXCEPT ![s].using = FALSE]
        BY <1>3 DEF Uninstalled
    <2> QED
        BY <1>1, <2>1 DEF HooksInv, HookTypes, SlotFields
<1>4. ASSUME NEW f \in Funcs, hook(f) \/ unhook(f)
      PROVE  ChainsInv'
    <2>1. w' = w /\ w.at = "idle"
        BY <1>4 DEF hook, unhook, Idle
    <2>2. \A t \in Slots : mem'[t].chain \in {mem[t].chain, EmptyChain}
        BY <1>2, <1>3, <1>4, FoundIsUsed DEF hook, unhook, Origins
    <2> QED
        BY <1>1, <2>1, <2>2, SlotsStaySound
<1>5. ASSUME NEW o \in Origins, NEW cb \in Callbacks, hook_wrap(o, cb) \/ fp_hook_wrap(o, cb)
      PROVE  ChainsInv'
    <2>1. w'.at = "claim" /\ w'.item = 1 /\ w'.cb = cb
        BY <1>5 DEF hook_wrap, fp_hook_wrap, NoSteps
    <2>2. \A t \in Slots : mem'[t].chain \in {mem[t].chain, EmptyChain}
        BY <1>2, <1>5 DEF hook_wrap, fp_hook_wrap
    <2> QED
        BY <1>1, <2>1, <2>2, SlotsStaySound, ItemNumbers
<1>6. ASSUME NEW o \in Origins, NEW cb \in Callbacks, WrapKnown(o, cb)
      PROVE  ChainsInv'
    <2>1. PICK s, i : /\ i \in AddedItem(mem[s].chain, cb)
                      /\ w' = [NoSteps EXCEPT !.at = "claim", !.slot = s, !.item = i, !.cb = cb]
        BY <1>6 DEF WrapKnown
    <2>2. w'.at = "claim" /\ w'.item = i /\ w'.cb = cb
        BY <2>1 DEF NoSteps
    <2>3. i \in Items
        <3> DEFINE empty == {j \in Items : mem[s].chain.states[j] = "EMPTY"}
        <3>1. i = Min(empty) /\ empty # {} /\ empty \subseteq Items
            BY <2>1 DEF AddedItem
        <3> QED
            BY <3>1, LeastItem
    <2> QED
        BY <1>1, <1>6, <2>2, <2>3, SlotsStaySound DEF WrapKnown
<1>7. ASSUME NEW o \in Origins, NEW cb \in Callbacks, NEW r \in BOOLEAN, hook_unwrap_remove(o, cb, r)
      PROVE  ChainsInv'
    <2>1. PICK s : LET i == RemovedItem(mem[s].chain, cb)
                   IN  w' = [NoSteps EXCEPT !.at = IF i = 0 THEN "last" ELSE "busy", !.slot = s, !.item = i,
                                            !.remove = r]
        BY <1>7 DEF hook_unwrap_remove
    <2>2. \/ w'.at = "last"
          \/ w'.at = "busy" /\ w'.item = RemovedItem(mem[s].chain, cb) /\ w'.item # 0
        BY <2>1 DEF NoSteps
    <2>3. RemovedItem(mem[s].chain, cb) \in Items \cup {0}
        <3> DEFINE has == {i \in Items : mem[s].chain.states[i] = "READY" /\ mem[s].chain.cb[i] = cb}
        <3>1. RemovedItem(mem[s].chain, cb) = IF has = {} THEN 0 ELSE Min(has)
            BY DEF RemovedItem
        <3>2. has \subseteq Items
            OBVIOUS
        <3> HIDE DEF has
        <3> QED
            BY <3>1, <3>2, LeastItem
    <2> QED
        BY <1>1, <1>7, <2>2, <2>3, SlotsStaySound DEF hook_unwrap_remove
<1>8. CASE Install
    BY <1>1, <1>8, NoStepsHas, SlotsStaySound DEF Install
<1>9. CASE RemoveLast
    <2>1. w.slot \in Slots
        BY <1>9 DEF RemoveLast, HooksInv, StepsInv
    <2>2. \A t \in Slots : mem'[t].chain \in {mem[t].chain, EmptyChain}
        BY <1>3, <1>9, <2>1 DEF RemoveLast
    <2> QED
        BY <1>1, <1>9, <2>2, NoStepsHas, SlotsStaySound DEF RemoveLast
<1>10. CASE AddClaim \/ AddFill \/ AddReady \/ RemoveBusy \/ RemoveClear \/ RemoveEmpty
    BY <1>10, ChainsItem
<1> QED
    BY <1>4, <1>5, <1>6, <1>7, <1>8, <1>9, <1>10 DEF Change

-----------------------------------------------------------------------------
(* The call. While the chain changes, what is steady only gets less.       *)

LEMMA LessSteady ==
    ASSUME NEW c, NEW S, NEW T, T \subseteq S, RunInv(c, S)
    PROVE  RunInv(c, T)
BY DEF RunInv

LEMMA ChangeKeepsCall ==
    ASSUME CallInv, UNCHANGED <<caller, calls>>, Watch
    PROVE  CallInv'
<1>1. steady' \subseteq steady
    BY DEF Watch, CallInv
<1>2. RunInv(caller, steady')
    BY <1>1, LessSteady DEF CallInv
<1>3. IF caller.at = "idle" THEN steady' = {} ELSE steady' \subseteq Ready(mem', caller.slot)
    BY DEF Watch, CallInv
<1> QED
    BY <1>1, <1>2, <1>3 DEF CallInv, Ready

LEMMA CallBegins ==
    ASSUME ChainInv, NEW o \in Origins, Call(o), Watch
    PROVE  CallInv'
<1>1. caller.at = "idle" /\ calls \in Nat /\ calls' = calls + 1 /\ mem' = mem
    BY DEF Call, ChainInv, CallInv
<1>2. code[o] \in Slots
    BY DEF Call, ChainInv, HooksInv, SlotsInv
<1>3. /\ caller' = [at |-> "before", slot |-> code[o], item |-> 1, befores |-> <<>>, afters |-> <<>>]
      /\ caller' \in CallerType
    <2>1. caller' = [NoCall EXCEPT !.at = "before", !.slot = code[o], !.item = 1]
        BY DEF Call
    <2>2. caller' = [at |-> "before", slot |-> code[o], item |-> 1, befores |-> <<>>, afters |-> <<>>]
        BY <2>1 DEF NoCall
    <2> QED
        BY <1>2, <2>2 DEF CallerType
<1>4. steady' = Ready(mem, code[o])
    BY <1>1, <1>3 DEF Watch
<1>5. steady' \subseteq Items
    BY <1>4 DEF Ready
<1>6. RunInv(caller', steady')
    BY <1>3, <1>5, ItemNumbers DEF RunInv, Rises, Falls
<1> QED
    BY <1>1, <1>2, <1>3, <1>4, <1>5, <1>6 DEF CallInv, Ready

\* A step of a call that goes on: the chain stays, and so does what is steady.
LEMMA CallGoesOn ==
    ASSUME ChainInv, caller.at # "idle", UNCHANGED <<mem, calls>>, Watch,
           caller'.at # "idle", caller'.slot = caller.slot, caller' \in CallerType,
           RunInv(caller', steady)
    PROVE  CallInv'
<1>1. steady' = steady
    BY DEF Watch, ChainInv, CallInv
<1> QED
    BY <1>1 DEF ChainInv, CallInv, Ready

LEMMA CallerUpdate ==
    ASSUME caller \in CallerType, NEW b \in Seq(Nat)
    PROVE  LET c == [caller EXCEPT !.at = "before", !.item = @ + 1, !.befores = b]
               d == [caller EXCEPT !.at = "after", !.item = @ - 1, !.afters = b]
           IN  /\ c \in CallerType /\ c.at = "before" /\ c.slot = caller.slot /\ c.item = caller.item + 1
               /\ c.befores = b /\ c.afters = caller.afters
               /\ caller.item # 0 => d \in CallerType
               /\ d.at = "after" /\ d.slot = caller.slot /\ d.item = caller.item - 1
               /\ d.afters = b /\ d.befores = caller.befores
<1> DEFINE c == [caller EXCEPT !.at = "before", !.item = @ + 1, !.befores = b]
           d == [caller EXCEPT !.at = "after", !.item = @ - 1, !.afters = b]
<1>1. /\ caller.item \in Nat /\ caller.item + 1 \in Nat /\ caller.item # 0 => caller.item - 1 \in Nat
      /\ DOMAIN caller = {"at", "slot", "item", "befores", "afters"}
      /\ caller.slot \in Slots \cup {0} /\ caller.befores \in Seq(Nat) /\ caller.afters \in Seq(Nat)
    BY DEF CallerType
<1>2. /\ c.at = "before" /\ c.slot = caller.slot /\ c.item = caller.item + 1
      /\ c.befores = b /\ c.afters = caller.afters
      /\ c = [f \in {"at", "slot", "item", "befores", "afters"} |-> c[f]]
    BY <1>1
<1>3. /\ d.at = "after" /\ d.slot = caller.slot /\ d.item = caller.item - 1
      /\ d.befores = caller.befores /\ d.afters = b
      /\ d = [f \in {"at", "slot", "item", "befores", "afters"} |-> d[f]]
    BY <1>1
<1> HIDE DEF c, d
<1>4. /\ c = [at |-> c.at, slot |-> c.slot, item |-> c.item, befores |-> c.befores, afters |-> c.afters]
      /\ d = [at |-> d.at, slot |-> d.slot, item |-> d.item, befores |-> d.befores, afters |-> d.afters]
    BY <1>2, <1>3
<1>5. c \in CallerType
    BY <1>1, <1>2, <1>4 DEF CallerType
<1>6. caller.item # 0 => d \in CallerType
    BY <1>1, <1>3, <1>4 DEF CallerType
<1> QED
    BY <1>2, <1>3, <1>5, <1>6 DEF c, d

LEMMA SteadyItems ==
    ASSUME ChainInv, caller.at # "idle"
    PROVE  /\ caller.slot \in Slots /\ Sound(Chain) /\ steady \subseteq Items
           /\ Chain.max \in 0..HOOK_CHAIN_NUM
           /\ \A i \in steady : /\ Chain.states[i] = "READY" /\ Chain.cb[i] # NoCallback
                                /\ i \in Nat /\ i # 0 /\ i <= Chain.max /\ i <= HOOK_CHAIN_NUM
BY ItemNumbers DEF ChainInv, ChainsInv, CallInv, Ready, Chain, Sound, ChainType

LEMMA RisingAppend ==
    ASSUME NEW s \in Seq(Nat), NEW i \in Nat, Rises(s), \A k \in DOMAIN s : s[k] < i
    PROVE  /\ Append(s, i) \in Seq(Nat) /\ Rises(Append(s, i))
           /\ Range(Append(s, i)) = Range(s) \cup {i}
           /\ \A k \in DOMAIN Append(s, i) : Append(s, i)[k] <= i
<1> DEFINE t == Append(s, i)
<1>1. t \in Seq(Nat) /\ DOMAIN t = 1..(Len(s) + 1) /\ DOMAIN s = 1..Len(s) /\ Len(s) \in Nat
    OBVIOUS
<1>2. t[Len(s) + 1] = i /\ \A k \in DOMAIN s : t[k] = s[k] /\ s[k] \in Nat
    OBVIOUS
<1> HIDE DEF t
<1>3. \A k \in DOMAIN t : k \in DOMAIN s \/ k = Len(s) + 1
    BY <1>1
<1>4. Rises(t)
    <2> SUFFICES ASSUME NEW k \in DOMAIN t, NEW l \in DOMAIN t, k < l
                 PROVE  t[k] < t[l]
        BY DEF Rises
    <2>1. k \in DOMAIN s
        BY <1>1
    <2>2. CASE l \in DOMAIN s
        BY <1>2, <2>1, <2>2 DEF Rises
    <2>3. CASE l = Len(s) + 1
        BY <1>2, <2>1, <2>3
    <2> QED
        BY <1>3, <2>2, <2>3
<1>5. Range(t) = Range(s) \cup {i}
    <2>1. Len(s) + 1 \in DOMAIN t /\ \A k \in DOMAIN s : k \in DOMAIN t
        BY <1>1
    <2> DEFINE n == Len(s) + 1
    <2> HIDE DEF n
    <2>2. n \in DOMAIN t /\ t[n] = i /\ \A k \in DOMAIN t : k \in DOMAIN s \/ k = n
        BY <1>2, <1>3, <2>1 DEF n
    <2> QED
        BY <1>2, <2>1, <2>2, Zenon DEF Range
<1>6. \A k \in DOMAIN t : t[k] <= i
    BY <1>2, <1>3
<1> QED
    BY <1>1, <1>4, <1>5, <1>6 DEF t

LEMMA FallingAppend ==
    ASSUME NEW s \in Seq(Nat), NEW i \in Nat, Falls(s), \A k \in DOMAIN s : i < s[k]
    PROVE  /\ Append(s, i) \in Seq(Nat) /\ Falls(Append(s, i))
           /\ Range(Append(s, i)) = Range(s) \cup {i}
           /\ \A k \in DOMAIN Append(s, i) : i <= Append(s, i)[k]
<1> DEFINE t == Append(s, i)
<1>1. t \in Seq(Nat) /\ DOMAIN t = 1..(Len(s) + 1) /\ DOMAIN s = 1..Len(s) /\ Len(s) \in Nat
    OBVIOUS
<1>2. t[Len(s) + 1] = i /\ \A k \in DOMAIN s : t[k] = s[k] /\ s[k] \in Nat
    OBVIOUS
<1> HIDE DEF t
<1>3. \A k \in DOMAIN t : k \in DOMAIN s \/ k = Len(s) + 1
    BY <1>1
<1>4. Falls(t)
    <2> SUFFICES ASSUME NEW k \in DOMAIN t, NEW l \in DOMAIN t, k < l
                 PROVE  t[k] > t[l]
        BY DEF Falls
    <2>1. k \in DOMAIN s
        BY <1>1
    <2>2. CASE l \in DOMAIN s
        BY <1>2, <2>1, <2>2 DEF Falls
    <2>3. CASE l = Len(s) + 1
        BY <1>2, <2>1, <2>3
    <2> QED
        BY <1>3, <2>2, <2>3
<1>5. Range(t) = Range(s) \cup {i}
    <2>1. Len(s) + 1 \in DOMAIN t /\ \A k \in DOMAIN s : k \in DOMAIN t
        BY <1>1
    <2> DEFINE n == Len(s) + 1
    <2> HIDE DEF n
    <2>2. n \in DOMAIN t /\ t[n] = i /\ \A k \in DOMAIN t : k \in DOMAIN s \/ k = n
        BY <1>2, <1>3, <2>1 DEF n
    <2> QED
        BY <1>2, <2>1, <2>2, Zenon DEF Range
<1>6. \A k \in DOMAIN t : i <= t[k]
    BY <1>2, <1>3
<1> QED
    BY <1>1, <1>4, <1>5, <1>6 DEF t

LEMMA BeforeSteps ==
    ASSUME ChainInv, BeforeTest \/ BeforeCall, Watch
    PROVE  CallInv'
<1> DEFINE i == caller.item
<1>1. /\ caller \in CallerType /\ RunInv(caller, steady) /\ caller.at \in {"before", "callbefore"}
      /\ UNCHANGED <<mem, calls>>
    BY DEF BeforeTest, BeforeCall, ChainInv, CallInv
<1>2. /\ i \in Nat /\ i > 0 /\ caller.afters = <<>> /\ caller.befores \in Seq(Nat)
      /\ Rises(caller.befores) /\ Falls(caller.afters)
      /\ \A k \in DOMAIN caller.befores : caller.befores[k] \in Nat /\ caller.befores[k] < i
      /\ \A j \in steady : j < i => j \in Range(caller.befores)
    BY <1>1 DEF RunInv, CallerType
<1>3. CASE BeforeTest /\ i > Chain.max
    <2>1. /\ caller' = [caller EXCEPT !.at = "origin"] /\ caller' \in CallerType
          /\ caller'.at = "origin" /\ caller'.slot = caller.slot
          /\ caller'.befores = caller.befores /\ caller'.afters = caller.afters
        BY <1>1, <1>3 DEF BeforeTest, CallerType
    <2>2. RunInv(caller', steady)
        BY <1>1, <1>2, <1>3, <2>1, SteadyItems DEF RunInv
    <2> QED
        BY <1>1, <2>1, <2>2, CallGoesOn
<1>4. CASE BeforeTest /\ ~(i > Chain.max) /\ Chain.states[i] # "READY"
    <2>1. caller' = [caller EXCEPT !.item = @ + 1]
        BY <1>4 DEF BeforeTest
    <2>2. /\ caller' \in CallerType /\ caller'.at = "before" /\ caller'.slot = caller.slot
          /\ caller'.item = i + 1 /\ caller'.befores = caller.befores /\ caller'.afters = caller.afters
        BY <1>1, <1>4, <2>1 DEF BeforeTest, CallerType
    <2>3. i \notin steady /\ \A j \in steady : j \in Nat
        BY <1>1, <1>4, SteadyItems
    <2>4. RunInv(caller', steady)
        BY <1>2, <2>2, <2>3 DEF RunInv
    <2> QED
        BY <1>1, <2>2, <2>4, CallGoesOn
<1>5. CASE BeforeTest /\ ~(i > Chain.max) /\ Chain.states[i] = "READY"
    <2>1. caller' = [caller EXCEPT !.at = "callbefore"]
        BY <1>5 DEF BeforeTest
    <2>2. /\ caller' \in CallerType /\ caller'.at = "callbefore" /\ caller'.slot = caller.slot
          /\ caller'.item = i /\ caller'.befores = caller.befores /\ caller'.afters = caller.afters
        BY <1>1, <2>1 DEF CallerType
    <2>3. i \in Items
        BY <1>1, <1>2, <1>5, SteadyItems, KpmHooksAssumption DEF Items
    <2>4. RunInv(caller', steady)
        BY <1>2, <2>2, <2>3 DEF RunInv
    <2> QED
        BY <1>1, <2>2, <2>4, CallGoesOn
<1>6. CASE BeforeCall /\ Chain.cb[i] = NoCallback
    <2>1. caller' = [caller EXCEPT !.at = "before", !.item = @ + 1, !.befores = caller.befores]
        BY <1>6 DEF BeforeCall
    <2>2. /\ caller' \in CallerType /\ caller'.at = "before" /\ caller'.slot = caller.slot
          /\ caller'.item = i + 1 /\ caller'.befores = caller.befores /\ caller'.afters = caller.afters
        BY <1>1, <1>2, <2>1, CallerUpdate
    <2>3. i \notin steady /\ \A j \in steady : j \in Nat
        BY <1>1, <1>6, SteadyItems
    <2>4. RunInv(caller', steady)
        BY <1>2, <2>2, <2>3 DEF RunInv
    <2> QED
        BY <1>1, <2>2, <2>4, CallGoesOn
<1>7. CASE BeforeCall /\ Chain.cb[i] # NoCallback
    <2> DEFINE b == Append(caller.befores, i)
    <2>1. caller' = [caller EXCEPT !.at = "before", !.item = @ + 1, !.befores = b]
        BY <1>7 DEF BeforeCall
    <2>2. /\ b \in Seq(Nat) /\ Rises(b) /\ Range(b) = Range(caller.befores) \cup {i}
          /\ \A k \in DOMAIN b : b[k] <= i
        BY <1>2, RisingAppend
    <2> HIDE DEF b
    <2>3. /\ caller' \in CallerType /\ caller'.at = "before" /\ caller'.slot = caller.slot
          /\ caller'.item = i + 1 /\ caller'.befores = b /\ caller'.afters = caller.afters
        BY <1>1, <1>2, <2>1, <2>2, CallerUpdate
    <2>4. \A j \in steady : j \in Nat
        BY <1>1, SteadyItems
    <2>5. \A k \in DOMAIN b : b[k] < i + 1
        BY <1>2, <2>2
    <2>6. \A j \in steady : j < i + 1 => j \in Range(b)
        BY <1>2, <2>2, <2>4
    <2>7. RunInv(caller', steady)
        BY <1>2, <2>2, <2>3, <2>5, <2>6 DEF RunInv
    <2> QED
        BY <1>1, <2>3, <2>7, CallGoesOn
<1> QED
    BY <1>3, <1>4, <1>5, <1>6, <1>7

LEMMA AfterSteps ==
    ASSUME ChainInv, OriginCall \/ AfterTest \/ AfterCall, Watch
    PROVE  CallInv' \/ caller'.at = "idle"
<1> DEFINE i == caller.item
<1> SUFFICES ASSUME caller'.at # "idle"
             PROVE  CallInv'
    OBVIOUS
<1>1. /\ caller \in CallerType /\ RunInv(caller, steady) /\ caller.at \in {"origin", "after", "callafter"}
      /\ UNCHANGED <<mem, calls>>
    BY DEF OriginCall, AfterTest, AfterCall, ChainInv, CallInv
<1>2. /\ i \in Nat /\ caller.befores \in Seq(Nat) /\ caller.afters \in Seq(Nat)
      /\ Rises(caller.befores) /\ Falls(caller.afters) /\ steady \subseteq Range(caller.befores)
    BY <1>1 DEF RunInv, CallerType
<1>3. CASE OriginCall
    <2>1. caller' = [caller EXCEPT !.at = "after", !.item = Chain.max]
        BY <1>3 DEF OriginCall
    <2>2. caller.at = "origin" /\ caller.afters = <<>>
        BY <1>1, <1>3 DEF OriginCall, RunInv
    <2>3. Chain.max \in Nat /\ Chain.max <= HOOK_CHAIN_NUM
        BY <2>2, SteadyItems
    <2>4. /\ caller' \in CallerType /\ caller'.at = "after" /\ caller'.slot = caller.slot
          /\ caller'.item = Chain.max /\ caller'.befores = caller.befores /\ caller'.afters = caller.afters
        BY <1>1, <2>1, <2>3 DEF CallerType
    <2>5. \A j \in steady : ~(Chain.max < j)
        BY <2>2, <2>3, SteadyItems
    <2>6. RunInv(caller', steady)
        BY <1>2, <2>2, <2>3, <2>4, <2>5 DEF RunInv
    <2> QED
        BY <1>1, <2>2, <2>4, <2>6, CallGoesOn
<1>4. CASE ~OriginCall
    <2>1. /\ i <= HOOK_CHAIN_NUM
          /\ \A k \in DOMAIN caller.afters : i < caller.afters[k]
          /\ \A j \in steady : i < j => j \in Range(caller.afters)
          /\ \A j \in steady : j \in Nat
        BY <1>1, <1>4, SteadyItems DEF RunInv, AfterTest, AfterCall
    <2>2. CASE AfterTest /\ i = 0
        BY <2>2, NoCallHas DEF AfterTest
    <2>3. CASE AfterTest /\ i # 0 /\ Chain.states[i] # "READY"
        <3>1. caller' = [caller EXCEPT !.item = @ - 1] /\ caller.at = "after"
            BY <2>3 DEF AfterTest
        <3>2. i - 1 \in Nat
            BY <1>2, <2>3
        <3>3. /\ caller' \in CallerType /\ caller'.at = "after" /\ caller'.slot = caller.slot
              /\ caller'.item = i - 1 /\ caller'.befores = caller.befores /\ caller'.afters = caller.afters
            BY <1>1, <3>1, <3>2 DEF CallerType
        <3>4. i \notin steady
            BY <1>1, <2>3, SteadyItems
        <3>5. RunInv(caller', steady)
            BY <1>2, <2>1, <3>2, <3>3, <3>4, KpmHooksAssumption DEF RunInv
        <3> QED
            BY <1>1, <3>3, <3>5, CallGoesOn
    <2>4. CASE AfterTest /\ i # 0 /\ Chain.states[i] = "READY"
        <3>1. caller' = [caller EXCEPT !.at = "callafter"]
            BY <2>4 DEF AfterTest
        <3>2. /\ caller' \in CallerType /\ caller'.at = "callafter" /\ caller'.slot = caller.slot
              /\ caller'.item = i /\ caller'.befores = caller.befores /\ caller'.afters = caller.afters
            BY <1>1, <3>1 DEF CallerType
        <3>3. i \in Items
            BY <1>2, <2>1, <2>4, KpmHooksAssumption DEF Items
        <3>4. RunInv(caller', steady)
            BY <1>2, <2>1, <3>2, <3>3 DEF RunInv
        <3> QED
            BY <1>1, <3>2, <3>4, CallGoesOn
    <2>5. CASE AfterCall
        <3>1. i \in Items /\ i # 0 /\ i - 1 \in Nat
            BY <1>1, <2>5, ItemNumbers DEF AfterCall, RunInv
        <3>2. CASE Chain.cb[i] = NoCallback
            <4>1. caller' = [caller EXCEPT !.at = "after", !.item = @ - 1, !.afters = caller.afters]
                BY <2>5, <3>2 DEF AfterCall
            <4>2. /\ caller' \in CallerType /\ caller'.at = "after" /\ caller'.slot = caller.slot
                  /\ caller'.item = i - 1 /\ caller'.befores = caller.befores /\ caller'.afters = caller.afters
                BY <1>1, <1>2, <3>1, <4>1, CallerUpdate
            <4>3. i \notin steady
                BY <1>1, <3>2, SteadyItems
            <4>4. RunInv(caller', steady)
                BY <1>2, <2>1, <3>1, <4>2, <4>3, KpmHooksAssumption DEF RunInv
            <4> QED
                BY <1>1, <4>2, <4>4, CallGoesOn
        <3>3. CASE Chain.cb[i] # NoCallback
            <4> DEFINE a == Append(caller.afters, i)
            <4>1. caller' = [caller EXCEPT !.at = "after", !.item = @ - 1, !.afters = a]
                BY <2>5, <3>3 DEF AfterCall
            <4>2. /\ a \in Seq(Nat) /\ Falls(a) /\ Range(a) = Range(caller.afters) \cup {i}
                  /\ \A k \in DOMAIN a : i <= a[k] /\ a[k] \in Nat
                BY <1>2, <2>1, FallingAppend
            <4> HIDE DEF a
            <4>3. /\ caller' \in CallerType /\ caller'.at = "after" /\ caller'.slot = caller.slot
                  /\ caller'.item = i - 1 /\ caller'.befores = caller.befores /\ caller'.afters = a
                BY <1>1, <3>1, <4>1, <4>2, CallerUpdate
            <4>4. \A k \in DOMAIN a : i - 1 < a[k]
                BY <1>2, <4>2
            <4>5. \A j \in steady : i - 1 < j => j \in Range(a)
                BY <1>2, <2>1, <4>2
            <4>6. i - 1 <= HOOK_CHAIN_NUM
                BY <1>2, <2>1, KpmHooksAssumption
            <4>7. RunInv(caller', steady)
                BY <1>2, <4>2, <4>3, <4>4, <4>5, <4>6 DEF RunInv
            <4> QED
                BY <1>1, <4>3, <4>7, CallGoesOn
        <3> QED
            BY <3>2, <3>3
    <2> QED
        BY <1>4, <2>2, <2>3, <2>4, <2>5
<1> QED
    BY <1>3, <1>4

\* The only step that ends a call.
LEMMA CallEnds ==
    ASSUME caller'.at = "idle", OriginCall \/ AfterTest \/ AfterCall, caller \in CallerType
    PROVE  /\ caller' = NoCall /\ UNCHANGED <<mem, calls>>
           /\ caller.at = "after" /\ caller.item = 0
<1>1. DOMAIN caller = {"at", "slot", "item", "befores", "afters"}
    BY DEF CallerType
<1>2. ~OriginCall
    BY <1>1 DEF OriginCall
<1>3. ~AfterCall
    BY <1>1 DEF AfterCall
<1>4. AfterTest /\ caller.at = "after"
    BY <1>2, <1>3 DEF AfterTest
<1>5. caller.item = 0
    BY <1>1, <1>4 DEF AfterTest
<1> QED
    BY <1>4, <1>5 DEF AfterTest

LEMMA ChainStep ==
    ASSUME ChainInv, [KpmHooksNext]_kpmHooksVars
    PROVE  ChainInv'
<1>1. HooksInv'
    BY HooksStep DEF ChainInv
<1>2. CASE Change /\ Watch
    <2>1. UNCHANGED <<caller, calls>>
        BY <1>2 DEF Change, hook, unhook, WrapKnown, hook_wrap, fp_hook_wrap, hook_unwrap_remove,
                    AddClaim, AddFill, AddReady, Install, RemoveBusy, RemoveClear, RemoveEmpty, RemoveLast
    <2>2. ChainsInv'
        BY <1>1, <1>2, ChainsChange DEF ChainInv
    <2>3. CallInv'
        BY <1>2, <2>1, ChangeKeepsCall DEF ChainInv
    <2> QED
        BY <1>1, <2>2, <2>3 DEF ChainInv
<1>3. CASE Run /\ Watch
    <2>1. ChainsInv'
        BY <1>3 DEF ChainInv, ChainsInv, Run, Call, BeforeTest, BeforeCall, OriginCall, AfterTest, AfterCall
    <2>2. CASE \E o \in Origins : Call(o)
        BY <1>1, <1>3, <2>1, <2>2, CallBegins DEF ChainInv
    <2>3. CASE BeforeTest \/ BeforeCall
        BY <1>1, <1>3, <2>1, <2>3, BeforeSteps DEF ChainInv
    <2>4. CASE OriginCall \/ AfterTest \/ AfterCall
        <3>1. CASE caller'.at = "idle"
            <4>1. caller' = NoCall /\ UNCHANGED <<mem, calls>>
                BY <2>4, <3>1, CallEnds DEF ChainInv, CallInv
            <4>2. steady' = {} /\ calls' \in Nat
                BY <1>3, <3>1, <4>1 DEF Watch, ChainInv, CallInv
            <4>3. CallInv'
                BY <3>1, <4>1, <4>2, NoCallHas DEF CallInv
            <4> QED
                BY <1>1, <2>1, <4>3 DEF ChainInv
        <3>2. CASE caller'.at # "idle"
            BY <1>1, <1>3, <2>1, <2>4, <3>2, AfterSteps DEF ChainInv
        <3> QED
            BY <3>1, <3>2
    <2> QED
        BY <1>3, <2>2, <2>3, <2>4 DEF Run
<1>4. CASE UNCHANGED kpmHooksVars
    BY <1>1, <1>4 DEF ChainInv, ChainsInv, CallInv, Ready, kpmHooksVars
<1> QED
    BY <1>2, <1>3, <1>4 DEF KpmHooksNext

\* A call that has ended has been through the whole chain, there and back.
LEMMA CallMirrors ==
    ASSUME ChainInv, [KpmHooksNext]_kpmHooksVars, caller.at # "idle", caller'.at = "idle"
    PROVE  /\ steady \subseteq Range(caller.befores) \cap Range(caller.afters)
           /\ \A i, j \in DOMAIN caller.befores : i < j => caller.befores[i] < caller.befores[j]
           /\ \A i, j \in DOMAIN caller.afters : i < j => caller.afters[i] > caller.afters[j]
<1>1. OriginCall \/ AfterTest \/ AfterCall
    <2>1. CASE Change
        BY <2>1 DEF Change, hook, unhook, WrapKnown, hook_wrap, fp_hook_wrap, hook_unwrap_remove,
                    AddClaim, AddFill, AddReady, Install, RemoveBusy, RemoveClear, RemoveEmpty, RemoveLast
    <2>2. CASE BeforeTest \/ BeforeCall
        <3>1. DOMAIN caller = {"at", "slot", "item", "befores", "afters"}
              /\ caller.at \in {"before", "callbefore"}
            BY <2>2 DEF ChainInv, CallInv, CallerType, BeforeTest, BeforeCall
        <3>2. caller'.at \in {"before", "callbefore", "origin"}
            BY <2>2, <3>1 DEF BeforeTest, BeforeCall
        <3> QED
            BY <3>2
    <2>3. CASE UNCHANGED kpmHooksVars
        BY <2>3 DEF kpmHooksVars
    <2> QED
        BY <2>1, <2>2, <2>3 DEF KpmHooksNext, Run, Call
<1>2. caller.at = "after" /\ caller.item = 0
    BY <1>1, CallEnds DEF ChainInv, CallInv
<1>3. RunInv(caller, steady) /\ \A i \in steady : 0 < i
    BY ItemNumbers DEF ChainInv, CallInv
<1> QED
    BY <1>2, <1>3 DEF RunInv, Rises, Falls

\* MirrorCalls: a call runs each callback that is in the chain all the time
\* before the original and after it, in opposite orders, while hook_chain_add(),
\* hook_chain_remove(), hook() and unhook() change chains and slots.
THEOREM CallsCorrect == KpmHooksSpec => MirrorCalls
<1>1. KpmHooksSpec => []ChainInv
    BY ChainStart, ChainStep, PTL DEF KpmHooksSpec
<1>2. ChainInv /\ [KpmHooksNext]_kpmHooksVars =>
        [caller.at # "idle" /\ caller'.at = "idle" =>
           /\ steady \subseteq Range(caller.befores) \cap Range(caller.afters)
           /\ \A i, j \in DOMAIN caller.befores : i < j => caller.befores[i] < caller.befores[j]
           /\ \A i, j \in DOMAIN caller.afters : i < j => caller.afters[i] > caller.afters[j]]_kpmHooksVars
    BY CallMirrors
<1> QED
    BY <1>1, <1>2, PTL DEF KpmHooksSpec, MirrorCalls

-----------------------------------------------------------------------------
(* The storage. A key orders the list: it falls from the head to the end,  *)
(* a replacement inherits it, and what goes to the head gets a larger one. *)
(* An element that was unlinked keeps its key, so that a read that stands  *)
(* on it still has ahead of it what a walk of the list from there meets.   *)

Cells == 0..Elements
Keys == [Cells -> Int]

\* From m the next element is in V, and none of L is jumped over.
Onward(e, L, V, key, m) ==
    /\ e[m].next \in V \cup {0}
    /\ \A c \in L : key[c] < key[m] => e[m].next # 0 /\ key[c] <= key[e[m].next]

\* The elements L are a list in the order of the key.
Linked(e, L, key) ==
    /\ L \subseteq Elems
    /\ \A m \in L \cup {0} : Onward(e, L, L, key, m) /\ (e[m].next # 0 => key[e[m].next] < key[m])
    /\ \A n \in L : key[n] < key[0] /\ e[n].mem = "used" /\ \E p \in L \cup {0} : e[p].next = n
    /\ \A m, n \in L : key[m] = key[n] \/ e[m].did = e[n].did => m = n

\* An unlinked element may only have the key of its replacement.
Left(e, L, key, m) == key[m] < key[0] /\ \A c \in L : key[c] = key[m] => e[c].did = e[m].did

\* The element that is unlinked and not yet given to call_rcu().
Pending(s) == IF s.at \in {"reclaim", "count"} THEN {s.old} ELSE {}

\* The unlinked elements that the read v of r may still meet.
Stale(e, s, wt, v, r) ==
    {m \in Elems : /\ e[m].mem = "unlinked"
                   /\ m \in Pending(s) \/ (m \in DOMAIN wt /\ r \in wt[m])
                   /\ e[m].did = v.did => m \in v.seen}

View(e, L, st, key, v) ==
    /\ \A m \in st : Onward(e, L, L \cup st, key, m) /\ Left(e, L, key, m)
    /\ v.pos \in L \cup st \cup {0}
    /\ Current(e, v.did) \in v.seen
    /\ v.at = "walk" => Absent \in v.seen \/ \E c \in L : e[c].did = v.did /\ key[c] < key[v.pos]
    /\ v.at = "copy" => v.pos \in v.seen
    /\ v.at = "absent" => Absent \in v.seen

ElemTypes == [mem : {"free", "used", "unlinked"}, did : Dids \cup {Absent}, next : Cells]
ViewTypes == [at : {"idle", "walk", "copy", "absent"}, did : Dids \cup {AllDids, Absent}, pos : Cells, seen : SUBSET Cells]

StoreTypes ==
    /\ elem \in [Cells -> ElemTypes]
    /\ writer \in [at : {"idle", "alloc", "link", "reclaim", "count"}, did : Dids \cup {Absent},
                   old : Cells, new : Cells]
    /\ reader \in [StoreReaders -> ViewTypes]

MemoryInv ==
    /\ elem[0].mem = "used"
    /\ DOMAIN waiting \subseteq Elems
    /\ \A n \in DOMAIN waiting :
          elem[n].mem = "unlinked" /\ waiting[n] \subseteq {r \in StoreReaders : reader[r].at # "idle"}

WriterInv(L, key) ==
    /\ writer.at \in {"alloc", "link"} => writer.old = Current(elem, writer.did)
    /\ writer.at = "link" =>
          writer.new \in Elems \ L /\ elem[writer.new].mem = "used" /\ elem[writer.new].did = writer.did
    /\ writer.at \in {"reclaim", "count"} =>
          /\ writer.old \in Elems /\ writer.old \notin DOMAIN waiting /\ elem[writer.old].mem = "unlinked"
          /\ Onward(elem, L, L, key, writer.old) /\ Left(elem, L, key, writer.old)
    /\ group_size = Cardinality(L) + (IF writer.at = "count" THEN 1 ELSE 0)

ReaderInv(L, key) ==
    \A r \in StoreReaders :
        IF reader[r].at = "idle" THEN reader[r].pos = 0
        ELSE View(elem, L, Stale(elem, writer, waiting, reader[r], r), key, reader[r])

Ordered(L, key) == Linked(elem, L, key) /\ WriterInv(L, key) /\ ReaderInv(L, key)

StoreInv == StoreTypes /\ MemoryInv /\ \E L \in SUBSET Elems, key \in Keys : Ordered(L, key)

LEMMA ElemNumbers == Elements \in Nat /\ Elems \subseteq Cells /\ 0 \in Cells /\ 0 \notin Elems /\ Elems = Cells \ {0}
BY KpmStoreAssumption DEF Elems, Cells

\* What is linked is what a walk meets.
LEMMA ListedIs ==
    ASSUME NEW e, NEW L, NEW key \in Keys, Linked(e, L, key)
    PROVE  Listed(e) = L
<1> DEFINE Closed(X) == \A n \in X \cup {0} : e[n].next \in X \cup {0}
<1>1. Listed(e) = {n \in Elems : \A X \in SUBSET Elems : Closed(X) => n \in X}
    BY DEF Listed
<1>2. L \in SUBSET Elems /\ Closed(L)
    BY DEF Linked, Onward
<1>3. ASSUME NEW X \in SUBSET Elems, Closed(X)
      PROVE  L \subseteq X
    <2> SUFFICES ASSUME L \ X # {}
                 PROVE  FALSE
        OBVIOUS
    <2> DEFINE T == {key[0] - key[n] : n \in L \ X}
    <2>1. \A n \in L \ X : key[0] - key[n] \in Nat /\ key[n] \in Int
        BY <1>2, ElemNumbers DEF Linked, Keys
    <2>2. T \subseteq Nat /\ T # {}
        BY <2>1
    <2>3. PICK t \in T : \A u \in T : t <= u
        BY <2>2, LeastNumber
    <2>4. PICK n \in L \ X : t = key[0] - key[n]
        OBVIOUS
    <2>5. PICK p \in L \cup {0} : e[p].next = n /\ key[n] < key[p]
        <3>1. PICK p \in L \cup {0} : e[p].next = n
            BY DEF Linked
        <3>2. n # 0
            BY <1>2, ElemNumbers
        <3> QED
            BY <3>1, <3>2 DEF Linked
    <2>6. p \notin X \cup {0}
        BY <1>3, <2>4, <2>5, <1>2, ElemNumbers
    <2>7. key[0] - key[p] \in T
        BY <2>5, <2>6
    <2>8. key[0] \in Int /\ key[p] \in Int /\ key[n] \in Int
        BY <1>2, <2>4, <2>5, ElemNumbers DEF Keys
    <2> HIDE DEF T
    <2> QED
        BY <2>3, <2>4, <2>5, <2>7, <2>8
<1> HIDE DEF Closed
<1> QED
    BY <1>1, <1>2, <1>3

LEMMA CurrentIs ==
    ASSUME NEW e, NEW L, NEW key \in Keys, Linked(e, L, key), NEW d
    PROVE  /\ Current(e, d) \in Cells
           /\ Current(e, d) = Absent => \A n \in L : e[n].did # d
           /\ Current(e, d) # Absent => Current(e, d) \in L /\ e[Current(e, d)].did = d
           /\ \A n \in L : e[n].did = d => Current(e, d) = n
<1> DEFINE has == {n \in Listed(e) : e[n].did = d}
<1>0. Listed(e) = L
    BY ListedIs
<1>1. Current(e, d) = IF has = {} THEN Absent ELSE CHOOSE n \in has : TRUE
    BY DEF Current
<1>2. has # {} => (CHOOSE n \in has : TRUE) \in has
    OBVIOUS
<1>3. L \subseteq Elems /\ \A m, n \in L : e[m].did = e[n].did => m = n
    BY DEF Linked
<1> QED
    BY <1>0, <1>1, <1>2, <1>3, ElemNumbers DEF Absent

LEMMA BeforeIs ==
    ASSUME NEW e, NEW L, NEW key \in Keys, Linked(e, L, key), NEW n \in L
    PROVE  /\ Before(e, n) \in L \cup {0} /\ e[Before(e, n)].next = n
           /\ key[n] < key[Before(e, n)]
           /\ \A p \in L \cup {0} : e[p].next = n => p = Before(e, n)
<1>1. PICK p \in L \cup {0} : e[p].next = n
    BY DEF Linked
<1>2. Before(e, n) \in L \cup {0} /\ e[Before(e, n)].next = n
    BY <1>1, ListedIs DEF Before
<1>3. n # 0 /\ \A q \in L \cup {0} : key[q] \in Int
    BY ElemNumbers DEF Linked, Keys
<1>4. \A q \in L \cup {0} : e[q].next = n => key[n] < key[q] /\ \A c \in L : key[c] < key[q] => key[c] <= key[n]
    BY <1>3 DEF Linked, Onward
<1>5. ASSUME NEW q \in L \cup {0}, NEW s \in L \cup {0}, e[q].next = n, e[s].next = n
      PROVE  q = s
    <2>1. ~(key[q] < key[s]) /\ ~(key[s] < key[q])
        BY <1>3, <1>4, <1>5 DEF Linked
    <2>2. key[q] = key[s]
        BY <1>3, <2>1
    <2> QED
        BY <1>3, <2>2 DEF Linked
<1> QED
    BY <1>2, <1>4, <1>5

\* A state whose list and seen elements are as they were.
LEMMA SameLinked ==
    ASSUME NEW e, NEW e2, NEW L, NEW key \in Keys, Linked(e, L, key),
           \A m \in L \cup {0} : e2[m] = e[m]
    PROVE  Linked(e2, L, key) /\ \A d : Current(e2, d) = Current(e, d)
<1>1. Linked(e2, L, key)
    BY DEF Linked, Onward
<1>2. \A d : Current(e2, d) = Current(e, d)
    <2> TAKE d
    <2>1. CASE Current(e, d) = Absent
        <3>1. \A n \in L : e2[n].did # d
            BY <2>1, CurrentIs
        <3>2. Current(e2, d) # Absent => Current(e2, d) \in L /\ e2[Current(e2, d)].did = d
            BY <1>1, CurrentIs
        <3> QED
            BY <2>1, <3>1, <3>2
    <2>2. CASE Current(e, d) # Absent
        <3>1. Current(e, d) \in L /\ e2[Current(e, d)].did = d
            BY <2>2, CurrentIs
        <3>2. \A n \in L : e2[n].did = d => Current(e2, d) = n
            BY <1>1, CurrentIs
        <3> QED
            BY <3>1, <3>2
    <2> QED
        BY <2>1, <2>2
<1> QED
    BY <1>1, <1>2

LEMMA SameView ==
    ASSUME NEW e, NEW e2, NEW L, NEW key \in Keys, Linked(e, L, key), NEW st, NEW v,
           \A m \in L \cup {0} \cup st : e2[m] = e[m], View(e, L, st, key, v)
    PROVE  View(e2, L, st, key, v)
<1>1. Current(e2, v.did) = Current(e, v.did)
    BY SameLinked
<1> QED
    BY <1>1 DEF View, Onward, Left

-----------------------------------------------------------------------------
(* The three changes of the list                                           *)

\* old is unlinked.
Removed(e, e2, old, p) ==
    \A m \in Cells :
        /\ e2[m].did = e[m].did
        /\ e2[m].next = IF m = p THEN e[old].next ELSE e[m].next
        /\ e2[m].mem = IF m = old THEN "unlinked" ELSE e[m].mem

\* new takes the place of old.
Replaced(e, e2, old, new, p) ==
    \A m \in Cells :
        /\ e2[m].did = e[m].did
        /\ e2[m].next = IF m = new THEN e[old].next ELSE IF m = p THEN new ELSE e[m].next
        /\ e2[m].mem = IF m = old THEN "unlinked" ELSE e[m].mem

\* new goes to the head.
Added(e, e2, new) ==
    \A m \in Cells :
        /\ e2[m].did = e[m].did /\ e2[m].mem = e[m].mem
        /\ e2[m].next = IF m = new THEN e[0].next ELSE IF m = 0 THEN new ELSE e[m].next

LEMMA RemoveLinks ==
    ASSUME NEW e, NEW e2, NEW L, NEW key \in Keys, Linked(e, L, key), NEW old \in L,
           Removed(e, e2, old, Before(e, old))
    PROVE  /\ Linked(e2, L \ {old}, key)
           /\ Onward(e2, L \ {old}, L \ {old}, key, old) /\ Left(e2, L \ {old}, key, old)
<1> DEFINE p == Before(e, old)
           M == L \ {old}
<1>1. /\ p \in L \cup {0} /\ e[p].next = old /\ key[old] < key[p]
      /\ \A q \in L \cup {0} : q # p => e[q].next # old
    BY BeforeIs
<1>2. /\ L \subseteq Elems /\ L \cup {0} \subseteq Cells /\ old # 0 /\ 0 \notin L
      /\ \A m \in L \cup {0} : key[m] \in Int
    BY ElemNumbers DEF Linked, Keys
<1>3. p # old
    BY <1>1, <1>2
<1>4. /\ \A m \in L \cup {0} : e2[m].did = e[m].did
      /\ e2[p].next = e[old].next
      /\ \A m \in L \cup {0} : m # p => e2[m].next = e[m].next
      /\ \A m \in L \cup {0} : m # old => e2[m].mem = e[m].mem
    <2>1. \A m \in Cells :
              /\ e2[m].did = e[m].did
              /\ e2[m].next = IF m = p THEN e[old].next ELSE e[m].next
              /\ e2[m].mem = IF m = old THEN "unlinked" ELSE e[m].mem
        BY DEF Removed
    <2> HIDE DEF p
    <2> QED
        BY <1>1, <1>2, <1>3, <2>1
<1> HIDE DEF p
<1>5. \A m, n \in L : key[m] = key[n] \/ e[m].did = e[n].did => m = n
    BY DEF Linked
<1>6. e[old].next \in M \cup {0} /\ (e[old].next # 0 => key[e[old].next] < key[old])
    BY <1>2 DEF Linked, Onward
<1>7. \A m \in M \cup {0} : Onward(e2, M, M, key, m) /\ (e2[m].next # 0 => key[e2[m].next] < key[m])
    <2>1. ASSUME NEW m \in M \cup {0}, m # p
          PROVE  Onward(e2, M, M, key, m) /\ (e2[m].next # 0 => key[e2[m].next] < key[m])
        BY <1>1, <1>4, <2>1 DEF Linked, Onward
    <2>2. Onward(e2, M, M, key, p) /\ (e2[p].next # 0 => key[e2[p].next] < key[p])
        <3>1. e2[p].next # 0 => key[e2[p].next] < key[p]
            BY <1>1, <1>2, <1>4, <1>6
        <3>2. ASSUME NEW c \in M, key[c] < key[p]
              PROVE  e[old].next # 0 /\ key[c] <= key[e[old].next]
            <4>1. key[c] <= key[old]
                BY <1>1, <3>2 DEF Linked, Onward
            <4>2. key[c] < key[old]
                BY <1>2, <1>5, <4>1
            <4> QED
                BY <4>2 DEF Linked, Onward
        <3> QED
            BY <1>4, <1>6, <3>1, <3>2 DEF Onward
    <2> QED
        BY <2>1, <2>2
<1>8. \A n \in M : key[n] < key[0] /\ e2[n].mem = "used" /\ \E q \in M \cup {0} : e2[q].next = n
    <2> TAKE n \in M
    <2>1. key[n] < key[0] /\ e2[n].mem = "used"
        BY <1>4 DEF Linked
    <2>2. PICK q \in L \cup {0} : e[q].next = n
        BY DEF Linked
    <2>3. CASE q = old
        <3>1. e2[p].next = n /\ p \in M \cup {0}
            BY <1>1, <1>3, <1>4, <2>2, <2>3
        <3> QED
            BY <2>1, <3>1
    <2>4. CASE q # old
        <3>1. q # p
            BY <1>1, <2>2
        <3> QED
            BY <1>4, <2>1, <2>2, <2>4, <3>1
    <2> QED
        BY <2>3, <2>4
<1>9. \A m, n \in M : key[m] = key[n] \/ e2[m].did = e2[n].did => m = n
    BY <1>4, <1>5
<1>10. Linked(e2, M, key)
    BY <1>2, <1>7, <1>8, <1>9 DEF Linked
<1>11. Onward(e2, M, M, key, old) /\ Left(e2, M, key, old)
    BY <1>2, <1>3, <1>4, <1>5, <1>6 DEF Linked, Onward, Left
<1> QED
    BY <1>10, <1>11

LEMMA ReplaceLinks ==
    ASSUME NEW e, NEW e2, NEW L, NEW key \in Keys, Linked(e, L, key), NEW old \in L,
           NEW new \in Elems \ L, e[new].mem = "used", e[new].did = e[old].did,
           Replaced(e, e2, old, new, Before(e, old)),
           NEW k2, k2 = [key EXCEPT ![new] = key[old]]
    PROVE  /\ k2 \in Keys /\ Linked(e2, (L \ {old}) \cup {new}, k2)
           /\ Onward(e2, (L \ {old}) \cup {new}, (L \ {old}) \cup {new}, k2, old)
           /\ Left(e2, (L \ {old}) \cup {new}, k2, old)
<1> DEFINE p == Before(e, old)
           K == L \ {old}
           M == K \cup {new}
<1>1. /\ p \in L \cup {0} /\ e[p].next = old /\ key[old] < key[p]
      /\ \A q \in L \cup {0} : q # p => e[q].next # old
    BY BeforeIs
<1>2. /\ L \subseteq Elems /\ L \cup {0} \subseteq Cells /\ old # 0 /\ new # 0 /\ new # old /\ 0 \notin L
      /\ \A m \in L \cup {0} : key[m] \in Int
    BY ElemNumbers DEF Linked, Keys
<1>3. p # old /\ p # new
    BY <1>1, <1>2
<1>4. /\ \A m \in L \cup {0, new} : e2[m].did = e[m].did
      /\ e2[p].next = new /\ e2[new].next = e[old].next
      /\ \A m \in L \cup {0} : m # p => e2[m].next = e[m].next
      /\ \A m \in L \cup {0, new} : m # old => e2[m].mem = e[m].mem
    <2>1. \A m \in Cells :
              /\ e2[m].did = e[m].did
              /\ e2[m].next = IF m = new THEN e[old].next ELSE IF m = p THEN new ELSE e[m].next
              /\ e2[m].mem = IF m = old THEN "unlinked" ELSE e[m].mem
        BY DEF Replaced
    <2>2. new \in Cells
        BY ElemNumbers
    <2> HIDE DEF p
    <2> QED
        BY <1>1, <1>2, <1>3, <2>1, <2>2
<1> HIDE DEF p
<1>5. \A m, n \in L : key[m] = key[n] \/ e[m].did = e[n].did => m = n
    BY DEF Linked
<1>6. e[old].next \in K \cup {0} /\ (e[old].next # 0 => key[e[old].next] < key[old])
    BY <1>2 DEF Linked, Onward
<1>7. /\ k2 \in Keys /\ k2[new] = key[old]
      /\ \A m \in Cells : m # new => k2[m] = key[m]
    BY <1>2, ElemNumbers DEF Keys
<1>8. \A m \in L \cup {0} : k2[m] = key[m]
    BY <1>2, <1>7
<1>9. \A m \in L \cup {0} : \A c \in M : k2[c] < key[m] =>
          \E b \in L : key[b] = k2[c] /\ key[b] < key[m] /\ (b = old <=> c = new)
    <2> TAKE m \in L \cup {0}
    <2> TAKE c \in M
    <2>1. CASE c = new
        BY <1>7, <2>1
    <2>2. CASE c # new
        BY <1>8, <2>2
    <2> QED
        BY <2>1, <2>2
<1>10. \A m \in L \cup {0} : \A c \in M : k2[c] < key[m] => e[m].next # 0 /\ k2[c] <= key[e[m].next]
    BY <1>9 DEF Linked, Onward
<1>11. \A m \in K \cup {0} : m # p => Onward(e2, M, M, k2, m) /\ (e2[m].next # 0 => k2[e2[m].next] < k2[m])
    <2> TAKE m \in K \cup {0}
    <2> SUFFICES ASSUME m # p
                 PROVE  Onward(e2, M, M, k2, m) /\ (e2[m].next # 0 => k2[e2[m].next] < k2[m])
        OBVIOUS
    <2>1. e2[m].next = e[m].next /\ k2[m] = key[m] /\ e[m].next # old
        BY <1>1, <1>4, <1>8
    <2>2. e[m].next \in L \cup {0} /\ (e[m].next # 0 => key[e[m].next] < key[m])
        BY DEF Linked, Onward
    <2>3. k2[e[m].next] = key[e[m].next]
        BY <1>8, <2>2
    <2> QED
        BY <1>10, <2>1, <2>2, <2>3 DEF Onward
<1>12. p # 0 => p \in K
    BY <1>1, <1>3
<1>13. Onward(e2, M, M, k2, p) /\ k2[e2[p].next] < k2[p]
    BY <1>1, <1>2, <1>4, <1>7, <1>8, <1>10 DEF Onward
<1>14. \A m \in {old, new} : Onward(e2, M, M, k2, m) /\ (e2[m].next # 0 => k2[e2[m].next] < k2[m])
    <2> TAKE m \in {old, new}
    <2>1. e2[m].next = e[old].next /\ k2[m] = key[old]
        BY <1>2, <1>3, <1>4, <1>7, <1>8
    <2>2. k2[e[old].next] = key[e[old].next]
        BY <1>6, <1>8
    <2> QED
        BY <1>6, <1>10, <2>1, <2>2 DEF Onward
<1>15. \A n \in M : k2[n] < k2[0] /\ e2[n].mem = "used" /\ \E q \in M \cup {0} : e2[q].next = n
    <2> TAKE n \in M
    <2>1. k2[n] < k2[0]
        BY <1>2, <1>7, <1>8 DEF Linked
    <2>2. e2[n].mem = "used"
        BY <1>2, <1>4 DEF Linked
    <2>3. CASE n = new
        BY <1>4, <1>12, <2>1, <2>2, <2>3
    <2>4. CASE n # new
        <3>1. PICK q \in L \cup {0} : e[q].next = n
            BY <2>4 DEF Linked
        <3>2. CASE q = old
            BY <1>4, <2>1, <2>2, <3>1, <3>2
        <3>3. CASE q # old
            <4>1. q # p
                BY <1>1, <2>4, <3>1
            <4> QED
                BY <1>4, <2>1, <2>2, <3>1, <3>3, <4>1
        <3> QED
            BY <3>2, <3>3
    <2> QED
        BY <2>3, <2>4
<1>16. \A m, n \in M : k2[m] = k2[n] \/ e2[m].did = e2[n].did => m = n
    BY <1>2, <1>4, <1>5, <1>7, <1>8
<1>17. M \subseteq Elems
    BY <1>2
<1>18. \A m \in M \cup {0} : Onward(e2, M, M, k2, m) /\ (e2[m].next # 0 => k2[e2[m].next] < k2[m])
    BY <1>11, <1>13, <1>14
<1>19. Linked(e2, M, k2)
    BY <1>15, <1>16, <1>17, <1>18 DEF Linked
<1>20. Left(e2, M, k2, old)
    <2>1. k2[old] = key[old] /\ k2[0] = key[0] /\ key[old] < key[0]
        BY <1>8 DEF Linked
    <2>2. ASSUME NEW c \in M, k2[c] = k2[old]
          PROVE  e2[c].did = e2[old].did
        BY <1>2, <1>4, <1>5, <1>8, <2>1, <2>2
    <2> QED
        BY <2>1, <2>2 DEF Left
<1> QED
    BY <1>7, <1>14, <1>19, <1>20

LEMMA AddLinks ==
    ASSUME NEW e, NEW e2, NEW L, NEW key \in Keys, Linked(e, L, key),
           NEW new \in Elems \ L, e[new].mem = "used", \A n \in L : e[n].did # e[new].did,
           Added(e, e2, new),
           NEW k2, k2 = [key EXCEPT ![0] = key[0] + 1, ![new] = key[0]]
    PROVE  k2 \in Keys /\ Linked(e2, L \cup {new}, k2)
<1> DEFINE M == L \cup {new}
<1>1. /\ L \subseteq Elems /\ M \cup {0} \subseteq Cells /\ new # 0 /\ 0 \notin L
      /\ \A m \in L \cup {0} : key[m] \in Int
    BY ElemNumbers DEF Linked, Keys
<1>2. /\ \A m \in M : e2[m].did = e[m].did /\ e2[m].mem = e[m].mem
      /\ e2[0].next = new /\ e2[new].next = e[0].next
      /\ \A m \in L : e2[m].next = e[m].next
    BY <1>1 DEF Added
<1>3. /\ k2 \in Keys /\ k2[new] = key[0] /\ k2[0] = key[0] + 1
      /\ \A m \in Cells : m # new /\ m # 0 => k2[m] = key[m]
    BY <1>1, ElemNumbers DEF Keys
<1>4. \A m \in L : k2[m] = key[m] /\ key[m] < key[0]
    BY <1>1, <1>3 DEF Linked
<1>15. key[0] \in Int /\ \A m \in L : key[m] \in Int
    BY <1>1
<1>16. /\ k2[new] < k2[0] /\ k2[new] <= k2[new] /\ ~(k2[new] < k2[new])
      /\ \A c \in L : ~(k2[new] < k2[c]) /\ k2[c] <= k2[new] /\ k2[c] < k2[0]
    <2>1. k2[new] < k2[0] /\ k2[new] <= k2[new] /\ ~(k2[new] < k2[new])
        <3>1. key[0] < key[0] + 1 /\ key[0] <= key[0] /\ ~(key[0] < key[0])
            BY <1>15
        <3> QED
            BY <1>3, <3>1
    <2>2. ASSUME NEW c \in L
          PROVE  ~(k2[new] < k2[c]) /\ k2[c] <= k2[new] /\ k2[c] < k2[0]
        <3>1. key[0] \in Int /\ key[c] \in Int /\ key[c] < key[0]
            BY <1>4, <1>15
        <3>2. ~(key[0] < key[c]) /\ key[c] <= key[0] /\ key[c] < key[0] + 1
            BY <3>1
        <3>3. k2[new] = key[0] /\ k2[0] = key[0] + 1
            BY <1>3
        <3>4. k2[c] = key[c]
            BY <1>4
        <3> QED
            BY <3>2, <3>3, <3>4
    <2> QED
        BY <2>1, <2>2
<1>5. \A m \in L \cup {0} : e[m].next \in L \cup {0} /\ (e[m].next # 0 => key[e[m].next] < key[m])
    BY DEF Linked, Onward
<1>6. \A m \in L \cup {0} : \A c \in L : key[c] < key[m] => e[m].next # 0 /\ key[c] <= key[e[m].next]
    BY DEF Linked, Onward
<1>7. \A m \in L : Onward(e2, M, M, k2, m) /\ (e2[m].next # 0 => k2[e2[m].next] < k2[m])
    <2> TAKE m \in L
    <2>1. ~(k2[new] < k2[m])
        BY <1>16
    <2>2. e2[m].next = e[m].next /\ (e[m].next # 0 => k2[e[m].next] = key[e[m].next])
        BY <1>2, <1>4, <1>5
    <2> QED
        BY <1>4, <1>5, <1>6, <2>1, <2>2 DEF Onward
<1>8. Onward(e2, M, M, k2, new) /\ (e2[new].next # 0 => k2[e2[new].next] < k2[new])
    <2>1. ~(k2[new] < k2[new])
        BY <1>16
    <2>2. e2[new].next = e[0].next /\ (e[0].next # 0 => k2[e[0].next] = key[e[0].next])
        BY <1>2, <1>4, <1>5
    <2> QED
        BY <1>3, <1>4, <1>5, <1>6, <2>1, <2>2 DEF Onward
<1>9. Onward(e2, M, M, k2, 0) /\ k2[e2[0].next] < k2[0]
    <2>1. \A c \in M : k2[c] <= k2[new]
        BY <1>16
    <2> QED
        BY <1>1, <1>2, <1>16, <2>1 DEF Onward
<1>10. \A n \in M : k2[n] < k2[0] /\ e2[n].mem = "used" /\ \E q \in M \cup {0} : e2[q].next = n
    <2> TAKE n \in M
    <2>1. k2[n] < k2[0]
        BY <1>16
    <2>2. e2[n].mem = "used"
        BY <1>2 DEF Linked
    <2>3. CASE n = new
        BY <1>2, <2>1, <2>2, <2>3
    <2>4. CASE n # new
        <3>1. PICK q \in L \cup {0} : e[q].next = n
            BY <2>4 DEF Linked
        <3> QED
            BY <1>2, <2>1, <2>2, <3>1
    <2> QED
        BY <2>3, <2>4
<1>11. \A m, n \in M : k2[m] = k2[n] \/ e2[m].did = e2[n].did => m = n
    <2>1. \A m, n \in L : key[m] = key[n] \/ e[m].did = e[n].did => m = n
        BY DEF Linked
    <2> QED
        BY <1>1, <1>2, <1>3, <1>4, <2>1
<1>12. M \subseteq Elems
    BY <1>1
<1>13. \A m \in M \cup {0} : Onward(e2, M, M, k2, m) /\ (e2[m].next # 0 => k2[e2[m].next] < k2[m])
    BY <1>7, <1>8, <1>9
<1>14. Linked(e2, M, k2)
    BY <1>10, <1>11, <1>12, <1>13 DEF Linked
<1> QED
    BY <1>3, <1>14

-----------------------------------------------------------------------------
(* What a change of the list leaves of a read                              *)

Grown(e2, v, v2) ==
    v2.at = v.at /\ v2.did = v.did /\ v2.pos = v.pos /\ v2.seen = v.seen \cup {Current(e2, v.did)}

LEMMA RemoveView ==
    ASSUME NEW e, NEW e2, NEW L, NEW key \in Keys, Linked(e, L, key), NEW old \in L,
           Removed(e, e2, old, Before(e, old)),
           NEW st, st \subseteq Elems \ L, NEW v, NEW v2, View(e, L, st, key, v), Grown(e2, v, v2)
    PROVE  View(e2, L \ {old}, st \cup {old}, key, v2)
<1> DEFINE K == L \ {old}
           S == st \cup {old}
<1>1. /\ Linked(e2, K, key) /\ Onward(e2, K, K, key, old) /\ Left(e2, K, key, old)
      /\ Before(e, old) \in L \cup {0}
    BY RemoveLinks, BeforeIs
<1>2. L \subseteq Elems /\ st \subseteq Cells /\ L \subseteq Cells /\ 0 \notin st /\ 0 \in Cells
    BY ElemNumbers DEF Linked
<1>3. \A m \in st : e2[m].next = e[m].next /\ e2[m].did = e[m].did
    BY <1>1, <1>2 DEF Removed
<1>4. \A m \in L : e2[m].did = e[m].did
    BY <1>2 DEF Removed
<1>5. \A m \in st : Onward(e2, K, K \cup S, key, m) /\ Left(e2, K, key, m)
    BY <1>3, <1>4 DEF View, Onward, Left
<1>6. Onward(e2, K, K \cup S, key, old)
    BY <1>1 DEF Onward
<1>7. v2.pos \in K \cup S \cup {0}
    BY DEF View, Grown
<1>8. v2.at = "walk" => Absent \in v2.seen \/ \E c \in K : e2[c].did = v2.did /\ key[c] < key[v2.pos]
    <2> SUFFICES ASSUME v2.at = "walk", Absent \notin v2.seen
                 PROVE  \E c \in K : e2[c].did = v2.did /\ key[c] < key[v2.pos]
        OBVIOUS
    <2>1. PICK c \in L : e[c].did = v.did /\ key[c] < key[v.pos]
        BY DEF View, Grown
    <2>2. Current(e2, v.did) # Absent
        BY DEF Grown
    <2>3. PICK b \in K : e2[b].did = v.did
        BY <1>1, <2>2, CurrentIs
    <2>4. b = c
        BY <1>4, <2>1, <2>3 DEF Linked
    <2> QED
        BY <2>1, <2>3, <2>4 DEF Grown
<1>9. /\ Current(e2, v2.did) \in v2.seen
      /\ v2.at = "copy" => v2.pos \in v2.seen
      /\ v2.at = "absent" => Absent \in v2.seen
    BY DEF View, Grown
<1> QED
    BY <1>1, <1>5, <1>6, <1>7, <1>8, <1>9 DEF View

LEMMA ReplaceView ==
    ASSUME NEW e, NEW e2, NEW L, NEW key \in Keys, Linked(e, L, key), NEW old \in L,
           NEW new \in Elems \ L, e[new].mem = "used", e[new].did = e[old].did,
           Replaced(e, e2, old, new, Before(e, old)),
           NEW k2, k2 = [key EXCEPT ![new] = key[old]],
           NEW st, st \subseteq Elems \ L, new \notin st, NEW v, NEW v2,
           View(e, L, st, key, v), Grown(e2, v, v2)
    PROVE  View(e2, (L \ {old}) \cup {new}, st \cup {old}, k2, v2)
<1> DEFINE M == (L \ {old}) \cup {new}
           S == st \cup {old}
<1>1. /\ k2 \in Keys /\ Linked(e2, M, k2) /\ Onward(e2, M, M, k2, old) /\ Left(e2, M, k2, old)
      /\ Before(e, old) \in L \cup {0}
    <2>1. Before(e, old) \in L \cup {0}
        BY BeforeIs
    <2>2. k2 \in Keys /\ Linked(e2, M, k2) /\ Onward(e2, M, M, k2, old) /\ Left(e2, M, k2, old)
        BY ReplaceLinks
    <2> QED
        BY <2>1, <2>2
<1>2. /\ L \subseteq Elems /\ st \subseteq Cells /\ L \subseteq Cells /\ new \in Cells
      /\ 0 \notin st /\ 0 \in Cells /\ new # 0
    BY ElemNumbers DEF Linked
<1>3. \A m \in st : e2[m].next = e[m].next /\ e2[m].did = e[m].did
    BY <1>1, <1>2 DEF Replaced
<1>4. \A m \in L \cup {new} : e2[m].did = e[m].did
    BY <1>2 DEF Replaced
<1>5. k2[new] = key[old] /\ \A m \in Cells : m # new => k2[m] = key[m]
    BY <1>2 DEF Keys
<1>6. \A m \in L \cup st \cup {0} : k2[m] = key[m]
    BY <1>2, <1>5
<1>7. \A c \in M : \E b \in L : key[b] = k2[c] /\ e[b].did = e2[c].did
    <2> TAKE c \in M
    <2>1. CASE c = new
        BY <1>4, <1>5, <2>1
    <2>2. CASE c # new
        BY <1>4, <1>6, <2>2
    <2> QED
        BY <2>1, <2>2
<1>8. \A m \in st : Onward(e2, M, M \cup S, k2, m) /\ Left(e2, M, k2, m)
    <2> TAKE m \in st
    <2>1. e[m].next \in L \cup st \cup {0} /\ \A c \in L : key[c] < key[m] => e[m].next # 0 /\ key[c] <= key[e[m].next]
        BY DEF View, Onward
    <2>2. key[m] < key[0] /\ \A c \in L : key[c] = key[m] => e[c].did = e[m].did
        BY DEF View, Left
    <2>3. k2[e[m].next] = key[e[m].next] /\ k2[m] = key[m] /\ k2[0] = key[0]
        BY <1>6, <2>1
    <2>4. Onward(e2, M, M \cup S, k2, m)
        BY <1>3, <1>7, <2>1, <2>3 DEF Onward
    <2>5. Left(e2, M, k2, m)
        BY <1>3, <1>7, <2>2, <2>3 DEF Left
    <2> QED
        BY <2>4, <2>5
<1>9. Onward(e2, M, M \cup S, k2, old)
    BY <1>1 DEF Onward
<1>10. v2.pos \in M \cup S \cup {0}
    BY DEF View, Grown
<1>11. v2.at = "walk" => Absent \in v2.seen \/ \E c \in M : e2[c].did = v2.did /\ k2[c] < k2[v2.pos]
    <2> SUFFICES ASSUME v2.at = "walk", Absent \notin v2.seen
                 PROVE  \E c \in M : e2[c].did = v2.did /\ k2[c] < k2[v2.pos]
        OBVIOUS
    <2>1. PICK c \in L : e[c].did = v.did /\ key[c] < key[v.pos]
        BY DEF View, Grown
    <2>2. v2.pos = v.pos /\ v2.did = v.did /\ k2[v.pos] = key[v.pos]
        BY <1>6 DEF View, Grown
    <2>3. CASE c = old
        BY <1>4, <1>5, <2>1, <2>2, <2>3
    <2>4. CASE c # old
        BY <1>4, <1>6, <2>1, <2>2, <2>4
    <2> QED
        BY <2>3, <2>4
<1>12. /\ Current(e2, v2.did) \in v2.seen
       /\ v2.at = "copy" => v2.pos \in v2.seen
       /\ v2.at = "absent" => Absent \in v2.seen
    BY DEF View, Grown
<1> QED
    BY <1>1, <1>8, <1>9, <1>10, <1>11, <1>12 DEF View

LEMMA AddView ==
    ASSUME NEW e, NEW e2, NEW L, NEW key \in Keys, Linked(e, L, key),
           NEW new \in Elems \ L, e[new].mem = "used", \A n \in L : e[n].did # e[new].did,
           Added(e, e2, new),
           NEW k2, k2 = [key EXCEPT ![0] = key[0] + 1, ![new] = key[0]],
           NEW st, st \subseteq Elems \ L, new \notin st, NEW v, NEW v2,
           View(e, L, st, key, v), Grown(e2, v, v2)
    PROVE  View(e2, L \cup {new}, st, k2, v2)
<1> DEFINE M == L \cup {new}
<1>1. k2 \in Keys /\ Linked(e2, M, k2)
    BY AddLinks
<1>2. /\ L \subseteq Elems /\ st \subseteq Cells /\ L \subseteq Cells /\ new \in Cells
      /\ 0 \notin L /\ 0 \notin st /\ 0 \in Cells /\ new # 0
    BY ElemNumbers DEF Linked
<1>3. \A m \in st : e2[m].next = e[m].next /\ e2[m].did = e[m].did
    BY <1>2 DEF Added
<1>4. \A m \in M : e2[m].did = e[m].did
    BY <1>2 DEF Added
<1>5. k2[new] = key[0] /\ k2[0] = key[0] + 1 /\ \A m \in Cells : m # new /\ m # 0 => k2[m] = key[m]
    BY <1>2 DEF Keys
<1>6. \A m \in L \cup st : k2[m] = key[m] /\ key[m] < key[0]
    BY <1>2, <1>5 DEF Linked, View, Left
<1>7. key[0] \in Int /\ \A m \in L \cup st : key[m] \in Int
    BY <1>2 DEF Keys
<1>8. ASSUME NEW m \in st
      PROVE  Onward(e2, M, M \cup st, k2, m) /\ Left(e2, M, k2, m)
    <2>1. e[m].next \in L \cup st \cup {0} /\ \A c \in L : key[c] < key[m] => e[m].next # 0 /\ key[c] <= key[e[m].next]
        BY DEF View, Onward
    <2>2. key[m] < key[0] /\ \A c \in L : key[c] = key[m] => e[c].did = e[m].did
        BY DEF View, Left
    <2>3. e2[m].next = e[m].next /\ k2[m] = key[m] /\ (e[m].next # 0 => k2[e[m].next] = key[e[m].next])
        BY <1>3, <1>6, <2>1
    <2>4. key[m] \in Int /\ key[0] \in Int /\ ~(key[0] < key[m]) /\ key[0] # key[m] /\ key[m] < key[0] + 1
        BY <1>7, <2>2
    <2>5. ~(k2[new] < k2[m]) /\ k2[new] # k2[m] /\ k2[m] < k2[0]
        BY <1>5, <2>3, <2>4
    <2>6. \A c \in M : k2[c] < k2[m] => c \in L /\ key[c] < key[m] /\ k2[c] = key[c]
        BY <1>6, <2>3, <2>5
    <2>7. Onward(e2, M, M \cup st, k2, m)
        BY <2>1, <2>3, <2>6 DEF Onward
    <2>8. \A c \in M : k2[c] = k2[m] => e2[c].did = e2[m].did
        BY <1>3, <1>4, <1>6, <2>2, <2>3, <2>5
    <2> QED
        BY <2>5, <2>7, <2>8 DEF Left
<1>9. v2.pos \in M \cup st \cup {0}
    BY DEF View, Grown
<1>10. v2.at = "walk" => Absent \in v2.seen \/ \E c \in M : e2[c].did = v2.did /\ k2[c] < k2[v2.pos]
    <2> SUFFICES ASSUME v2.at = "walk", Absent \notin v2.seen
                 PROVE  \E c \in M : e2[c].did = v2.did /\ k2[c] < k2[v2.pos]
        OBVIOUS
    <2>1. PICK c \in L : e[c].did = v.did /\ key[c] < key[v.pos]
        BY DEF View, Grown
    <2>2. v2.pos = v.pos /\ v2.did = v.did
        BY DEF Grown
    <2>3. e2[c].did = e[c].did /\ k2[c] = key[c] /\ key[c] \in Int
        BY <1>4, <1>6, <1>7
    <2>4. CASE v.pos = 0
        <3>1. key[c] < key[0] + 1
            BY <1>7, <2>1, <2>3, <2>4
        <3> QED
            BY <1>5, <2>1, <2>2, <2>3, <2>4, <3>1
    <2>5. CASE v.pos # 0
        <3>1. v.pos \in L \cup st
            BY <2>5 DEF View
        <3>2. k2[v.pos] = key[v.pos]
            BY <1>6, <3>1
        <3> QED
            BY <2>1, <2>2, <2>3, <3>2
    <2> QED
        BY <2>4, <2>5
<1>11. /\ Current(e2, v2.did) \in v2.seen
       /\ v2.at = "copy" => v2.pos \in v2.seen
       /\ v2.at = "absent" => Absent \in v2.seen
    BY DEF View, Grown
<1> QED
    BY <1>8, <1>9, <1>10, <1>11 DEF View

-----------------------------------------------------------------------------
LEMMA StoreStart == StoreInit => StoreInv
<1> SUFFICES ASSUME StoreInit
             PROVE  StoreInv
    OBVIOUS
<1>1. StoreTypes /\ MemoryInv
    BY ElemNumbers DEF StoreInit, StoreTypes, MemoryInv, ElemTypes, ViewTypes, NoWriter, NoReader, Absent
<1> DEFINE key == [m \in Cells |-> 0]
<1>2. key \in Keys
    BY DEF Keys
<1>3. Linked(elem, {}, key)
    BY ElemNumbers DEF StoreInit, Linked, Onward, Cells
<1>4. WriterInv({}, key)
    BY FS_EmptySet DEF StoreInit, WriterInv, NoWriter
<1>5. ReaderInv({}, key)
    BY DEF StoreInit, ReaderInv, NoReader, Absent
<1> QED
    BY <1>1, <1>2, <1>3, <1>4, <1>5 DEF StoreInv, Ordered

\* A step that leaves alone the list, the reads, and what these may meet.
LEMMA QuietReads ==
    ASSUME NEW L \in SUBSET Elems, NEW key \in Keys, Linked(elem, L, key), ReaderInv(L, key),
           reader' = reader, \A m \in L \cup {0} : elem'[m] = elem[m],
           \A r \in StoreReaders : reader[r].at # "idle" =>
              LET st == Stale(elem, writer, waiting, reader[r], r)
              IN  Stale(elem', writer', waiting', reader[r], r) = st /\ \A m \in st : elem'[m] = elem[m]
    PROVE  /\ Linked(elem, L, key)' /\ ReaderInv(L, key)'
           /\ \A d : Current(elem', d) = Current(elem, d)
<1>1. Linked(elem, L, key)' /\ \A d : Current(elem', d) = Current(elem, d)
    BY SameLinked
<1>2. ASSUME NEW r \in StoreReaders, reader[r].at # "idle"
      PROVE  View(elem', L, Stale(elem', writer', waiting', reader[r], r), key, reader[r])
    <2> DEFINE st == Stale(elem, writer, waiting, reader[r], r)
    <2>1. Stale(elem', writer', waiting', reader[r], r) = st /\ \A m \in st : elem'[m] = elem[m]
        BY <1>2
    <2>2. View(elem, L, st, key, reader[r])
        BY <1>2 DEF ReaderInv
    <2> HIDE DEF st
    <2>3. \A m \in L \cup {0} \cup st : elem'[m] = elem[m]
        BY <2>1
    <2>4. View(elem', L, st, key, reader[r])
        BY <2>2, <2>3, SameView
    <2> QED
        BY <2>1, <2>4
<1>3. ReaderInv(L, key)'
    BY <1>2 DEF ReaderInv
<1> QED
    BY <1>1, <1>3

LEMMA FindKeeps ==
    ASSUME StoreInv, NEW d \in Dids, WriteFind(d)
    PROVE  StoreInv'
<1>1. PICK L \in SUBSET Elems, key \in Keys : Ordered(L, key)
    BY DEF StoreInv
<1>2. /\ UNCHANGED <<elem, group_size, waiting, reader>> /\ writer.at = "idle"
      /\ writer' = [NoWriter EXCEPT !.at = "alloc", !.did = d, !.old = Current(elem, d)]
    BY DEF WriteFind
<1>3. writer'.at = "alloc" /\ writer'.did = d /\ writer'.old = Current(elem, d)
    BY <1>2 DEF NoWriter
<1>4. Linked(elem, L, key) /\ ReaderInv(L, key)
    BY <1>1 DEF Ordered
<1>5. Current(elem, d) \in Cells
    BY <1>4, CurrentIs
<1>6. StoreTypes'
    BY <1>2, <1>5, ElemNumbers DEF StoreInv, StoreTypes, NoWriter, Absent
<1>7. MemoryInv'
    BY <1>2 DEF StoreInv, MemoryInv
<1>8. Pending(writer) = {} /\ Pending(writer') = {}
    BY <1>2, <1>3 DEF Pending
<1>9. \A v, r : Stale(elem', writer', waiting', v, r) = Stale(elem, writer, waiting, v, r)
    BY <1>2, <1>8 DEF Stale
<1>10. Linked(elem, L, key)' /\ ReaderInv(L, key)'
    BY <1>2, <1>4, <1>9, QuietReads
<1>11. WriterInv(L, key)'
    BY <1>1, <1>2, <1>3 DEF Ordered, WriterInv
<1> QED
    BY <1>6, <1>7, <1>10, <1>11 DEF StoreInv, Ordered

LEMMA FillKeeps == StoreInv /\ WriteFill => StoreInv'
<1> SUFFICES ASSUME StoreInv, WriteFill
             PROVE  StoreInv'
    OBVIOUS
<1>1. PICK L \in SUBSET Elems, key \in Keys : Ordered(L, key)
    BY DEF StoreInv
<1>2. UNCHANGED <<group_size, waiting, reader>> /\ writer.at = "alloc"
    BY DEF WriteFill
<1>3. Linked(elem, L, key) /\ ReaderInv(L, key) /\ L \subseteq Elems
    BY <1>1 DEF Ordered
<1>4. Pending(writer) = {} /\ NoWriter.at = "idle"
    BY <1>2 DEF Pending, NoWriter
<1>5. CASE writer' = NoWriter /\ elem' = elem
    <2>1. StoreTypes' /\ MemoryInv'
        BY <1>2, <1>5, ElemNumbers DEF StoreInv, StoreTypes, MemoryInv, NoWriter, Absent
    <2>2. \A v, r : Stale(elem', writer', waiting', v, r) = Stale(elem, writer, waiting, v, r)
        BY <1>2, <1>4, <1>5 DEF Stale, Pending
    <2>3. Linked(elem, L, key)' /\ ReaderInv(L, key)'
        BY <1>2, <1>3, <1>5, <2>2, QuietReads
    <2>4. WriterInv(L, key)'
        BY <1>1, <1>2, <1>4, <1>5 DEF Ordered, WriterInv
    <2> QED
        BY <2>1, <2>3, <2>4 DEF StoreInv, Ordered
<1>6. ASSUME NEW n \in Elems, elem[n].mem = "free",
             elem' = [elem EXCEPT ![n] = [mem |-> "used", did |-> writer.did, next |-> 0]],
             writer' = [writer EXCEPT !.at = "link", !.new = n] \/ writer' = NoWriter
      PROVE  StoreInv'
    <2>1. n \in Cells /\ n # 0
        BY ElemNumbers
    <2>2. /\ elem'[n].mem = "used" /\ elem'[n].did = writer.did
          /\ \A m \in Cells : m # n => elem'[m] = elem[m]
        BY <1>6, <2>1 DEF StoreInv, StoreTypes
    <2>3. n \notin L /\ n \notin DOMAIN waiting
        BY <1>3, <1>6 DEF StoreInv, MemoryInv, Linked
    <2>4. StoreTypes'
        <3>1. [mem |-> "used", did |-> writer.did, next |-> 0] \in ElemTypes
            BY ElemNumbers DEF StoreInv, StoreTypes, ElemTypes
        <3>2. elem' \in [Cells -> ElemTypes]
            BY <1>6, <2>1, <3>1 DEF StoreInv, StoreTypes
        <3>3. NoWriter.at = "idle" /\ NoWriter \in [at : {"idle"}, did : {Absent}, old : Cells, new : Cells]
            BY ElemNumbers DEF NoWriter, Absent
        <3> QED
            BY <1>2, <1>6, <2>1, <3>2, <3>3 DEF StoreInv, StoreTypes
    <2>5. MemoryInv'
        BY <1>2, <2>1, <2>2, <2>3, ElemNumbers DEF StoreInv, MemoryInv
    <2>6. Pending(writer') = {}
        BY <1>2, <1>4, <1>6 DEF Pending, StoreInv, StoreTypes
    <2>7. ASSUME NEW v, NEW r
          PROVE  /\ Stale(elem', writer', waiting', v, r) = Stale(elem, writer, waiting, v, r)
                 /\ \A m \in Stale(elem, writer, waiting, v, r) : elem'[m] = elem[m]
        <3>1. \A m \in Elems : m # n => elem'[m] = elem[m]
            BY <2>2, ElemNumbers
        <3> QED
            BY <1>2, <1>4, <1>6, <2>2, <2>6, <3>1 DEF Stale
    <2>8. \A m \in L \cup {0} : elem'[m] = elem[m]
        BY <1>3, <2>1, <2>2, <2>3, ElemNumbers
    <2>9. Linked(elem, L, key)' /\ ReaderInv(L, key)' /\ \A d : Current(elem', d) = Current(elem, d)
        BY <1>2, <1>3, <2>7, <2>8, QuietReads
    <2>10. WriterInv(L, key)'
        <3>1. CASE writer' = NoWriter
            BY <1>1, <1>2, <1>4, <3>1 DEF Ordered, WriterInv
        <3>2. CASE writer' = [writer EXCEPT !.at = "link", !.new = n]
            <4>1. writer'.at = "link" /\ writer'.new = n /\ writer'.did = writer.did /\ writer'.old = writer.old
                BY <3>2 DEF StoreInv, StoreTypes
            <4> QED
                BY <1>1, <1>2, <2>2, <2>3, <2>9, <4>1 DEF Ordered, WriterInv
        <3> QED
            BY <1>6, <3>1, <3>2
    <2> QED
        BY <2>4, <2>5, <2>9, <2>10 DEF StoreInv, Ordered
<1> QED
    BY <1>5, <1>6 DEF WriteFill

LEMMA ListFinite ==
    ASSUME NEW L \in SUBSET Elems
    PROVE  IsFiniteSet(L) /\ Cardinality(L) \in Nat
<1>1. IsFiniteSet(Elems)
    BY KpmStoreAssumption, FS_Interval DEF Elems
<1>2. IsFiniteSet(L)
    BY <1>1, FS_Subset
<1> QED
    BY <1>2, FS_CardinalityType

\* An unlinked element is given to call_rcu().
LEMMA ReclaimKeeps == StoreInv /\ (WriteReclaim \/ RemoveCount) => StoreInv'
<1> SUFFICES ASSUME StoreInv, WriteReclaim \/ RemoveCount
             PROVE  StoreInv'
    OBVIOUS
<1>1. PICK L \in SUBSET Elems, key \in Keys : Ordered(L, key)
    BY DEF StoreInv
<1> DEFINE old == writer.old
           active == {r \in StoreReaders : reader[r].at # "idle"}
<1>2. /\ writer' = NoWriter /\ elem' = elem /\ reader' = reader
      /\ \/ writer.at = "reclaim" /\ group_size' = group_size
         \/ writer.at = "count" /\ group_size' = group_size - 1
      /\ waiting' = [x \in DOMAIN waiting \cup {old} |-> IF x = old THEN active ELSE waiting[x]]
    BY DEF WriteReclaim, RemoveCount, call_rcu
<1>3. Linked(elem, L, key) /\ ReaderInv(L, key)
    BY <1>1 DEF Ordered
<1>4. old \in Elems /\ old \notin DOMAIN waiting /\ elem[old].mem = "unlinked"
    BY <1>1, <1>2 DEF Ordered, WriterInv
<1>5. NoWriter.at = "idle" /\ NoWriter \in [at : {"idle"}, did : {Absent}, old : Cells, new : Cells]
    BY ElemNumbers DEF NoWriter, Absent
<1>6. Pending(writer) = {old} /\ Pending(writer') = {}
    BY <1>2, <1>5 DEF Pending
<1>7. /\ DOMAIN waiting' = DOMAIN waiting \cup {old} /\ waiting'[old] = active
      /\ \A x \in DOMAIN waiting : waiting'[x] = waiting[x]
    BY <1>2, <1>4
<1> HIDE DEF old
<1>8. StoreTypes'
    BY <1>2, <1>5 DEF StoreInv, StoreTypes
<1>9. MemoryInv'
    BY <1>2, <1>4, <1>7 DEF StoreInv, MemoryInv
<1>10. ASSUME NEW r \in StoreReaders, reader[r].at # "idle"
       PROVE  Stale(elem', writer', waiting', reader[r], r) = Stale(elem, writer, waiting, reader[r], r)
    <2>1. r \in active
        BY <1>10
    <2>2. \A m \in Elems : (m \in Pending(writer') \/ (m \in DOMAIN waiting' /\ r \in waiting'[m]))
                       <=> (m \in Pending(writer) \/ (m \in DOMAIN waiting /\ r \in waiting[m]))
        BY <1>6, <1>7, <2>1
    <2> QED
        BY <1>2, <2>2 DEF Stale
<1>11. Linked(elem, L, key)' /\ ReaderInv(L, key)'
    BY <1>2, <1>3, <1>10, QuietReads
<1>12. WriterInv(L, key)'
    <2>1. Cardinality(L) \in Nat
        BY ListFinite
    <2>2. group_size' = Cardinality(L)
        BY <1>1, <1>2, <2>1 DEF Ordered, WriterInv
    <2> QED
        BY <1>2, <1>5, <2>1, <2>2 DEF WriterInv
<1> QED
    BY <1>8, <1>9, <1>11, <1>12 DEF StoreInv, Ordered

\* Memory that no read may see is freed.
LEMMA CallbackKeeps ==
    ASSUME StoreInv, NEW n \in DOMAIN waiting, reclaim_callback(n)
    PROVE  StoreInv'
<1>1. PICK L \in SUBSET Elems, key \in Keys : Ordered(L, key)
    BY DEF StoreInv
<1>2. /\ waiting[n] = {} /\ UNCHANGED <<group_size, writer, reader>>
      /\ elem' = [elem EXCEPT ![n] = [mem |-> "free", did |-> Absent, next |-> 0]]
      /\ waiting' = [x \in DOMAIN waiting \ {n} |-> waiting[x]]
    BY DEF reclaim_callback
<1>3. Linked(elem, L, key) /\ ReaderInv(L, key)
    BY <1>1 DEF Ordered
<1>4. n \in Elems /\ elem[n].mem = "unlinked" /\ n \in Cells /\ n # 0
    BY ElemNumbers DEF StoreInv, MemoryInv
<1>5. elem'[n].mem = "free" /\ \A m \in Cells : m # n => elem'[m] = elem[m]
    BY <1>2, <1>4 DEF StoreInv, StoreTypes
<1>6. n \notin L /\ n \notin Pending(writer)
    BY <1>1, <1>3, <1>4 DEF Linked, Ordered, WriterInv, Pending
<1>7. StoreTypes'
    <2>1. [mem |-> "free", did |-> Absent, next |-> 0] \in ElemTypes
        BY ElemNumbers DEF ElemTypes
    <2>2. elem' \in [Cells -> ElemTypes]
        BY <1>2, <2>1 DEF StoreInv, StoreTypes
    <2> QED
        BY <1>2, <2>2 DEF StoreInv, StoreTypes
<1>8. MemoryInv'
    BY <1>2, <1>4, <1>5, ElemNumbers DEF StoreInv, MemoryInv
<1>9. ASSUME NEW r \in StoreReaders, reader[r].at # "idle"
      PROVE  /\ Stale(elem', writer', waiting', reader[r], r) = Stale(elem, writer, waiting, reader[r], r)
             /\ \A m \in Stale(elem, writer, waiting, reader[r], r) : elem'[m] = elem[m]
    <2>1. \A m \in Elems : m # n => elem'[m] = elem[m]
        BY <1>5, ElemNumbers
    <2>2. n \notin Stale(elem, writer, waiting, reader[r], r) /\ n \notin Stale(elem', writer', waiting', reader[r], r)
        BY <1>2, <1>5, <1>6 DEF Stale
    <2>3. \A m \in Elems : m # n => (m \in DOMAIN waiting' /\ r \in waiting'[m] <=> m \in DOMAIN waiting /\ r \in waiting[m])
        BY <1>2
    <2>4. \A m \in Elems : m # n => (m \in Stale(elem', writer', waiting', reader[r], r)
                                       <=> m \in Stale(elem, writer, waiting, reader[r], r))
        BY <1>2, <2>1, <2>3 DEF Stale
    <2>5. Stale(elem, writer, waiting, reader[r], r) \subseteq Elems /\ Stale(elem', writer', waiting', reader[r], r) \subseteq Elems
        BY DEF Stale
    <2> QED
        BY <2>1, <2>2, <2>4, <2>5
<1>10. \A m \in L \cup {0} : elem'[m] = elem[m]
    BY <1>4, <1>5, <1>6, ElemNumbers
<1>11. Linked(elem, L, key)' /\ ReaderInv(L, key)' /\ \A d : Current(elem', d) = Current(elem, d)
    BY <1>2, <1>3, <1>9, <1>10, QuietReads
<1>12. WriterInv(L, key)'
    <2>1. ASSUME writer.at = "link"
          PROVE  elem'[writer.new] = elem[writer.new]
        BY <1>1, <1>4, <1>5, <2>1, ElemNumbers DEF Ordered, WriterInv
    <2>2. ASSUME writer.at \in {"reclaim", "count"}
          PROVE  elem'[writer.old] = elem[writer.old]
        BY <1>1, <1>5, <2>2, ElemNumbers DEF Ordered, WriterInv
    <2>3. \A m \in L : elem'[m] = elem[m]
        BY <1>10
    <2>4. ASSUME writer.at \in {"reclaim", "count"}
          PROVE  Onward(elem', L, L, key, writer.old) /\ Left(elem', L, key, writer.old)
        BY <1>1, <2>2, <2>3, <2>4 DEF Ordered, WriterInv, Onward, Left
    <2> QED
        BY <1>1, <1>2, <1>11, <2>1, <2>2, <2>4 DEF Ordered, WriterInv
<1> QED
    BY <1>7, <1>8, <1>11, <1>12 DEF StoreInv, Ordered

\* The steps of a read.
LEMMA ReadKeeps ==
    ASSUME StoreInv, NEW r \in StoreReaders,
           (\E d \in Dids \cup {AllDids} : ReadLock(r, d)) \/ get_kstorage(r) \/ ReadUnlock(r)
    PROVE  StoreInv'
<1>1. PICK L \in SUBSET Elems, key \in Keys : Ordered(L, key)
    BY DEF StoreInv
<1>2. elem' = elem /\ writer' = writer /\ group_size' = group_size
    BY DEF ReadLock, get_kstorage, ReadUnlock
<1>3. Linked(elem, L, key) /\ ReaderInv(L, key) /\ WriterInv(L, key)
    BY <1>1 DEF Ordered
<1>4. Linked(elem, L, key)'
    BY <1>2, <1>3
<1>5. \A m \in L \cup {0} : Onward(elem, L, L, key, m)
    BY <1>3 DEF Linked
<1>6. \A v, s, wt : Stale(elem, s, wt, v, r) \subseteq Elems
    BY DEF Stale
<1>7. ASSUME NEW d \in Dids \cup {AllDids}, ReadLock(r, d)
      PROVE  StoreInv'
    <2> DEFINE v == [at |-> "walk", did |-> d, pos |-> 0, seen |-> {Current(elem, d)}]
               st == Stale(elem, writer, waiting, v, r)
    <2>1. reader[r].at = "idle" /\ waiting' = waiting /\ reader' = [reader EXCEPT ![r] = v]
        BY <1>7 DEF ReadLock
    <2>2. Current(elem, d) \in Cells
        BY <1>3, CurrentIs
    <2>3. reader' \in [StoreReaders -> ViewTypes]
        BY <2>1, <2>2, ElemNumbers DEF StoreInv, StoreTypes, ViewTypes
    <2>4. reader'[r] = v /\ \A q \in StoreReaders : q # r => reader'[q] = reader[q]
        BY <2>1 DEF StoreInv, StoreTypes
    <2>5. StoreTypes'
        BY <1>2, <2>3 DEF StoreInv, StoreTypes
    <2>6. MemoryInv'
        BY <1>2, <2>1, <2>4 DEF StoreInv, MemoryInv
    <2>7. WriterInv(L, key)'
        BY <1>2, <1>3, <2>1 DEF WriterInv
    <2>8. \A m \in st : Onward(elem, L, L, key, m) /\ Left(elem, L, key, m)
        <3>1. \A n \in DOMAIN waiting : r \notin waiting[n]
            BY <2>1 DEF StoreInv, MemoryInv
        <3>2. \A m \in st : m \in Pending(writer)
            BY <3>1 DEF Stale
        <3> QED
            BY <1>3, <3>2 DEF Pending, WriterInv
    <2>9. View(elem, L, st, key, v)
        <3>1. v.at = "walk" /\ v.did = d /\ v.pos = 0 /\ v.seen = {Current(elem, d)}
            OBVIOUS
        <3> HIDE DEF v, st
        <3>2. Current(elem, d) = Absent \/ \E c \in L : elem[c].did = d /\ key[c] < key[0]
            <4>1. Current(elem, d) # Absent => Current(elem, d) \in L /\ elem[Current(elem, d)].did = d
                BY <1>3, CurrentIs
            <4>2. \A c \in L : key[c] < key[0]
                BY <1>3 DEF Linked
            <4> QED
                BY <4>1, <4>2
        <3>3. \A m \in st : Onward(elem, L, L \cup st, key, m) /\ Left(elem, L, key, m)
            BY <2>8 DEF Onward
        <3> QED
            BY <3>1, <3>2, <3>3 DEF View
    <2>10. ReaderInv(L, key)'
        <3> HIDE DEF v
        <3>1. ASSUME NEW q \in StoreReaders
              PROVE  IF reader'[q].at = "idle" THEN reader'[q].pos = 0
                     ELSE View(elem', L, Stale(elem', writer', waiting', reader'[q], q), key, reader'[q])
            <4>1. CASE q = r
                <5>1. v.at # "idle"
                    BY DEF v
                <5> QED
                    BY <1>2, <2>1, <2>4, <2>9, <4>1, <5>1
            <4>2. CASE q # r
                BY <1>2, <1>3, <2>1, <2>4, <4>2 DEF ReaderInv
            <4> QED
                BY <4>1, <4>2
        <3> QED
            BY <3>1 DEF ReaderInv
    <2> QED
        BY <1>4, <2>5, <2>6, <2>7, <2>10 DEF StoreInv, Ordered
<1>8. ASSUME get_kstorage(r)
      PROVE  StoreInv'
    <2> DEFINE u == reader[r]
               next == elem[u.pos].next
               to == IF next = 0 THEN "absent" ELSE IF elem[next].did = u.did THEN "copy" ELSE "walk"
               st == Stale(elem, writer, waiting, u, r)
    <2>1. u.at = "walk" /\ waiting' = waiting /\ reader' = [reader EXCEPT ![r].pos = next, ![r].at = to]
        BY <1>8 DEF get_kstorage
    <2>2. u \in ViewTypes /\ next \in Cells
        BY DEF StoreInv, StoreTypes, ViewTypes, ElemTypes
    <2>3. /\ reader'[r].at = to /\ reader'[r].pos = next /\ reader'[r].did = u.did /\ reader'[r].seen = u.seen
          /\ reader'[r] \in ViewTypes
          /\ \A q \in StoreReaders : q # r => reader'[q] = reader[q]
          /\ DOMAIN reader' = StoreReaders /\ reader' = [q \in StoreReaders |-> reader'[q]]
        BY <2>1, <2>2 DEF StoreInv, StoreTypes, ViewTypes
    <2>4. StoreTypes'
        BY <1>2, <2>3 DEF StoreInv, StoreTypes
    <2>5. MemoryInv'
        <3>1. \A q \in StoreReaders : reader[q].at # "idle" => reader'[q].at # "idle"
            BY <2>3
        <3> HIDE DEF to, next, u, st
        <3> QED
            BY <1>2, <2>1, <3>1 DEF StoreInv, MemoryInv
    <2>6. WriterInv(L, key)'
        BY <1>2, <1>3, <2>1 DEF WriterInv
    <2>7. View(elem, L, st, key, u)
        BY <1>3, <2>1 DEF ReaderInv
    <2>8. st \subseteq Elems /\ \A m \in st : elem[m].did = u.did => m \in u.seen
        BY DEF Stale
    <2>9. Stale(elem, writer, waiting, reader'[r], r) = st
        BY <2>3 DEF Stale
    <2> HIDE DEF st
    <2>10. /\ next \in L \cup st \cup {0}
           /\ \A c \in L : key[c] < key[u.pos] => next # 0 /\ key[c] <= key[next]
        <3>1. Onward(elem, L, L \cup st, key, u.pos)
            BY <1>5, <2>7 DEF View, Onward
        <3> QED
            BY <3>1 DEF Onward
    <2>11. Absent \in u.seen \/ \E c \in L : elem[c].did = u.did /\ key[c] < key[u.pos]
        BY <2>1, <2>7 DEF View
    <2>12. next = 0 => Absent \in u.seen
        BY <2>10, <2>11
    <2>13. next # 0 /\ elem[next].did = u.did => next \in u.seen
        <3>1. next \in L /\ elem[next].did = u.did => next \in u.seen
            BY <1>3, <2>7, CurrentIs DEF View
        <3> QED
            BY <2>8, <2>10, <3>1
    <2>14. next # 0 /\ elem[next].did # u.did =>
               Absent \in u.seen \/ \E c \in L : elem[c].did = u.did /\ key[c] < key[next]
        <3> SUFFICES ASSUME next # 0, elem[next].did # u.did, Absent \notin u.seen
                     PROVE  \E c \in L : elem[c].did = u.did /\ key[c] < key[next]
            OBVIOUS
        <3>1. PICK c \in L : elem[c].did = u.did /\ key[c] <= key[next]
            BY <2>10, <2>11
        <3>2. key[c] # key[next]
            <4>1. CASE next \in L
                BY <1>3, <3>1, <4>1 DEF Linked
            <4>2. CASE next \in st
                BY <2>7, <3>1, <4>2 DEF View, Left
            <4> QED
                BY <2>10, <4>1, <4>2
        <3>3. key[c] \in Int /\ key[next] \in Int
            BY <2>2, ElemNumbers DEF Keys
        <3> QED
            BY <3>1, <3>2, <3>3
    <2>15. View(elem, L, st, key, reader'[r])
        <3>1. to = "walk" => next # 0 /\ elem[next].did # u.did
            OBVIOUS
        <3>2. to = "copy" => next # 0 /\ elem[next].did = u.did
            OBVIOUS
        <3>3. to = "absent" => next = 0
            OBVIOUS
        <3> HIDE DEF to, next
        <3> QED
            BY <2>3, <2>7, <2>10, <2>12, <2>13, <2>14, <3>1, <3>2, <3>3 DEF View
    <2>16. reader'[r].at # "idle"
        BY <2>3
    <2>17. ReaderInv(L, key)'
        <3>1. ASSUME NEW q \in StoreReaders
              PROVE  IF reader'[q].at = "idle" THEN reader'[q].pos = 0
                     ELSE View(elem', L, Stale(elem', writer', waiting', reader'[q], q), key, reader'[q])
            <4>1. CASE q = r
                BY <1>2, <2>1, <2>9, <2>15, <2>16, <4>1
            <4>2. CASE q # r
                BY <1>2, <1>3, <2>1, <2>3, <4>2 DEF ReaderInv
            <4> QED
                BY <4>1, <4>2
        <3> QED
            BY <3>1 DEF ReaderInv
    <2> QED
        BY <1>4, <2>4, <2>5, <2>6, <2>17 DEF StoreInv, Ordered
<1>9. ASSUME ReadUnlock(r)
      PROVE  StoreInv'
    <2>1. reader' = [reader EXCEPT ![r] = NoReader] /\ waiting' = [n \in DOMAIN waiting |-> waiting[n] \ {r}]
        BY <1>9 DEF ReadUnlock
    <2>2. NoReader \in ViewTypes /\ NoReader.at = "idle" /\ NoReader.pos = 0
        BY ElemNumbers DEF NoReader, ViewTypes, Absent
    <2>3. reader'[r] = NoReader /\ \A q \in StoreReaders : q # r => reader'[q] = reader[q]
        BY <2>1 DEF StoreInv, StoreTypes
    <2>4. StoreTypes'
        BY <1>2, <2>1, <2>2 DEF StoreInv, StoreTypes
    <2>5. MemoryInv'
        BY <1>2, <2>1, <2>3 DEF StoreInv, MemoryInv
    <2>6. WriterInv(L, key)'
        BY <1>2, <1>3, <2>1 DEF WriterInv
    <2>7. ASSUME NEW q \in StoreReaders, q # r, reader[q].at # "idle"
          PROVE  Stale(elem', writer', waiting', reader[q], q) = Stale(elem, writer, waiting, reader[q], q)
        BY <1>2, <2>1, <2>7 DEF Stale
    <2>8. ReaderInv(L, key)'
        <3>1. ASSUME NEW q \in StoreReaders
              PROVE  IF reader'[q].at = "idle" THEN reader'[q].pos = 0
                     ELSE View(elem', L, Stale(elem', writer', waiting', reader'[q], q), key, reader'[q])
            <4>1. CASE q = r
                BY <2>2, <2>3, <4>1
            <4>2. CASE q # r
                BY <1>2, <1>3, <2>3, <2>7, <4>2 DEF ReaderInv
            <4> QED
                BY <4>1, <4>2
        <3> QED
            BY <3>1 DEF ReaderInv
    <2> QED
        BY <1>4, <2>4, <2>5, <2>6, <2>8 DEF StoreInv, Ordered
<1> QED
    BY <1>7, <1>8, <1>9

-----------------------------------------------------------------------------
(* The steps that change the list                                          *)

LEMMA RemovedElems ==
    ASSUME elem \in [Cells -> ElemTypes], NEW e2, NEW old \in Cells, NEW p \in Cells,
           e2 = [elem EXCEPT ![p].next = elem[old].next, ![old].mem = "unlinked"]
    PROVE  e2 \in [Cells -> ElemTypes] /\ Removed(elem, e2, old, p)
<1>1. elem[old].next \in Cells
    BY DEF ElemTypes
<1>2. e2 \in [Cells -> ElemTypes]
    BY <1>1 DEF ElemTypes
<1>3. Removed(elem, e2, old, p)
    BY <1>1 DEF Removed, ElemTypes
<1> QED
    BY <1>2, <1>3

LEMMA ReplacedElems ==
    ASSUME elem \in [Cells -> ElemTypes], NEW e2, NEW old \in Cells, NEW new \in Cells, NEW p \in Cells,
           new # p, e2 = [elem EXCEPT ![new].next = elem[old].next, ![p].next = new, ![old].mem = "unlinked"]
    PROVE  e2 \in [Cells -> ElemTypes] /\ Replaced(elem, e2, old, new, p)
<1>1. elem[old].next \in Cells
    BY DEF ElemTypes
<1>2. e2 \in [Cells -> ElemTypes]
    BY <1>1 DEF ElemTypes
<1>3. Replaced(elem, e2, old, new, p)
    BY <1>1 DEF Replaced, ElemTypes
<1> QED
    BY <1>2, <1>3

LEMMA AddedElems ==
    ASSUME elem \in [Cells -> ElemTypes], NEW e2, NEW new \in Elems,
           e2 = [elem EXCEPT ![new].next = elem[0].next, ![0].next = new]
    PROVE  e2 \in [Cells -> ElemTypes] /\ Added(elem, e2, new)
<1>1. elem[0].next \in Cells /\ new \in Cells /\ 0 \in Cells /\ new # 0
    BY ElemNumbers DEF ElemTypes
<1>2. e2 \in [Cells -> ElemTypes]
    BY <1>1 DEF ElemTypes
<1>3. Added(elem, e2, new)
    BY <1>1 DEF Added, ElemTypes
<1> QED
    BY <1>2, <1>3

LEMMA ChangedReads ==
    ASSUME StoreTypes, NEW M, NEW k2 \in Keys, Linked(elem', M, k2), Changed(elem')
    PROVE  /\ reader' \in [StoreReaders -> ViewTypes]
           /\ \A r \in StoreReaders :
                 IF reader[r].at = "idle" THEN reader'[r] = reader[r]
                 ELSE Grown(elem', reader[r], reader'[r]) /\ reader'[r].at # "idle"
<1>1. \A d : Current(elem', d) \in Cells
    BY CurrentIs
<1>2. reader' = [r \in StoreReaders |->
                    IF reader[r].at = "idle" THEN reader[r]
                    ELSE [reader[r] EXCEPT !.seen = @ \cup {Current(elem', reader[r].did)}]]
    BY DEF Changed
<1>3. ASSUME NEW r \in StoreReaders
      PROVE  /\ reader'[r] \in ViewTypes
             /\ IF reader[r].at = "idle" THEN reader'[r] = reader[r]
                ELSE Grown(elem', reader[r], reader'[r]) /\ reader'[r].at # "idle"
    <2>1. reader[r] \in ViewTypes
        BY DEF StoreTypes
    <2>2. Current(elem', reader[r].did) \in Cells
        BY <1>1
    <2> QED
        BY <1>2, <2>1, <2>2 DEF Grown, ViewTypes
<1> QED
    BY <1>2, <1>3

StaleGrows(e, e2, s, s2, wt, v, v2, r, gone) == Stale(e2, s2, wt, v2, r) = Stale(e, s, wt, v, r) \cup gone

LEMMA StaleAfter ==
    ASSUME NEW e, NEW e2, NEW gone \in SUBSET Elems,
           \A m \in Elems : e2[m].did = e[m].did /\ e2[m].mem = IF m \in gone THEN "unlinked" ELSE e[m].mem,
           NEW s, NEW s2, Pending(s) = {}, Pending(s2) = gone, NEW wt, NEW v, NEW v2, NEW r,
           Grown(e2, v, v2), \A m \in gone : e[m].did = v.did => m \in v.seen,
           \A m \in Elems : e2[m].mem = "unlinked" => m # Current(e2, v.did)
    PROVE  StaleGrows(e, e2, s, s2, wt, v, v2, r, gone)
<1>1. \A m \in Elems \ gone : m \in Stale(e2, s2, wt, v2, r) <=> m \in Stale(e, s, wt, v, r)
    BY DEF Stale, Grown
<1>2. \A m \in gone : m \in Stale(e2, s2, wt, v2, r)
    BY DEF Stale, Grown
<1>3. Stale(e2, s2, wt, v2, r) \subseteq Elems /\ Stale(e, s, wt, v, r) \subseteq Elems
    BY DEF Stale
<1> QED
    BY <1>1, <1>2, <1>3 DEF StaleGrows

\* The element of a data id is in the list and so not unlinked.
LEMMA CurrentUsed ==
    ASSUME NEW e, NEW L, NEW key \in Keys, Linked(e, L, key), NEW d
    PROVE  \A m \in Elems : e[m].mem = "unlinked" => m # Current(e, d)
<1>1. Current(e, d) \in L \cup {0}
    BY CurrentIs DEF Absent
<1>2. \A n \in L : e[n].mem = "used"
    BY DEF Linked
<1> QED
    BY <1>1, <1>2, ElemNumbers

\* What a read may still meet is not in the list.
LEMMA StaleOutside ==
    ASSUME NEW e, NEW L, NEW key, Linked(e, L, key), NEW s, NEW wt, NEW v, NEW r
    PROVE  Stale(e, s, wt, v, r) \subseteq Elems \ L /\ \A m \in Stale(e, s, wt, v, r) : e[m].mem = "unlinked"
BY DEF Stale, Linked

\* What a change of the list that leaves the reads as it should makes of them.
LEMMA ReadersAfter ==
    ASSUME NEW L, NEW key, ReaderInv(L, key), NEW M, NEW k2,
           \A r \in StoreReaders :
               IF reader[r].at = "idle" THEN reader'[r] = reader[r]
               ELSE /\ reader'[r].at # "idle"
                    /\ View(elem', M, Stale(elem', writer', waiting', reader'[r], r), k2, reader'[r])
    PROVE  ReaderInv(M, k2)'
BY DEF ReaderInv

LEMMA MemoryAfter ==
    ASSUME StoreTypes, MemoryInv, waiting' = waiting,
           \A r \in StoreReaders : reader[r].at # "idle" => reader'[r].at # "idle",
           \A m \in Cells : elem[m].mem = "unlinked" => elem'[m].mem = "unlinked",
           elem'[0].mem = "used"
    PROVE  MemoryInv'
BY ElemNumbers DEF MemoryInv

LEMMA UnlinkKeeps ==
    ASSUME StoreInv, NEW d \in Dids, RemoveUnlink(d)
    PROVE  StoreInv'
<1>1. PICK L \in SUBSET Elems, key \in Keys : Ordered(L, key)
    BY DEF StoreInv
<1> DEFINE old == Current(elem, d)
           p == Before(elem, old)
<1>2. /\ writer.at = "idle" /\ old # Absent
      /\ Changed([elem EXCEPT ![p].next = elem[old].next, ![old].mem = "unlinked"])
      /\ writer' = [NoWriter EXCEPT !.at = "count", !.old = old]
      /\ group_size' = group_size /\ waiting' = waiting
    BY DEF RemoveUnlink
<1>3. Linked(elem, L, key) /\ ReaderInv(L, key) /\ WriterInv(L, key) /\ StoreTypes /\ MemoryInv
    BY <1>1 DEF Ordered, StoreInv
<1>4. old \in L
    BY <1>2, <1>3, CurrentIs
<1> HIDE DEF old
<1>5. p \in L \cup {0}
    BY <1>3, <1>4, BeforeIs
<1> HIDE DEF p
<1>6. old \in Elems /\ old \in Cells /\ p \in Cells /\ old # 0
    BY <1>4, <1>5, ElemNumbers
<1>7. /\ elem' = [elem EXCEPT ![p].next = elem[old].next, ![old].mem = "unlinked"]
      /\ Changed(elem')
    BY <1>2 DEF Changed
<1>8. elem' \in [Cells -> ElemTypes] /\ Removed(elem, elem', old, p)
    BY <1>3, <1>6, <1>7, RemovedElems DEF StoreTypes
<1>9. Removed(elem, elem', old, Before(elem, old))
    BY <1>8 DEF p
<1>0. PICK M : M = L \ {old}
    OBVIOUS
<1>10. /\ Linked(elem', M, key)
       /\ Onward(elem', M, M, key, old) /\ Left(elem', M, key, old)
    BY <1>0, <1>3, <1>4, <1>9, RemoveLinks
<1>11. /\ reader' \in [StoreReaders -> ViewTypes]
       /\ \A r \in StoreReaders :
             IF reader[r].at = "idle" THEN reader'[r] = reader[r]
             ELSE Grown(elem', reader[r], reader'[r]) /\ reader'[r].at # "idle"
    BY <1>3, <1>7, <1>10, ChangedReads
<1>12. writer'.at = "count" /\ writer'.old = old
    BY <1>2 DEF NoWriter
<1>13. StoreTypes'
    BY <1>2, <1>6, <1>8, <1>11, ElemNumbers DEF StoreTypes, NoWriter, Absent
<1>14. /\ \A m \in Cells : elem'[m].mem = IF m = old THEN "unlinked" ELSE elem[m].mem
       /\ \A m \in Cells : elem'[m].did = elem[m].did
    BY <1>8 DEF Removed
<1>15. elem[old].mem = "used"
    BY <1>3, <1>4 DEF Linked
<1>16. MemoryInv'
    BY <1>2, <1>3, <1>6, <1>11, <1>14, ElemNumbers, MemoryAfter DEF MemoryInv
<1>17. WriterInv(M, key)'
    <2>1. old \notin DOMAIN waiting
        BY <1>3, <1>15 DEF MemoryInv
    <2>2. Cardinality(M) = Cardinality(L) - 1 /\ Cardinality(L) \in Nat
        BY <1>0, <1>4, ListFinite, FS_RemoveElement
    <2>3. group_size' = Cardinality(M) + 1
        BY <1>2, <1>3, <2>2 DEF WriterInv
    <2> QED
        BY <1>2, <1>6, <1>10, <1>12, <1>14, <2>1, <2>3 DEF WriterInv
<1>18. ASSUME NEW r \in StoreReaders, reader[r].at # "idle"
       PROVE  View(elem', M, Stale(elem', writer', waiting', reader'[r], r), key, reader'[r])
    <2> DEFINE st == Stale(elem, writer, waiting, reader[r], r)
    <2>1. View(elem, L, st, key, reader[r])
        BY <1>3, <1>18 DEF ReaderInv
    <2>2. Grown(elem', reader[r], reader'[r])
        BY <1>11, <1>18
    <2>3. st \subseteq Elems \ L
        BY <1>3, StaleOutside
    <2> HIDE DEF st
    <2>4. View(elem', M, st \cup {old}, key, reader'[r])
        BY <1>3, <1>4, <1>9, <1>0, <2>1, <2>2, <2>3, RemoveView
    <2> DEFINE gone == {old}
    <2>5. Pending(writer) = {} /\ Pending(writer') = gone
        BY <1>2, <1>12 DEF Pending
    <2>6. \A m \in gone : elem[m].did = reader[r].did => m \in reader[r].seen
        BY <1>3, <1>4, <2>1, CurrentIs DEF View
    <2>7. \A m \in Elems : elem'[m].did = elem[m].did
                           /\ elem'[m].mem = IF m \in gone THEN "unlinked" ELSE elem[m].mem
        BY <1>14, ElemNumbers
    <2>8. \A m \in Elems : elem'[m].mem = "unlinked" => m # Current(elem', reader[r].did)
        BY <1>10, CurrentUsed
    <2>9. gone \in SUBSET Elems
        BY <1>6
    <2> HIDE DEF gone
    <2>10. StaleGrows(elem, elem', writer, writer', waiting, reader[r], reader'[r], r, gone)
        BY <2>2, <2>5, <2>6, <2>7, <2>8, <2>9, StaleAfter
    <2> QED
        BY <1>2, <2>4, <2>10 DEF StaleGrows, st, gone
<1>19. ReaderInv(M, key)'
    BY <1>3, <1>11, <1>18, ReadersAfter
<1>20. M \in SUBSET Elems
    BY <1>0
<1> QED
    BY <1>10, <1>13, <1>16, <1>17, <1>19, <1>20 DEF StoreInv, Ordered

\* The second part of write_kstorage(): the element takes the place of another.
LEMMA ReplaceKeeps == StoreInv /\ WriteLink /\ writer.old # Absent => StoreInv'
<1> SUFFICES ASSUME StoreInv, WriteLink, writer.old # Absent
             PROVE  StoreInv'
    OBVIOUS
<1>1. PICK L \in SUBSET Elems, key \in Keys : Ordered(L, key)
    BY DEF StoreInv
<1> DEFINE old == writer.old
           new == writer.new
           p == Before(elem, old)
<1>2. /\ writer.at = "link"
      /\ Changed([elem EXCEPT ![new].next = elem[old].next, ![p].next = new, ![old].mem = "unlinked"])
      /\ writer' = [writer EXCEPT !.at = "reclaim"]
      /\ group_size' = group_size /\ waiting' = waiting
    BY DEF WriteLink
<1>3. Linked(elem, L, key) /\ ReaderInv(L, key) /\ WriterInv(L, key) /\ StoreTypes /\ MemoryInv
    BY <1>1 DEF Ordered, StoreInv
<1>4. /\ old = Current(elem, writer.did)
      /\ new \in Elems \ L /\ elem[new].mem = "used" /\ elem[new].did = writer.did
    BY <1>2, <1>3 DEF WriterInv
<1>5. old \in L /\ elem[old].did = writer.did
    BY <1>3, <1>4, CurrentIs
<1>6. writer'.at = "reclaim" /\ writer'.old = old
    BY <1>2, <1>3 DEF StoreTypes
<1> HIDE DEF old, new
<1>7. p \in L \cup {0}
    BY <1>3, <1>5, BeforeIs
<1> HIDE DEF p
<1>8. old \in Elems /\ old \in Cells /\ p \in Cells /\ old # 0 /\ new \in Cells /\ new # 0 /\ new # p
    BY <1>4, <1>5, <1>7, ElemNumbers
<1>9. /\ elem' = [elem EXCEPT ![new].next = elem[old].next, ![p].next = new, ![old].mem = "unlinked"]
      /\ Changed(elem')
    BY <1>2 DEF Changed
<1>10. elem' \in [Cells -> ElemTypes] /\ Replaced(elem, elem', old, new, p)
    BY <1>3, <1>8, <1>9, ReplacedElems DEF StoreTypes
<1>11. Replaced(elem, elem', old, new, Before(elem, old))
    BY <1>10 DEF p
<1>12. elem[new].did = elem[old].did
    BY <1>4, <1>5
<1>0. PICK M : M = (L \ {old}) \cup {new}
    OBVIOUS
<1>13. PICK k2 : k2 = [key EXCEPT ![new] = key[old]]
    OBVIOUS
<1>14. /\ k2 \in Keys /\ Linked(elem', M, k2)
       /\ Onward(elem', M, M, k2, old) /\ Left(elem', M, k2, old)
    BY <1>0, <1>3, <1>4, <1>5, <1>11, <1>12, <1>13, ReplaceLinks
<1>15. M \in SUBSET Elems
    BY <1>0, <1>4
<1>16. Cardinality(M) = Cardinality(L) /\ Cardinality(L) \in Nat
    <2>1. IsFiniteSet(L) /\ Cardinality(L) \in Nat
        BY ListFinite
    <2>2. IsFiniteSet(L \ {old}) /\ Cardinality(L \ {old}) = Cardinality(L) - 1
        BY <1>5, <2>1, FS_RemoveElement
    <2>3. Cardinality(M) = Cardinality(L \ {old}) + 1
        BY <1>0, <1>4, <2>2, FS_AddElement
    <2> QED
        BY <2>1, <2>2, <2>3
<1>17. /\ reader' \in [StoreReaders -> ViewTypes]
       /\ \A r \in StoreReaders :
             IF reader[r].at = "idle" THEN reader'[r] = reader[r]
             ELSE Grown(elem', reader[r], reader'[r]) /\ reader'[r].at # "idle"
    BY <1>3, <1>9, <1>14, ChangedReads
<1>18. StoreTypes'
    BY <1>2, <1>3, <1>10, <1>17 DEF StoreTypes
<1>19. /\ \A m \in Cells : elem'[m].mem = IF m = old THEN "unlinked" ELSE elem[m].mem
       /\ \A m \in Cells : elem'[m].did = elem[m].did
    BY <1>10 DEF Replaced
<1>20. elem[old].mem = "used"
    BY <1>3, <1>5 DEF Linked
<1>21. MemoryInv'
    BY <1>2, <1>3, <1>8, <1>17, <1>19, ElemNumbers, MemoryAfter DEF MemoryInv
<1>22. WriterInv(M, k2)'
    <2>1. old \notin DOMAIN waiting
        BY <1>3, <1>20 DEF MemoryInv
    <2>2. group_size' = Cardinality(M)
        BY <1>2, <1>3, <1>16 DEF WriterInv
    <2> QED
        BY <1>2, <1>6, <1>8, <1>14, <1>16, <1>19, <2>1, <2>2 DEF WriterInv
<1>23. ASSUME NEW r \in StoreReaders, reader[r].at # "idle"
       PROVE  View(elem', M, Stale(elem', writer', waiting', reader'[r], r), k2, reader'[r])
    <2> DEFINE st == Stale(elem, writer, waiting, reader[r], r)
    <2>1. View(elem, L, st, key, reader[r])
        BY <1>3, <1>23 DEF ReaderInv
    <2>2. Grown(elem', reader[r], reader'[r])
        BY <1>17, <1>23
    <2>3. st \subseteq Elems \ L /\ new \notin st
        BY <1>3, <1>4, StaleOutside
    <2> HIDE DEF st
    <2>4. View(elem', M, st \cup {old}, k2, reader'[r])
        BY <1>3, <1>4, <1>5, <1>11, <1>12, <1>13, <1>0, <2>1, <2>2, <2>3, ReplaceView
    <2> DEFINE gone == {old}
    <2>5. Pending(writer) = {} /\ Pending(writer') = gone
        BY <1>2, <1>6 DEF Pending
    <2>6. \A m \in gone : elem[m].did = reader[r].did => m \in reader[r].seen
        BY <1>3, <1>5, <2>1, CurrentIs DEF View
    <2>7. \A m \in Elems : elem'[m].did = elem[m].did
                           /\ elem'[m].mem = IF m \in gone THEN "unlinked" ELSE elem[m].mem
        BY <1>19, ElemNumbers
    <2>8. \A m \in Elems : elem'[m].mem = "unlinked" => m # Current(elem', reader[r].did)
        BY <1>14, CurrentUsed
    <2>9. gone \in SUBSET Elems
        BY <1>8
    <2> HIDE DEF gone
    <2>10. StaleGrows(elem, elem', writer, writer', waiting, reader[r], reader'[r], r, gone)
        BY <2>2, <2>5, <2>6, <2>7, <2>8, <2>9, StaleAfter
    <2> QED
        BY <1>2, <2>4, <2>10 DEF StaleGrows, st, gone
<1>24. ReaderInv(M, k2)'
    BY <1>3, <1>17, <1>23, ReadersAfter
<1> QED
    BY <1>14, <1>15, <1>18, <1>21, <1>22, <1>24 DEF StoreInv, Ordered

\* The element is a new one at the head.
LEMMA AddKeeps == StoreInv /\ WriteLink /\ writer.old = Absent => StoreInv'
<1> SUFFICES ASSUME StoreInv, WriteLink, writer.old = Absent
             PROVE  StoreInv'
    OBVIOUS
<1>1. PICK L \in SUBSET Elems, key \in Keys : Ordered(L, key)
    BY DEF StoreInv
<1> DEFINE new == writer.new
<1>2. /\ writer.at = "link"
      /\ Changed([elem EXCEPT ![new].next = elem[0].next, ![0].next = new])
      /\ writer' = NoWriter /\ group_size' = group_size + 1 /\ waiting' = waiting
    BY DEF WriteLink
<1>3. Linked(elem, L, key) /\ ReaderInv(L, key) /\ WriterInv(L, key) /\ StoreTypes /\ MemoryInv
    BY <1>1 DEF Ordered, StoreInv
<1>4. new \in Elems \ L /\ elem[new].mem = "used" /\ elem[new].did = writer.did
    BY <1>2, <1>3 DEF WriterInv
<1>5. \A n \in L : elem[n].did # elem[new].did
    <2>1. Current(elem, writer.did) = Absent
        BY <1>2, <1>3 DEF WriterInv
    <2> QED
        BY <1>3, <1>4, <2>1, CurrentIs
<1> HIDE DEF new
<1>6. /\ elem' = [elem EXCEPT ![new].next = elem[0].next, ![0].next = new]
      /\ Changed(elem')
    BY <1>2 DEF Changed
<1>7. elem' \in [Cells -> ElemTypes] /\ Added(elem, elem', new)
    BY <1>3, <1>4, <1>6, AddedElems DEF StoreTypes
<1>0. PICK M : M = L \cup {new}
    OBVIOUS
<1>8. PICK k2 : k2 = [key EXCEPT ![0] = key[0] + 1, ![new] = key[0]]
    OBVIOUS
<1>9. k2 \in Keys /\ Linked(elem', M, k2)
    BY <1>0, <1>3, <1>4, <1>5, <1>7, <1>8, AddLinks
<1>10. M \in SUBSET Elems
    BY <1>0, <1>4
<1>11. Cardinality(M) = Cardinality(L) + 1 /\ Cardinality(L) \in Nat
    BY <1>0, <1>4, ListFinite, FS_AddElement
<1>12. /\ reader' \in [StoreReaders -> ViewTypes]
       /\ \A r \in StoreReaders :
             IF reader[r].at = "idle" THEN reader'[r] = reader[r]
             ELSE Grown(elem', reader[r], reader'[r]) /\ reader'[r].at # "idle"
    BY <1>3, <1>6, <1>9, ChangedReads
<1>13. NoWriter.at = "idle" /\ NoWriter \in [at : {"idle"}, did : {Absent}, old : Cells, new : Cells]
    BY ElemNumbers DEF NoWriter, Absent
<1>14. StoreTypes'
    BY <1>2, <1>3, <1>7, <1>12, <1>13 DEF StoreTypes
<1>15. \A m \in Cells : elem'[m].mem = elem[m].mem /\ elem'[m].did = elem[m].did
    BY <1>7 DEF Added
<1>16. MemoryInv'
    BY <1>2, <1>3, <1>12, <1>15, ElemNumbers, MemoryAfter DEF MemoryInv
<1>17. WriterInv(M, k2)'
    <2>1. group_size' = Cardinality(M)
        BY <1>2, <1>3, <1>11 DEF WriterInv
    <2> QED
        BY <1>2, <1>11, <1>13, <2>1 DEF WriterInv
<1>18. ASSUME NEW r \in StoreReaders, reader[r].at # "idle"
       PROVE  View(elem', M, Stale(elem', writer', waiting', reader'[r], r), k2, reader'[r])
    <2> DEFINE st == Stale(elem, writer, waiting, reader[r], r)
    <2>1. View(elem, L, st, key, reader[r])
        BY <1>3, <1>18 DEF ReaderInv
    <2>2. Grown(elem', reader[r], reader'[r])
        BY <1>12, <1>18
    <2>3. st \subseteq Elems \ L /\ new \notin st
        BY <1>3, <1>4, StaleOutside
    <2> HIDE DEF st
    <2>4. View(elem', M, st, k2, reader'[r])
        BY <1>3, <1>4, <1>5, <1>7, <1>8, <1>0, <2>1, <2>2, <2>3, AddView
    <2> DEFINE gone == {}
    <2>5. Pending(writer) = {} /\ Pending(writer') = gone
        BY <1>2, <1>13 DEF Pending
    <2>6. \A m \in gone : elem[m].did = reader[r].did => m \in reader[r].seen
        BY <1>3, <2>1, CurrentIs DEF View
    <2>7. \A m \in Elems : elem'[m].did = elem[m].did
                           /\ elem'[m].mem = IF m \in gone THEN "unlinked" ELSE elem[m].mem
        BY <1>15, ElemNumbers
    <2>8. \A m \in Elems : elem'[m].mem = "unlinked" => m # Current(elem', reader[r].did)
        BY <1>9, CurrentUsed
    <2>9. gone \in SUBSET Elems
        BY <1>4
    <2> HIDE DEF gone
    <2>10. StaleGrows(elem, elem', writer, writer', waiting, reader[r], reader'[r], r, gone)
        BY <2>2, <2>5, <2>6, <2>7, <2>8, <2>9, StaleAfter
    <2> QED
        BY <1>2, <2>4, <2>10 DEF StaleGrows, st, gone
<1>19. ReaderInv(M, k2)'
    BY <1>3, <1>12, <1>18, ReadersAfter
<1> QED
    BY <1>9, <1>10, <1>14, <1>16, <1>17, <1>19 DEF StoreInv, Ordered

-----------------------------------------------------------------------------
LEMMA StoreStep == StoreInv /\ [StoreNext]_storeVars => StoreInv'
<1> SUFFICES ASSUME StoreInv, [StoreNext]_storeVars
             PROVE  StoreInv'
    OBVIOUS
<1>1. CASE UNCHANGED storeVars
    <2>1. elem' = elem /\ group_size' = group_size /\ writer' = writer /\ waiting' = waiting /\ reader' = reader
        BY <1>1 DEF storeVars
    <2> QED
        BY <2>1 DEF StoreInv, StoreTypes, MemoryInv, Ordered, WriterInv, ReaderInv
<1>2. CASE StoreNext
    BY <1>2, FindKeeps, UnlinkKeeps, FillKeeps, ReplaceKeeps, AddKeeps, ReclaimKeeps, CallbackKeeps, ReadKeeps
       DEF StoreNext
<1> QED
    BY <1>1, <1>2

LEMMA StoreMeans == StoreInv => StoreExact
<1> SUFFICES ASSUME StoreInv
             PROVE  StoreExact
    OBVIOUS
<1>1. PICK L \in SUBSET Elems, key \in Keys : Ordered(L, key)
    BY DEF StoreInv
<1>2. Linked(elem, L, key) /\ ReaderInv(L, key) /\ WriterInv(L, key)
    BY <1>1 DEF Ordered
<1>3. ASSUME NEW r \in StoreReaders
      PROVE  /\ elem[reader[r].pos].mem # "free"
             /\ reader[r].at = "copy" => reader[r].pos \in reader[r].seen
             /\ reader[r].at = "absent" => Absent \in reader[r].seen
    <2>1. CASE reader[r].at = "idle"
        BY <1>2, <2>1 DEF ReaderInv, StoreInv, MemoryInv
    <2>2. CASE reader[r].at # "idle"
        <3> DEFINE st == Stale(elem, writer, waiting, reader[r], r)
        <3>1. View(elem, L, st, key, reader[r])
            BY <1>2, <2>2 DEF ReaderInv
        <3>2. \A m \in L \cup {0} : elem[m].mem # "free"
            BY <1>2 DEF Linked, StoreInv, MemoryInv
        <3>3. \A m \in st : elem[m].mem # "free"
            BY <1>2, StaleOutside
        <3> QED
            BY <3>1, <3>2, <3>3 DEF View
    <2> QED
        BY <2>1, <2>2
<1>4. writer.at = "idle" => group_size = Cardinality(Listed(elem))
    <2>1. Listed(elem) = L
        BY <1>2, ListedIs
    <2>2. Cardinality(L) \in Nat
        BY ListFinite
    <2> QED
        BY <1>2, <2>1, <2>2 DEF WriterInv
<1> QED
    BY <1>3, <1>4 DEF StoreExact

\* StoreExact: a read that runs while elements are replaced, added and removed
\* stands on no freed memory and answers what was true at a moment of it, and
\* the count of the group is the length of its list; for any readers, data ids
\* and memory.
THEOREM StoreCorrect == StoreSpec => []StoreExact
<1>1. StoreSpec => []StoreInv
    BY StoreStart, StoreStep, PTL DEF StoreSpec
<1> QED
    BY <1>1, StoreMeans, PTL

-----------------------------------------------------------------------------
(* Numbers and recursion. *)

\* Induction up to a number, over the set of those a property holds for.
LEMMA UpTo ==
    ASSUME NEW n \in Nat, NEW I, 0 \in I, \A m \in 0 .. n - 1 : m \in I => m + 1 \in I
    PROVE  \A m \in 0 .. n : m \in I
<1> SUFFICES ASSUME NEW z \in 0 .. n, z \notin I PROVE FALSE
    OBVIOUS
<1> DEFINE T == {m \in 0 .. n : m \notin I}
<1>1. T \subseteq Nat /\ T # {}
    OBVIOUS
<1> HIDE DEF T
<1>2. PICK m \in T : \A y \in T : m <= y
    BY <1>1, LeastNumber
<1>3. m \in 0 .. n /\ m \notin I /\ m # 0
    BY <1>2 DEF T
<1>4. m - 1 \in 0 .. n - 1 /\ m - 1 + 1 = m /\ ~(m <= m - 1) /\ m - 1 \in 0 .. n
    BY <1>3
<1>5. m - 1 \notin T
    BY <1>2, <1>4
<1>6. m - 1 \in I
    BY <1>4, <1>5 DEF T
<1> QED
    BY <1>3, <1>4, <1>6

\* A recursion up to a number has a solution.
Solution(f, n, T, base, step) ==
    /\ f \in [0 .. n -> T] /\ f[0] = base
    /\ \A i \in 1 .. n : f[i] = step[<<i, f[i - 1]>>]

LEMMA RecursionTo ==
    ASSUME NEW n \in Nat, NEW T, NEW base \in T, NEW step \in [(1 .. n) \X T -> T]
    PROVE  \E f : Solution(f, n, T, base, step)
<1> DEFINE Solves(f, m) == f[0] = base /\ \A i \in 1 .. m : f[i] = step[<<i, f[i - 1]>>]
           I == {m \in 0 .. n : \E f \in [0 .. m -> T] : Solves(f, m)}
<1>1. 0 \in I
    <2> DEFINE f == [i \in 0 .. 0 |-> base]
    <2>1. f \in [0 .. 0 -> T] /\ Solves(f, 0)
        OBVIOUS
    <2>2. 0 \in 0 .. n
        OBVIOUS
    <2> HIDE DEF f
    <2> QED
        BY <2>1, <2>2
<1>2. ASSUME NEW m \in 0 .. n - 1, m \in I PROVE m + 1 \in I
    <2>1. PICK f \in [0 .. m -> T] : Solves(f, m)
        BY <1>2
    <2> DEFINE g == [i \in 0 .. m + 1 |-> IF i = m + 1 THEN step[<<m + 1, f[m]>>] ELSE f[i]]
    <2>2. m + 1 \in 1 .. n /\ f[m] \in T /\ m + 1 \in 0 .. n /\ m \in Nat
        OBVIOUS
    <2>3. step[<<m + 1, f[m]>>] \in T
        BY <2>2
    <2>4. g \in [0 .. m + 1 -> T]
        BY <2>2, <2>3
    <2>5. g[0] = base
        BY <2>1, <2>2
    <2>6. ASSUME NEW i \in 1 .. m + 1 PROVE g[i] = step[<<i, g[i - 1]>>]
        <3>1. CASE i = m + 1
            BY <3>1, <2>2
        <3>2. CASE i # m + 1
            <4>1. i \in 1 .. m /\ i - 1 \in 0 .. m /\ i \in 0 .. m /\ i - 1 # m + 1
                BY <3>2, <2>2
            <4>2. g[i] = f[i] /\ g[i - 1] = f[i - 1]
                BY <3>2, <4>1, <2>2
            <4> QED
                BY <2>1, <4>1, <4>2
        <3> QED
            BY <3>1, <3>2
    <2> HIDE DEF g
    <2>7. Solves(g, m + 1)
        BY <2>5, <2>6
    <2> QED
        BY <2>2, <2>4, <2>7
<1>3. n \in I
    <2> HIDE DEF I
    <2> QED
        BY <1>1, <1>2, UpTo
<1> QED
    BY <1>3 DEF Solution

-----------------------------------------------------------------------------
(* The layout of a module. *)

\* ALIGN() rounds up.
LEMMA Multiple ==
    ASSUME NEW q \in Nat, NEW a \in Nat \ {0}
    PROVE  q * a \in Nat /\ (q * a) % a = 0
BY SMT

LEMMA AlignIs ==
    ASSUME NEW x \in Nat, NEW a \in Nat \ {0}
    PROVE  ALIGN(x, a) \in Nat /\ ALIGN(x, a) >= x /\ ALIGN(x, a) % a = 0
<1> DEFINE q == (x + a - 1) \div a
<1>1. q \in Nat /\ (q * a) + ((x + a - 1) % a) = x + a - 1 /\ (x + a - 1) % a \in 0 .. a - 1
    BY SMT
<1>2. q * a \in Nat /\ (q * a) % a = 0
    <2> HIDE DEF q
    <2> QED
        BY <1>1, Multiple
<1>3. q * a >= x
    <2> DEFINE p == q * a  m == (x + a - 1) % a
    <2>1. p + m = x + a - 1 /\ m \in 0 .. a - 1 /\ p \in Nat
        BY <1>1, <1>2
    <2> HIDE DEF p, m
    <2>2. p >= x
        BY <2>1
    <2> QED
        BY <2>2 DEF p
<1> QED
    BY <1>2, <1>3 DEF ALIGN

Fits(f, l, i) ==
    /\ l.at[i] \in Nat /\ l.at[i] + f.sections[i].size <= l.size
    /\ f.sections[i].align # 0 => l.at[i] % f.sections[i].align = 0

\* The sections that have a place are in it, aligned and apart.
LaidOut(f, l) ==
    /\ l \in [at : [DOMAIN f.sections -> Nat \cup {-1}], size : Nat]
    /\ \A i \in DOMAIN f.sections : l.at[i] # -1 => Fits(f, l, i)
    /\ \A i, j \in DOMAIN f.sections :
          i # j /\ l.at[i] # -1 /\ l.at[j] # -1 =>
              Disjoint(<<l.at[i], f.sections[i].size>>, <<l.at[j], f.sections[j].size>>)

LEMMA SectionTyped ==
    ASSUME NEW f, WellFormed(f), NEW i \in DOMAIN f.sections
    PROVE  f.sections[i].align \in Nat /\ f.sections[i].size \in Nat
<1> DEFINE S == [name : STRING, flags : SUBSET {"alloc", "exec", "write"}, align : Nat, size : Nat, file : BOOLEAN]
<1>1. f.sections \in Seq(S)
    BY DEF WellFormed
<1> HIDE DEF S
<1>2. f.sections[i] \in S
    BY <1>1, ElementOfSeq, LenProperties
<1> QED
    BY <1>2 DEF S

\* Section i is placed behind the others.
PlacedLast(f, l, i, r) ==
    /\ LaidOut(f, r) /\ r.size >= l.size /\ r.at[i] >= l.size /\ r.at[i] \in Nat
    /\ \A j \in DOMAIN f.sections : j # i => r.at[j] = l.at[j]

LEMMA OffsetKeeps ==
    ASSUME NEW f, WellFormed(f), NEW l, LaidOut(f, l), NEW i \in DOMAIN f.sections
    PROVE  PlacedLast(f, l, i, get_offset(l, i, f.sections[i]))
<1> DEFINE r == get_offset(l, i, f.sections[i])
           s == f.sections[i]  a == IF s.align = 0 THEN 1 ELSE s.align  D == DOMAIN f.sections
           p == ALIGN(l.size, a)
<1>1. s.align \in Nat /\ s.size \in Nat
    BY SectionTyped
<1>2. l \in [at : [D -> Nat \cup {-1}], size : Nat]
    BY DEF LaidOut
<1>3. p \in Nat /\ p >= l.size /\ p % a = 0
    <2>1. a \in Nat \ {0} /\ l.size \in Nat
        BY <1>1, <1>2
    <2> HIDE DEF a
    <2> QED
        BY <2>1, AlignIs
<1>4. r = [l EXCEPT !.at[i] = p, !.size = p + s.size]
    BY DEF get_offset
<1> HIDE DEF r
<1>5. /\ r \in [at : [D -> Nat \cup {-1}], size : Nat] /\ r.at[i] = p /\ r.size = p + s.size
      /\ \A j \in D : j # i => r.at[j] = l.at[j]
    <2> DEFINE e == p + s.size
    <2>1. l.at \in [D -> Nat \cup {-1}] /\ p \in Nat /\ e \in Nat /\ i \in D
        BY <1>1, <1>2, <1>3
    <2>2. r = [at |-> [l.at EXCEPT ![i] = p], size |-> e]
        <3> HIDE DEF p, e
        <3>1. l = [at |-> l.at, size |-> l.size]
            BY <1>2
        <3> QED
            BY <3>1, <1>4 DEF e
    <2> HIDE DEF p, D, e
    <2> QED
        BY <2>1, <2>2 DEF e
<1>6. s.align # 0 => p % s.align = 0
    BY <1>3
<1> HIDE DEF p, a
<1>7. r.size >= l.size /\ r.at[i] >= l.size /\ l.size \in Nat
    BY <1>1, <1>2, <1>3, <1>5
<1>8. ASSUME NEW j \in D, r.at[j] # -1 PROVE Fits(f, r, j)
    <2>1. CASE j = i
        BY <2>1, <1>1, <1>3, <1>5, <1>6 DEF Fits
    <2>2. CASE j # i
        <3>1. Fits(f, l, j) /\ r.at[j] = l.at[j]
            BY <1>5, <1>8, <2>2 DEF LaidOut
        <3>2. f.sections[j].size \in Nat
            BY SectionTyped
        <3>3. l.at[j] + f.sections[j].size <= r.size
            BY <3>1, <3>2, <1>2, <1>5, <1>7 DEF Fits
        <3> QED
            BY <3>1, <3>3 DEF Fits
    <2> QED
        BY <2>1, <2>2
<1>9. ASSUME NEW j \in D, j # i, r.at[j] # -1
      PROVE  /\ Disjoint(<<r.at[i], s.size>>, <<r.at[j], f.sections[j].size>>)
             /\ Disjoint(<<r.at[j], f.sections[j].size>>, <<r.at[i], s.size>>)
    <2>1. Fits(f, l, j) /\ r.at[j] = l.at[j]
        BY <1>5, <1>9 DEF LaidOut
    <2>2. f.sections[j].size \in Nat
        BY SectionTyped
    <2>3. r.at[j] + f.sections[j].size <= r.at[i]
        BY <2>1, <2>2, <1>3, <1>5, <1>7 DEF Fits
    <2> QED
        BY <2>3 DEF Disjoint
<1>10. ASSUME NEW j \in D, NEW k \in D, j # k, r.at[j] # -1, r.at[k] # -1
       PROVE  Disjoint(<<r.at[j], f.sections[j].size>>, <<r.at[k], f.sections[k].size>>)
    <2>1. CASE j = i \/ k = i
        BY <1>9, <1>10, <2>1
    <2>2. CASE j # i /\ k # i
        BY <1>5, <1>10, <2>2 DEF LaidOut
    <2> QED
        BY <2>1, <2>2
<1>11. LaidOut(f, r)
    BY <1>5, <1>8, <1>10 DEF LaidOut
<1> QED
    BY <1>3, <1>5, <1>7, <1>11 DEF PlacedLast, r

\* One more section, if it is one of the pass and has no place.
PlaceOne(f, m, l, i) ==
    IF Pass(m, f.sections[i]) /\ l.at[i] = -1 THEN get_offset(l, i, f.sections[i]) ELSE l

\* What a pass over the first n sections does to a layout.
Extends(f, m, l, r, n) ==
    /\ LaidOut(f, r) /\ r.size >= l.size
    /\ \A i \in DOMAIN f.sections : l.at[i] # -1 => r.at[i] = l.at[i]
    /\ \A i \in DOMAIN f.sections :
          l.at[i] = -1 /\ r.at[i] # -1 => Pass(m, f.sections[i]) /\ r.at[i] >= l.size
    /\ \A i \in 1 .. n : Pass(m, f.sections[i]) => r.at[i] # -1

LEMMA PlaceOneExtends ==
    ASSUME NEW f, WellFormed(f), NEW m, NEW l, LaidOut(f, l), NEW n \in Nat, n + 1 \in DOMAIN f.sections,
           NEW x, Extends(f, m, l, x, n), NEW r, r = PlaceOne(f, m, x, n + 1)
    PROVE  Extends(f, m, l, r, n + 1)
<1> DEFINE k == n + 1  D == DOMAIN f.sections
<1>1. \A i \in 1 .. k : i = k \/ i \in 1 .. n
    OBVIOUS
<1>2. LaidOut(f, x) /\ l.size \in Nat /\ x.size \in Nat /\ x.size >= l.size /\ k \in D
    BY DEF Extends, LaidOut
<1>3. CASE Pass(m, f.sections[k]) /\ x.at[k] = -1
    <2>1. r = get_offset(x, k, f.sections[k])
        BY <1>3 DEF PlaceOne
    <2> HIDE DEF k
    <2>2. /\ LaidOut(f, r) /\ r.size >= x.size /\ r.at[k] >= x.size /\ r.at[k] \in Nat
          /\ \A j \in D : j # k => r.at[j] = x.at[j]
        <3>1. PlacedLast(f, x, k, r)
            BY <1>2, <2>1, OffsetKeeps
        <3> QED
            BY <3>1 DEF PlacedLast
    <2>3. r.size >= l.size /\ r.at[k] >= l.size /\ r.at[k] # -1
        <3>1. r.size \in Nat
            BY <2>2 DEF LaidOut
        <3> QED
            BY <1>2, <2>2, <3>1
    <2>4. \A i \in D : l.at[i] # -1 => i # k /\ x.at[i] = l.at[i]
        BY <1>3 DEF Extends
    <2>5. \A i \in D : l.at[i] # -1 => r.at[i] = l.at[i]
        BY <2>2, <2>4
    <2>6. ASSUME NEW i \in D, l.at[i] = -1, r.at[i] # -1 PROVE Pass(m, f.sections[i]) /\ r.at[i] >= l.size
        BY <1>3, <2>2, <2>3, <2>6 DEF Extends
    <2>7. ASSUME NEW i \in 1 .. k, Pass(m, f.sections[i]) PROVE r.at[i] # -1
        <3>1. CASE i = k
            BY <3>1, <2>3
        <3>2. CASE i # k
            <4>1. i \in 1 .. n /\ i \in D
                <5>1. i \in 1 .. n
                    BY <1>1, <3>2
                <5>2. D = 1 .. Len(f.sections) /\ Len(f.sections) \in Nat
                    BY LenProperties DEF WellFormed
                <5> QED
                    BY <1>2, <5>1, <5>2 DEF k
            <4>2. x.at[i] # -1
                BY <2>7, <4>1 DEF Extends
            <4> QED
                BY <2>2, <3>2, <4>1, <4>2
        <3> QED
            BY <3>1, <3>2
    <2> QED
        BY <2>2, <2>3, <2>5, <2>6, <2>7 DEF Extends, k
<1>4. CASE ~(Pass(m, f.sections[k]) /\ x.at[k] = -1)
    <2>1. r = x
        BY <1>4 DEF PlaceOne
    <2>2. \A i \in 1 .. k : Pass(m, f.sections[i]) => r.at[i] # -1
        BY <1>1, <1>4, <2>1 DEF Extends
    <2> HIDE DEF k
    <2> QED
        BY <2>1, <2>2 DEF Extends, k
<1> QED
    BY <1>3, <1>4

LEMMA PlacedExtends ==
    ASSUME NEW f, WellFormed(f), NEW m, NEW l, LaidOut(f, l)
    PROVE  Extends(f, m, l, Placed(f, l, m), Len(f.sections))
<1> DEFINE n == Len(f.sections)
           T == {x \in [at : [DOMAIN f.sections -> Nat \cup {-1}], size : Nat] : LaidOut(f, x)}
           step == [p \in (1 .. n) \X T |-> PlaceOne(f, m, p[2], p[1])]
           Rec(p) == p = [i \in 0 .. n |->
                             IF i = 0 THEN l
                             ELSE IF Pass(m, f.sections[i]) /\ p[i - 1].at[i] = -1
                             THEN get_offset(p[i - 1], i, f.sections[i])
                             ELSE p[i - 1]]
           placed == CHOOSE p : Rec(p)
<1>1. n \in Nat /\ DOMAIN f.sections = 1 .. n
    BY LenProperties DEF WellFormed
<1>2. l \in T /\ \A x \in T : LaidOut(f, x)
    BY DEF LaidOut
<1>3. ASSUME NEW i \in 1 .. n, NEW x \in T PROVE PlaceOne(f, m, x, i) \in T
    <2>1. LaidOut(f, x) /\ i \in DOMAIN f.sections
        BY <1>1, <1>2
    <2>2. LaidOut(f, get_offset(x, i, f.sections[i]))
        BY <2>1, OffsetKeeps DEF PlacedLast
    <2>3. LaidOut(f, PlaceOne(f, m, x, i))
        BY <2>1, <2>2 DEF PlaceOne
    <2> QED
        BY <2>3 DEF LaidOut
<1>4. step \in [(1 .. n) \X T -> T]
    <2> HIDE DEF T, n
    <2> QED
        BY <1>3
<1>5. PICK p : Solution(p, n, T, l, step)
    <2> HIDE DEF T, n, step
    <2> QED
        BY <1>1, <1>2, <1>4, RecursionTo
<1> HIDE DEF T
<1>6. p \in [0 .. n -> T] /\ p[0] = l
    BY <1>5 DEF Solution
<1>7. \A i \in 1 .. n : p[i] = PlaceOne(f, m, p[i - 1], i)
    <2> SUFFICES ASSUME NEW i \in 1 .. n PROVE p[i] = PlaceOne(f, m, p[i - 1], i)
        OBVIOUS
    <2>1. i - 1 \in 0 .. n
        BY <1>1
    <2>2. <<i, p[i - 1]>> \in (1 .. n) \X T
        BY <1>6, <2>1
    <2> QED
        BY <1>5, <2>2 DEF Solution
<1>8. Rec(p)
    <2>1. \A i \in 0 .. n : i # 0 => i \in 1 .. n
        BY <1>1
    <2> QED
        BY <1>6, <1>7, <2>1 DEF PlaceOne
<1> HIDE DEF n
<1>9. Rec(placed)
    BY <1>8
<1>10. Placed(f, l, m) = placed[n]
    BY DEF Placed, n
<1> HIDE DEF placed
<1>11. placed[0] = l /\ \A i \in 1 .. n : placed[i] = PlaceOne(f, m, placed[i - 1], i)
    <2>1. 0 \in 0 .. n /\ \A i \in 1 .. n : i \in 0 .. n /\ i # 0
        BY <1>1
    <2> QED
        BY <1>9, <2>1 DEF PlaceOne
<1> HIDE DEF Rec
<1> DEFINE I == {i \in 0 .. n : Extends(f, m, l, placed[i], i)}
<1>12. 0 \in I
    <2>1. l.size \in Nat /\ 0 \in 0 .. n /\ 1 .. 0 = {}
        BY <1>1 DEF LaidOut
    <2> QED
        BY <1>11, <2>1 DEF Extends
<1>13. ASSUME NEW i \in 0 .. n - 1, i \in I PROVE i + 1 \in I
    <2>1. i \in Nat /\ i + 1 \in DOMAIN f.sections /\ i + 1 \in 1 .. n /\ i + 1 - 1 = i /\ i + 1 \in 0 .. n
        BY <1>1
    <2>2. placed[i + 1] = PlaceOne(f, m, placed[i], i + 1)
        BY <1>11, <2>1
    <2>3. Extends(f, m, l, placed[i], i)
        BY <1>13
    <2>4. Extends(f, m, l, placed[i + 1], i + 1)
        BY <2>1, <2>2, <2>3, PlaceOneExtends
    <2> QED
        BY <2>1, <2>4
<1>14. n \in I
    <2> HIDE DEF I
    <2>1. \A i \in 0 .. n : i \in I
        BY <1>1, <1>12, <1>13, UpTo
    <2> QED
        BY <1>1, <2>1
<1> QED
    BY <1>10, <1>14 DEF n

\* A layout rounded up to a page, or to any larger size.
LEMMA LargerLaidOut ==
    ASSUME NEW f, WellFormed(f), NEW l, LaidOut(f, l), NEW size \in Nat, size >= l.size
    PROVE  LaidOut(f, [l EXCEPT !.size = size])
<1> DEFINE r == [l EXCEPT !.size = size]
<1>1. l \in [at : [DOMAIN f.sections -> Nat \cup {-1}], size : Nat]
    BY DEF LaidOut
<1>2. r \in [at : [DOMAIN f.sections -> Nat \cup {-1}], size : Nat] /\ r.at = l.at /\ r.size = size
    BY <1>1
<1> HIDE DEF r
<1>3. ASSUME NEW i \in DOMAIN f.sections, r.at[i] # -1 PROVE Fits(f, r, i)
    <2>1. Fits(f, l, i) /\ f.sections[i].size \in Nat
        BY <1>2, <1>3, SectionTyped DEF LaidOut
    <2>2. r.at[i] + f.sections[i].size <= r.size
        BY <1>1, <1>2, <2>1 DEF Fits
    <2> QED
        BY <1>2, <2>1, <2>2 DEF Fits
<1>4. LaidOut(f, r)
    BY <1>2, <1>3 DEF LaidOut
<1> QED
    BY <1>4 DEF r

\* The sections that are kept are apart, inside the module, aligned, code
\* before and written data behind the read-only pages.
Kept(f) == {i \in DOMAIN f.sections : Allocated(f, i)}
WellLaid(f, l) ==
    /\ \A i, j \in Kept(f) : i # j => Disjoint(<<l.at[i], f.sections[i].size>>, <<l.at[j], f.sections[j].size>>)
    /\ \A i \in Kept(f) :
          /\ l.at[i] >= 0 /\ l.at[i] + f.sections[i].size <= l.size
          /\ f.sections[i].align # 0 => l.at[i] % f.sections[i].align = 0
          /\ "exec" \in f.sections[i].flags => l.at[i] + f.sections[i].size <= l.text_size
          /\ "write" \in f.sections[i].flags /\ "exec" \notin f.sections[i].flags => l.at[i] >= l.ro_size

Paged(l) == [l EXCEPT !.size = ALIGN(@, page_size)]
Unplaced(f) == [at |-> [i \in DOMAIN f.sections |-> -1], size |-> 0]
Text(f) == Paged(Placed(f, Unplaced(f), 1))
ReadOnly(f) == Paged(Placed(f, Text(f), 2))
All(f) == Paged(Placed(f, Placed(f, ReadOnly(f), 3), 4))

Later(f, l, r) ==
    /\ LaidOut(f, r) /\ r.size >= l.size
    /\ \A i \in DOMAIN f.sections : l.at[i] # -1 => r.at[i] = l.at[i]

LEMMA LaterOf ==
    ASSUME NEW f, NEW l, NEW r, NEW t, LaidOut(f, l), Later(f, l, r), Later(f, r, t)
    PROVE  Later(f, l, t)
<1>1. l.size \in Nat /\ r.size \in Nat /\ t.size \in Nat
    BY DEF Later, LaidOut
<1>2. t.size >= l.size
    BY <1>1 DEF Later
<1> QED
    BY <1>2 DEF Later

LEMMA PagedLater ==
    ASSUME NEW f, WellFormed(f), NEW l, LaidOut(f, l)
    PROVE  Later(f, l, Paged(l)) /\ Paged(l).at = l.at
<1>1. l \in [at : [DOMAIN f.sections -> Nat \cup {-1}], size : Nat] /\ page_size \in Nat \ {0}
    BY AreasAssumption DEF LaidOut
<1>2. ALIGN(l.size, page_size) \in Nat /\ ALIGN(l.size, page_size) >= l.size
    BY <1>1, AlignIs
<1>3. Paged(l) = [l EXCEPT !.size = ALIGN(l.size, page_size)]
    BY DEF Paged
<1>4. LaidOut(f, Paged(l))
    BY <1>2, <1>3, LargerLaidOut
<1>5. Paged(l).at = l.at /\ Paged(l).size = ALIGN(l.size, page_size)
    BY <1>1, <1>3
<1> QED
    BY <1>2, <1>4, <1>5 DEF Later

LEMMA PlacedLater ==
    ASSUME NEW f, WellFormed(f), NEW m, NEW l, LaidOut(f, l)
    PROVE  /\ Later(f, l, Placed(f, l, m))
           /\ \A i \in DOMAIN f.sections :
                 /\ l.at[i] = -1 /\ Placed(f, l, m).at[i] # -1 => Pass(m, f.sections[i]) /\ Placed(f, l, m).at[i] >= l.size
                 /\ Pass(m, f.sections[i]) => Placed(f, l, m).at[i] # -1
<1>1. Extends(f, m, l, Placed(f, l, m), Len(f.sections))
    BY PlacedExtends
<1>2. DOMAIN f.sections = 1 .. Len(f.sections)
    BY LenProperties DEF WellFormed
<1> QED
    BY <1>1, <1>2 DEF Extends, Later

\* The four passes.
LEMMA SectionsLaid ==
    ASSUME NEW f, WellFormed(f)
    PROVE  /\ Later(f, Text(f), ReadOnly(f)) /\ Later(f, ReadOnly(f), All(f)) /\ Later(f, Text(f), All(f))
           /\ LaidOut(f, Text(f))
           /\ \A i \in DOMAIN f.sections :
                 /\ "alloc" \in f.sections[i].flags => All(f).at[i] # -1
                 /\ {"alloc", "exec"} \subseteq f.sections[i].flags => Text(f).at[i] # -1
                 /\ "write" \in f.sections[i].flags /\ "exec" \notin f.sections[i].flags /\ All(f).at[i] # -1
                       => All(f).at[i] >= ReadOnly(f).size
<1> DEFINE D == DOMAIN f.sections
           l0 == Unplaced(f)  l1 == Placed(f, l0, 1)  text == Text(f)
           l2 == Placed(f, text, 2)  ro == ReadOnly(f)
           l3 == Placed(f, ro, 3)  l4 == Placed(f, l3, 4)  all == All(f)
<1>1. text = Paged(l1) /\ ro = Paged(l2) /\ all = Paged(l4)
    BY DEF Text, ReadOnly, All
<1>2. LaidOut(f, l0) /\ \A i \in D : l0.at[i] = -1
    BY DEF LaidOut, Unplaced
<1> HIDE DEF l0, text, ro, all
<1>3. /\ Later(f, l0, l1)
      /\ \A i \in D : /\ l0.at[i] = -1 /\ l1.at[i] # -1 => Pass(1, f.sections[i]) /\ l1.at[i] >= l0.size
                      /\ Pass(1, f.sections[i]) => l1.at[i] # -1
    BY <1>2, PlacedLater
<1> HIDE DEF l1
<1>4. LaidOut(f, l1) /\ Later(f, l1, text) /\ text.at = l1.at
    BY <1>1, <1>3, PagedLater DEF Later
<1>5. /\ LaidOut(f, text) /\ Later(f, text, l2)
      /\ \A i \in D : /\ text.at[i] = -1 /\ l2.at[i] # -1 => Pass(2, f.sections[i]) /\ l2.at[i] >= text.size
                      /\ Pass(2, f.sections[i]) => l2.at[i] # -1
    BY <1>4, PlacedLater DEF Later
<1> HIDE DEF l2
<1>6. LaidOut(f, l2) /\ Later(f, l2, ro) /\ ro.at = l2.at
    BY <1>1, <1>5, PagedLater DEF Later
<1>7. /\ LaidOut(f, ro) /\ Later(f, ro, l3)
      /\ \A i \in D : /\ ro.at[i] = -1 /\ l3.at[i] # -1 => Pass(3, f.sections[i]) /\ l3.at[i] >= ro.size
                      /\ Pass(3, f.sections[i]) => l3.at[i] # -1
    BY <1>6, PlacedLater DEF Later
<1>8. /\ LaidOut(f, l3) /\ Later(f, l3, l4)
      /\ \A i \in D : /\ l3.at[i] = -1 /\ l4.at[i] # -1 => Pass(4, f.sections[i]) /\ l4.at[i] >= l3.size
                      /\ Pass(4, f.sections[i]) => l4.at[i] # -1
    <2> HIDE DEF l3
    <2>1. LaidOut(f, l3)
        BY <1>7 DEF Later
    <2> QED
        BY <2>1, PlacedLater
<1> HIDE DEF l3, l4
<1>9. LaidOut(f, l4) /\ Later(f, l4, all) /\ all.at = l4.at
    BY <1>1, <1>8, PagedLater DEF Later
<1>10. Later(f, text, ro) /\ Later(f, ro, all) /\ Later(f, text, all)
    <2>1. Later(f, text, ro)
        BY <1>5, <1>6, LaterOf
    <2>2. Later(f, ro, l4)
        BY <1>7, <1>8, LaterOf
    <2>3. Later(f, ro, all)
        BY <2>2, <1>7, <1>9, LaterOf
    <2> QED
        BY <2>1, <2>3, <1>5, LaterOf
<1>11. ASSUME NEW i \in D, "alloc" \in f.sections[i].flags PROVE all.at[i] # -1
    BY <1>8, <1>9, <1>11 DEF Pass
<1>12. ASSUME NEW i \in D, {"alloc", "exec"} \subseteq f.sections[i].flags PROVE text.at[i] # -1
    BY <1>3, <1>4, <1>12 DEF Pass
<1>13. ASSUME NEW i \in D, "write" \in f.sections[i].flags, "exec" \notin f.sections[i].flags, all.at[i] # -1
       PROVE  all.at[i] >= ro.size
    <2>1. l1.at[i] = -1
        BY <1>2, <1>3, <1>13 DEF Pass
    <2>2. l2.at[i] = -1
        BY <2>1, <1>4, <1>5, <1>13 DEF Pass
    <2>3. ro.at[i] = -1 /\ l4.at[i] = all.at[i]
        BY <2>2, <1>6, <1>9
    <2>4. CASE l3.at[i] # -1
        BY <2>3, <2>4, <1>7, <1>8 DEF Later
    <2>5. CASE l3.at[i] = -1
        <3>1. l4.at[i] >= l3.size /\ l3.size >= ro.size
            BY <2>3, <2>5, <1>7, <1>8, <1>13 DEF Later
        <3>2. l4.at[i] \in Nat /\ l3.size \in Nat /\ ro.size \in Nat
            BY <1>7, <1>8, <1>9, <1>13, <2>3 DEF LaidOut, Fits
        <3> QED
            BY <2>3, <3>1, <3>2
    <2> QED
        BY <2>4, <2>5
<1> QED
    BY <1>5, <1>10, <1>11, <1>12, <1>13 DEF text, ro, all

LEMMA SectionIs ==
    ASSUME NEW f, WellFormed(f), NEW name, Section(f, name) # 0
    PROVE  Section(f, name) \in DOMAIN f.sections /\ f.sections[Section(f, name)].name = name
<1> DEFINE I == {i \in 1 .. Len(f.sections) : f.sections[i].name = name}
<1>1. Section(f, name) = IF I # {} THEN Min(I) ELSE 0
    BY DEF Section, SelectInSeq
<1>2. DOMAIN f.sections = 1 .. Len(f.sections) /\ Len(f.sections) \in Nat
    BY LenProperties DEF WellFormed
<1>3. I # {} /\ I \subseteq Nat
    BY <1>1, <1>2
<1>4. Min(I) \in I
    <2> HIDE DEF I
    <2>1. \E x \in I : \A y \in I : x <= y
        BY <1>3, LeastNumber
    <2> QED
        BY <2>1 DEF Min
<1> QED
    BY <1>1, <1>2, <1>3, <1>4

\* The tables, behind the sections.
LEMMA TablesLaid ==
    ASSUME NEW f, WellFormed(f), NEW l, LaidOut(f, l), Section(f, ".symtab") # 0,
           NEW sym, sym = Section(f, ".symtab"), NEW str, str = Section(f, ".strtab")
    PROVE  /\ LaidOut(f, layout_symtab(f, l)) /\ layout_symtab(f, l).size \in Nat \ {0}
           /\ \A i \in {sym, str} : layout_symtab(f, l).at[i] # -1 /\ layout_symtab(f, l).at[i] >= l.size
           /\ \A i \in DOMAIN f.sections \ {sym, str} : layout_symtab(f, l).at[i] = l.at[i]
           /\ sym \in DOMAIN f.sections /\ f.sections[sym].name = ".symtab"
           /\ str \in DOMAIN f.sections /\ f.sections[str].name = ".strtab"
<1> DEFINE D == DOMAIN f.sections
           C == {i \in DOMAIN f.symbols : is_core_symbol(f, f.symbols[i])}
           core == Cardinality(C) + 1
           a == get_offset(l, sym, f.sections[sym])
           b == get_offset(a, sym, f.sections[sym])
           room == b.at[sym] + core * SYM_SIZE + 1 + core
           c == [a EXCEPT !.size = room]
           r == get_offset(c, str, f.sections[str])
<1>1. sym \in D /\ f.sections[sym].name = ".symtab" /\ str \in D /\ f.sections[str].name = ".strtab"
    <2>1. str # 0
        BY DEF WellFormed
    <2> QED
        BY <2>1, SectionIs
<1>2. sym # str
    BY <1>1
<1>3. r = layout_symtab(f, l)
    BY DEF layout_symtab
<1>4. core \in Nat /\ core > 0
    <2>1. DOMAIN f.symbols = 1 .. Len(f.symbols) /\ Len(f.symbols) \in Nat
        BY LenProperties DEF WellFormed
    <2>2. IsFiniteSet(DOMAIN f.symbols)
        BY <2>1, FS_Interval
    <2>3. IsFiniteSet(C)
        BY <2>2, FS_Subset
    <2>4. Cardinality(C) \in Nat
        BY <2>3, FS_CardinalityType
    <2> QED
        BY <2>4
<1> HIDE DEF C, D, r, c, room, b, a
<1>5. PlacedLast(f, l, sym, a)
    BY <1>1, OffsetKeeps DEF a, D
<1>6. PlacedLast(f, a, sym, b)
    <2>1. LaidOut(f, a)
        BY <1>5 DEF PlacedLast
    <2> QED
        BY <1>1, <2>1, OffsetKeeps DEF b, D
<1>7. room \in Nat /\ room >= a.size /\ room > 0 /\ a.size \in Nat
    <2>1. core * SYM_SIZE \in Nat
        <3>1. SYM_SIZE \in Nat
            BY AreasAssumption
        <3> HIDE DEF core
        <3> QED
            BY <1>4, <3>1
    <2>2. b.at[sym] \in Nat /\ b.at[sym] >= a.size /\ a.size \in Nat
        BY <1>5, <1>6 DEF PlacedLast, LaidOut
    <2> DEFINE p == core * SYM_SIZE  q == b.at[sym]
    <2>3. room = q + p + 1 + core
        BY DEF room
    <2>4. p \in Nat /\ q \in Nat /\ q >= a.size
        BY <2>1, <2>2
    <2> HIDE DEF p, q, core
    <2> QED
        BY <1>4, <2>2, <2>3, <2>4
<1>8. LaidOut(f, c) /\ c.at = a.at /\ c.size = room
    <2>1. LaidOut(f, c)
        BY <1>5, <1>7, LargerLaidOut DEF c, PlacedLast
    <2>2. a \in [at : [DOMAIN f.sections -> Nat \cup {-1}], size : Nat]
        BY <1>5 DEF PlacedLast, LaidOut
    <2> QED
        BY <2>1, <2>2 DEF c
<1>9. PlacedLast(f, c, str, r)
    BY <1>1, <1>8, OffsetKeeps DEF r, D
<1>10. LaidOut(f, r) /\ r.size \in Nat \ {0}
    BY <1>7, <1>8, <1>9 DEF PlacedLast, LaidOut
<1>11. a.size >= l.size /\ l.size \in Nat
    BY <1>5 DEF PlacedLast, LaidOut
<1>12. r.at[str] # -1 /\ r.at[str] >= l.size
    BY <1>7, <1>8, <1>9, <1>11 DEF PlacedLast
<1>13. r.at[sym] # -1 /\ r.at[sym] >= l.size
    BY <1>1, <1>2, <1>5, <1>8, <1>9 DEF PlacedLast, D
<1>14. \A i \in D \ {sym, str} : r.at[i] = l.at[i]
    BY <1>5, <1>8, <1>9 DEF PlacedLast, D
<1> QED
    BY <1>1, <1>3, <1>10, <1>12, <1>13, <1>14 DEF D

LEMMA LayoutLaid ==
    ASSUME NEW f, WellFormed(f), setup_load_info(f) = 0
    PROVE  /\ WellLaid(f, Layout(f)) /\ Layout(f).size \in Nat \ {0}
           /\ \A i \in DOMAIN f.sections : Layout(f).at[i] \in Int
<1> DEFINE D == DOMAIN f.sections  sym == Section(f, ".symtab")  str == Section(f, ".strtab")
           text == Text(f)  ro == ReadOnly(f)  all == All(f)
           r == layout_symtab(f, all)  L == Layout(f)
<1>1. sym # 0
    BY DEF setup_load_info, ENOEXEC
<1>2. /\ Later(f, text, ro) /\ Later(f, ro, all) /\ Later(f, text, all) /\ LaidOut(f, text)
      /\ \A i \in D :
            /\ "alloc" \in f.sections[i].flags => all.at[i] # -1
            /\ {"alloc", "exec"} \subseteq f.sections[i].flags => text.at[i] # -1
            /\ "write" \in f.sections[i].flags /\ "exec" \notin f.sections[i].flags /\ all.at[i] # -1
                  => all.at[i] >= ro.size
    BY SectionsLaid
<1>3. LaidOut(f, all) /\ LaidOut(f, ro)
    BY <1>2 DEF Later
<1>4. /\ L.at = r.at /\ L.size = r.size /\ L.text_size = text.size /\ L.ro_size = ro.size
    <2>1. layout_sections(f) = [at |-> all.at, size |-> all.size, text_size |-> text.size, ro_size |-> ro.size]
        BY DEF layout_sections, Text, ReadOnly, All, Paged, Unplaced
    <2>2. [at |-> all.at, size |-> all.size] = all
        BY <1>3 DEF LaidOut
    <2> HIDE DEF text, ro, all
    <2>3. layout_sections(f).at = all.at /\ layout_sections(f).size = all.size
        BY <2>1
    <2>4. L = [layout_sections(f) EXCEPT !.at = r.at, !.size = r.size]
        BY <2>2, <2>3 DEF Layout
    <2> HIDE DEF L, r
    <2> QED
        BY <2>1, <2>4
<1> HIDE DEF text, ro, all, L
<1>5. /\ LaidOut(f, r) /\ r.size \in Nat \ {0}
      /\ \A i \in {sym, str} : r.at[i] # -1 /\ r.at[i] >= all.size
      /\ \A i \in D \ {sym, str} : r.at[i] = all.at[i]
      /\ sym \in D /\ f.sections[sym].name = ".symtab" /\ str \in D /\ f.sections[str].name = ".strtab"
    BY <1>1, <1>3, TablesLaid
<1> HIDE DEF r
<1>6. \A i \in Kept(f) : i \in D /\ (i \in {sym, str} \/ "alloc" \in f.sections[i].flags)
    BY DEF Kept, Allocated
<1> HIDE DEF sym, str, D
<1>7. \A i \in Kept(f) : r.at[i] # -1
    BY <1>2, <1>5, <1>6
<1>8. ASSUME NEW i \in Kept(f), NEW j \in Kept(f), i # j
      PROVE  Disjoint(<<r.at[i], f.sections[i].size>>, <<r.at[j], f.sections[j].size>>)
    BY <1>5, <1>6, <1>7, <1>8 DEF LaidOut, D
<1>9. \A i \in Kept(f) : Fits(f, r, i)
    BY <1>5, <1>6, <1>7 DEF LaidOut, D
<1>10. ASSUME NEW i \in Kept(f), "exec" \in f.sections[i].flags
       PROVE  r.at[i] + f.sections[i].size <= text.size
    <2>1. i \notin {sym, str} /\ "alloc" \in f.sections[i].flags /\ i \in D
        BY <1>5, <1>6, <1>10 DEF WellFormed, D
    <2>2. text.at[i] # -1 /\ r.at[i] = text.at[i]
        BY <1>2, <1>5, <1>10, <2>1 DEF Later, D
    <2>3. Fits(f, text, i)
        BY <1>2, <2>1, <2>2 DEF LaidOut, D
    <2> QED
        BY <2>2, <2>3 DEF Fits
<1>11. ASSUME NEW i \in Kept(f), "write" \in f.sections[i].flags, "exec" \notin f.sections[i].flags
       PROVE  r.at[i] >= ro.size
    <2>1. CASE i \in {sym, str}
        <3>1. r.at[i] >= all.size /\ all.size >= ro.size /\ r.at[i] \in Nat
            BY <1>2, <1>5, <1>9, <2>1 DEF Later, Fits
        <3>2. all.size \in Nat /\ ro.size \in Nat
            BY <1>3 DEF LaidOut
        <3> QED
            BY <3>1, <3>2
    <2>2. CASE i \notin {sym, str}
        BY <1>2, <1>5, <1>6, <1>7, <1>11, <2>2
    <2> QED
        BY <2>1, <2>2
<1>12. \A i \in Kept(f) : r.at[i] >= 0
    BY <1>9 DEF Fits
<1>13. \A i \in D : r.at[i] \in Int
    BY <1>5 DEF LaidOut, D
<1>14. WellLaid(f, L)
    BY <1>4, <1>8, <1>9, <1>10, <1>11, <1>12 DEF WellLaid, Fits
<1> QED
    BY <1>4, <1>5, <1>13, <1>14 DEF L, D

-----------------------------------------------------------------------------
(* The fields of a module. *)

\* The forms of a relocation, and the shapes of its field.
RelocShape(t) ==
    /\ t.op \in {"ABS", "PREL", "PAGE"}
    /\ \/ t.form = "data" /\ t.imm_type = 0 /\ t.len \in {16, 32, 64} /\ (t.len = 16 => t.check)
       \/ t.form = "movw" /\ t.imm_type = 16 /\ t.lsb \in {0, 16, 32, 48}
       \/ t.form = "imm" /\ t.imm_type = ADR /\ t.len = 21 /\ t.lsb \in {0, 12}
       \/ t.form = "imm" /\ t.imm_type = 12 /\ <<t.lsb, t.len>> \in {<<0, 12>>, <<1, 11>>, <<2, 10>>, <<3, 9>>, <<4, 8>>}
       \/ t.form = "imm" /\ t.imm_type = t.len /\ t.lsb = 2 /\ t.len \in {14, 19, 26}

LEMMA RelocShapes == \A type \in DOMAIN RelocTypes : RelocShape(RelocTypes[type])
BY SMTT(60) DEF RelocTypes, RelocShape, Reloc, ADR

LEMMA DoReloc ==
    ASSUME NEW op \in {"ABS", "PREL", "PAGE"}, NEW place \in Int, NEW val \in Int
    PROVE  do_reloc(op, place, val) \in Int
BY DEF do_reloc

LEMMA ShrInt ==
    ASSUME NEW val \in Int, NEW n \in {0, 1, 2, 3, 4, 12, 15, 16, 32, 48}
    PROVE  Shr(val, n) \in Int
<1>1. CASE n = 0
    BY <1>1, SMT DEF Shr
<1>2. CASE n = 1
    BY <1>2, SMT DEF Shr
<1>3. CASE n = 2
    BY <1>3, SMT DEF Shr
<1>4. CASE n = 3
    BY <1>4, SMT DEF Shr
<1>5. CASE n = 4
    BY <1>5, SMT DEF Shr
<1>6. CASE n = 12
    BY <1>6, SMT DEF Shr
<1>7. CASE n = 15
    BY <1>7, SMT DEF Shr
<1>8. CASE n = 16
    BY <1>8, SMT DEF Shr
<1>9. CASE n \in {32, 48}
    BY <1>9 DEF Shr
<1> QED
    BY <1>1, <1>2, <1>3, <1>4, <1>5, <1>6, <1>7, <1>8, <1>9

\* A signed field of 14, 19, 21 or 26 bits that passed the test.
LEMMA SignedField ==
    ASSUME NEW s \in Int, NEW len \in {14, 19, 21, 26}, s \div 2^(len - 1) \in {-1, 0}
    PROVE  s = Signed(Low(s, len), len)
<1>1. CASE len = 14
    BY <1>1, SMT DEF Signed, Low
<1>2. CASE len = 19
    BY <1>2, SMT DEF Signed, Low
<1>3. CASE len = 21
    BY <1>3, SMT DEF Signed, Low
<1>4. CASE len = 26
    BY <1>4, SMT DEF Signed, Low
<1> QED
    BY <1>1, <1>2, <1>3, <1>4

LEMMA LowLow ==
    ASSUME NEW s \in Int, NEW len \in {8, 9, 10, 11, 12, 14, 19, 26}
    PROVE  /\ Low(s, len) \in Nat /\ Low(Low(s, len), len) = Low(s, len)
           /\ len <= 12 => Low(Low(s, len), 12) = Low(s, len)
<1>1. CASE len = 8
    BY <1>1, SMT DEF Low
<1>2. CASE len = 9
    BY <1>2, SMT DEF Low
<1>3. CASE len = 10
    BY <1>3, SMT DEF Low
<1>4. CASE len = 11
    BY <1>4, SMT DEF Low
<1>5. CASE len = 12
    BY <1>5, SMT DEF Low
<1>6. CASE len = 14
    BY <1>6, SMT DEF Low
<1>7. CASE len = 19
    BY <1>7, SMT DEF Low
<1>8. CASE len = 26
    BY <1>8, SMT DEF Low
<1> QED
    BY <1>1, <1>2, <1>3, <1>4, <1>5, <1>6, <1>7, <1>8

\* ADR and ADRP keep the two lowest bits apart.
LEMMA AdrField ==
    ASSUME NEW s \in Int
    PROVE  (Low(Shr(Low(s, 21), 2), 19) * 4) + Low(Low(s, 21), 2) = Low(s, 21)
BY SMT DEF Low, Shr

\* The low 12 bits of an address, scaled.
LEMMA ScaledField ==
    ASSUME NEW v \in Int, NEW lsb \in 0 .. 4, NEW len, len = 12 - lsb
    PROVE  Shr(Low(v, 12), lsb) = Low(Shr(v, lsb), len)
<1>0. lsb \in {0, 1, 2, 3, 4}
    OBVIOUS
<1>1. CASE lsb = 0
    BY <1>1, SMT DEF Low, Shr
<1>2. CASE lsb = 1
    BY <1>2, SMT DEF Low, Shr
<1>3. CASE lsb = 2
    BY <1>3, SMT DEF Low, Shr
<1>4. CASE lsb = 3
    BY <1>4, SMT DEF Low, Shr
<1>5. CASE lsb = 4
    BY <1>5, SMT DEF Low, Shr
<1> QED
    BY <1>0, <1>1, <1>2, <1>3, <1>4, <1>5

\* A field that is stored, and not refused, means the value it was made from.
LEMMA FieldRefers ==
    ASSUME NEW type \in DOMAIN RelocTypes, NEW place \in Int, NEW val \in Int,
           RelocTypes[type].check => FALSE \in Applied(type, place, val).ovf
    PROVE  Refers(type, place, val, Applied(type, place, val).field)
<1> DEFINE t == RelocTypes[type]  v == do_reloc(t.op, place, val)  ap == Applied(type, place, val)
           sv == Shr(v, t.lsb)
<1>1. RelocShape(t)
    BY RelocShapes
<1>2. v \in Int
    BY <1>1, DoReloc DEF RelocShape
<1>3. CASE t.form = "data"
    <2>1. /\ ap = reloc_data(t.op, place, val, t.len) /\ t.imm_type = 0
          /\ t.len \in {16, 32, 64} /\ (t.len = 16 => t.check)
        BY <1>1, <1>3 DEF Applied, RelocShape
    <2>2. CASE t.len = 16
        <3>1. ap.field = Low(v, 16) /\ ap.ovf = {~(Shr(v, 15) \in {-1, 0, 1})} /\ t.check
            BY <2>1, <2>2 DEF reloc_data
        <3>2. Shr(v, 15) \in {-1, 0, 1}
            BY <3>1
        <3> HIDE DEF ap, v
        <3>3. v \in {Low(v, 16), Signed(Low(v, 16), 16)}
            BY <1>2, <3>2, SMT DEF Low, Shr, Signed
        <3> QED
            BY <1>3, <2>1, <2>2, <3>1, <3>3 DEF Refers, Operand, ADR, ap, v
    <2>3. CASE t.len # 16
        <3>1. ap.field = v
            BY <2>1, <2>3 DEF reloc_data
        <3> QED
            BY <1>3, <2>3, <3>1 DEF Refers
    <2> QED
        BY <2>2, <2>3
<1>4. CASE t.form = "movw"
    <2>1. /\ ap = reloc_insn_movw(t.op, place, val, t.lsb) /\ t.imm_type = 16 /\ t.lsb \in {0, 16, 32, 48}
        BY <1>1, <1>4 DEF Applied, RelocShape
    <2>2. ap.field = Low(sv, 16) /\ ap.ovf = {Shr(sv, 16) # 0}
        BY <2>1 DEF reloc_insn_movw
    <2>3. sv \in Int
        BY <1>2, <2>1, ShrInt
    <2>4. t.check => sv = Low(sv, 16)
        <3>1. t.check => Shr(sv, 16) = 0
            BY <2>2
        <3> HIDE DEF sv
        <3> QED
            BY <2>3, <3>1, SMT DEF Low, Shr
    <2>5. Operand(t, ap.field) = Low(sv, 16)
        BY <2>1, <2>2 DEF Operand, ADR
    <2> QED
        BY <1>4, <2>4, <2>5 DEF Refers
<1>5. CASE t.form = "imm"
    <2> DEFINE field == aarch64_insn_encode_immediate(t.imm_type, Low(sv, t.len))
    <2>1. /\ ap = reloc_insn_imm(t.op, place, val, t.lsb, t.len, t.imm_type)
          /\ \/ t.imm_type = ADR /\ t.len = 21 /\ t.lsb \in {0, 12}
             \/ t.imm_type = 12 /\ <<t.lsb, t.len>> \in {<<0, 12>>, <<1, 11>>, <<2, 10>>, <<3, 9>>, <<4, 8>>}
             \/ t.imm_type = t.len /\ t.lsb = 2 /\ t.len \in {14, 19, 26}
        BY <1>1, <1>5 DEF Applied, RelocShape
    <2>2. ap.field = field /\ ap.ovf = {~(sv \div 2^(t.len - 1) \in {-1, 0})}
        BY <2>1 DEF reloc_insn_imm
    <2>3. sv \in Int
        <3>1. t.lsb \in {0, 1, 2, 3, 4, 12}
            BY <2>1
        <3> QED
            BY <1>2, <3>1, ShrInt
    <2>4. t.check => sv \div 2^(t.len - 1) \in {-1, 0}
        BY <2>2
    <2>5. CASE t.imm_type = 12
        <3>1. /\ t.lsb \in 0 .. 4 /\ t.len = 12 - t.lsb /\ t.len + t.lsb = 12 /\ t.len <= 12
              /\ t.len \in {8, 9, 10, 11, 12, 14, 19, 26}
            BY <2>1, <2>5 DEF ADR
        <3>2. field = Low(Low(sv, t.len), 12)
            BY <2>5 DEF aarch64_insn_encode_immediate, ADR
        <3>3. Low(Low(sv, t.len), 12) = Low(sv, t.len)
            BY <2>3, <3>1, LowLow
        <3>4. Shr(Low(v, 12), t.lsb) = Low(sv, t.len)
            BY <1>2, <3>1, ScaledField
        <3>5. Operand(t, ap.field) = Low(sv, t.len)
            BY <2>2, <2>5, <3>2, <3>3 DEF Operand, ADR
        <3> QED
            BY <1>5, <3>1, <3>4, <3>5 DEF Refers
    <2>6. CASE t.imm_type # 12
        <3>1. t.len \in {14, 19, 21, 26} /\ t.len + t.lsb # 12
            BY <2>1, <2>6
        <3>2. Operand(t, field) = Low(sv, t.len)
            <4>1. CASE t.imm_type = ADR
                <5>1. field = [lo |-> Low(Low(sv, 21), 2), hi |-> Low(Shr(Low(sv, 21), 2), 19)] /\ t.len = 21
                    BY <2>1, <4>1 DEF aarch64_insn_encode_immediate, ADR
                <5> HIDE DEF field
                <5>2. Operand(t, field) = (field.hi * 4) + field.lo
                    BY <4>1 DEF Operand
                <5>3. field.hi = Low(Shr(Low(sv, 21), 2), 19) /\ field.lo = Low(Low(sv, 21), 2)
                    BY <5>1
                <5> HIDE DEF sv
                <5>4. Operand(t, field) = (Low(Shr(Low(sv, 21), 2), 19) * 4) + Low(Low(sv, 21), 2)
                    BY <5>2, <5>3
                <5> QED
                    BY <2>3, <5>1, <5>4, AdrField
            <4>2. CASE t.imm_type # ADR
                <5>1. t.imm_type = t.len /\ t.len \in {14, 19, 26}
                    BY <2>1, <2>6, <4>2
                <5>2. field = Low(Low(sv, t.len), t.len)
                    BY <4>2, <5>1 DEF aarch64_insn_encode_immediate
                <5>3. Low(Low(sv, t.len), t.len) = Low(sv, t.len)
                    BY <2>3, <5>1, LowLow
                <5> QED
                    BY <4>2, <5>2, <5>3 DEF Operand
            <4> QED
                BY <4>1, <4>2
        <3>3. t.check => sv = Signed(Low(sv, t.len), t.len)
            BY <2>3, <2>4, <3>1, SignedField
        <3> HIDE DEF field
        <3> QED
            BY <1>5, <2>2, <3>1, <3>2, <3>3 DEF Refers
    <2> QED
        BY <2>5, <2>6
<1> QED
    BY <1>1, <1>3, <1>4, <1>5 DEF RelocShape

-----------------------------------------------------------------------------
(* The modules. What is allocated in executable memory and elsewhere is    *)
(* what the modules of the list and the one that is loading hold, and no    *)
(* two of them hold the same.                                               *)

ModFields == {"file", "start", "layout", "text", "ctl_args"}
AreaOf(m) == <<m.start, m.layout.size>>
Areas(M) == {AreaOf(m) : m \in M}
HeldBy(m) ==
    {<<m.file.name, "module">>, <<m.file.name, "args">>}
        \cup (IF m.ctl_args THEN {<<m.file.name, "ctl_args">>} ELSE {})
HeldByAll(M) == UNION {HeldBy(m) : m \in M}
Apart(m, n) == m.file.name # n.file.name /\ Disjoint(AreaOf(m), AreaOf(n))

IsMod(m) ==
    /\ m = [f \in ModFields |-> m[f]]
    /\ m.layout.size \in Nat \ {0} /\ m.ctl_args \in BOOLEAN

Loaded(s) == {s[i] : i \in DOMAIN s}
ListOf(s) ==
    /\ s \in Seq(Loaded(s))
    /\ \A i \in DOMAIN s : IsMod(s[i]) /\ s[i].start \in Nat \ {0}
    /\ \A i, j \in DOMAIN s : i # j => Apart(s[i], s[j])

LoadingOf(l, M) ==
    l # NoLoad =>
        /\ l = [mod |-> l.mod, pc |-> l.pc]
        /\ IsMod(l.mod) /\ l.mod.start \in Nat /\ l.mod.ctl_args = FALSE
        /\ l.pc \in {"move", "link", "init", "free", "free1"}
        /\ l.pc \in {"move", "free1"} => l.mod.start = 0
        /\ l.pc \in {"link", "init"} => l.mod.start # 0
        /\ \A m \in M : m.file.name # l.mod.file.name
        /\ l.mod.start # 0 => \A m \in M : Apart(m, l.mod)

LoadingArea(l) == IF l = NoLoad \/ l.mod.start = 0 THEN {} ELSE {AreaOf(l.mod)}
LoadingHeld(l) ==
    IF l = NoLoad THEN {}
    ELSE IF l.pc = "free1" THEN {<<l.mod.file.name, "module">>} ELSE HeldBy(l.mod)

ModulesInv ==
    /\ ListOf(mods) /\ LoadingOf(loading, Loaded(mods))
    /\ exec_mem = Areas(Loaded(mods)) \cup LoadingArea(loading)
    /\ vmem = HeldByAll(Loaded(mods)) \cup LoadingHeld(loading)

LEMMA ApartSymmetric == ASSUME NEW m, NEW n, Apart(m, n) PROVE Apart(n, m)
BY DEF Apart, Disjoint

\* Areas of some size that do not overlap are two.
LEMMA ApartAreas ==
    ASSUME NEW m, NEW n, IsMod(m), IsMod(n), m.start \in Nat, n.start \in Nat, Apart(m, n)
    PROVE  AreaOf(m) # AreaOf(n)
<1> DEFINE a == m.start  s == m.layout.size  b == n.start  t == n.layout.size
<1>1. a \in Nat /\ b \in Nat /\ s \in Nat /\ s # 0 /\ t \in Nat /\ t # 0
    BY DEF IsMod
<1>2. a + s <= b \/ b + t <= a
    BY DEF Apart, Disjoint, AreaOf
<1>3. a # b \/ s # t
    <2> HIDE DEF a, b, s, t
    <2> QED
        BY <1>1, <1>2
<1> QED
    BY <1>3 DEF AreaOf

LEMMA ApartHeld ==
    ASSUME NEW m, NEW n, Apart(m, n)
    PROVE  HeldBy(m) \cap HeldBy(n) = {}
BY DEF Apart, HeldBy

LEMMA AppendList ==
    ASSUME NEW s, ListOf(s), NEW m, IsMod(m), m.start \in Nat \ {0}, \A x \in Loaded(s) : Apart(x, m)
    PROVE  ListOf(Append(s, m)) /\ Loaded(Append(s, m)) = Loaded(s) \cup {m}
<1> DEFINE t == Append(s, m)  n == Len(s)  S == Loaded(s) \cup {m}
<1>1. s \in Seq(Loaded(s)) /\ n \in Nat /\ DOMAIN s = 1 .. n
    BY LenProperties DEF ListOf
<1>2. s \in Seq(S)
    BY <1>1, SeqMonotonic
<1>3. /\ t \in Seq(S) /\ Len(t) = n + 1 /\ t[n + 1] = m
      /\ \A i \in 1 .. n : t[i] = s[i]
    <2>1. m \in S
        OBVIOUS
    <2> QED
        BY <1>2, <2>1, AppendProperties
<1>4. DOMAIN t = 1 .. n + 1
    BY <1>3, LenProperties
<1>5. \A i \in DOMAIN t : (i \in DOMAIN s /\ t[i] = s[i]) \/ (i = n + 1 /\ t[i] = m)
    <2> HIDE DEF t, n, S
    <2> QED
        BY <1>1, <1>3, <1>4
<1>6. Loaded(t) = S
    <2>1. \A i \in DOMAIN s : i \in DOMAIN t /\ t[i] = s[i]
        BY <1>1, <1>3, <1>4
    <2>2. n + 1 \in DOMAIN t
        BY <1>1, <1>4
    <2> HIDE DEF t, n
    <2> QED
        BY <1>3, <1>5, <2>1, <2>2 DEF Loaded
<1>7. \A x \in Loaded(s) : Apart(x, m) /\ Apart(m, x)
    BY ApartSymmetric
<1>8. \A i \in DOMAIN s : s[i] \in Loaded(s)
    BY DEF Loaded
<1> HIDE DEF t, n, S
<1>9. \A i \in DOMAIN t : IsMod(t[i]) /\ t[i].start \in Nat \ {0}
    BY <1>5 DEF ListOf
<1>10. \A i, j \in DOMAIN t : i # j => Apart(t[i], t[j])
    BY <1>5, <1>7, <1>8 DEF ListOf
<1>11. ListOf(t)
    BY <1>3, <1>6, <1>9, <1>10 DEF ListOf
<1> QED
    BY <1>6, <1>11 DEF t, S

LEMMA RemoveList ==
    ASSUME NEW s, ListOf(s), NEW i \in DOMAIN s
    PROVE  ListOf(RemoveAt(s, i)) /\ Loaded(RemoveAt(s, i)) = Loaded(s) \ {s[i]}
<1> DEFINE n == Len(s)  S == Loaded(s)  r == RemoveAt(s, i)
           a == SubSeq(s, 1, i - 1)  b == SubSeq(s, i + 1, n)
<1>1. s \in Seq(S) /\ n \in Nat /\ DOMAIN s = 1 .. n /\ i \in 1 .. n
    BY LenProperties DEF ListOf
<1>2. \A j \in 1 .. n : s[j] \in S
    BY <1>1 DEF Loaded
<1>3. /\ a \in Seq(S) /\ Len(a) = i - 1
      /\ \A j \in 1 .. i - 1 : a[j] = s[j]
    <2>1. (\A j \in 1 .. i - 1 : s[j] \in S) /\ 1 \in Int /\ i - 1 \in Int
        BY <1>1, <1>2
    <2>2. /\ a \in Seq(S) /\ Len(a) = IF 1 <= i - 1 THEN i - 1 - 1 + 1 ELSE 0
          /\ \A j \in 1 .. i - 1 - 1 + 1 : a[j] = s[1 + j - 1]
        BY <2>1, SubSeqProperties
    <2> HIDE DEF a, S
    <2>3. i \in Nat /\ i >= 1
        BY <1>1
    <2>4. Len(a) = i - 1
        BY <2>2, <2>3
    <2>5. \A j \in 1 .. i - 1 : j \in 1 .. i - 1 - 1 + 1 /\ 1 + j - 1 = j
        BY <2>3
    <2> QED
        BY <2>2, <2>4, <2>5
<1>4. /\ b \in Seq(S) /\ Len(b) = n - i
      /\ \A j \in 1 .. n - i : b[j] = s[i + j]
    <2>1. (\A j \in i + 1 .. n : s[j] \in S) /\ i + 1 \in Int /\ n \in Int
        BY <1>1, <1>2
    <2>2. /\ b \in Seq(S) /\ Len(b) = IF i + 1 <= n THEN n - (i + 1) + 1 ELSE 0
          /\ \A j \in 1 .. n - (i + 1) + 1 : b[j] = s[i + 1 + j - 1]
        BY <2>1, SubSeqProperties
    <2> HIDE DEF b, n, S
    <2>3. Len(b) = n - i
        BY <1>1, <2>2
    <2>4. \A j \in 1 .. n - i : j \in 1 .. n - (i + 1) + 1 /\ i + 1 + j - 1 = i + j
        BY <1>1
    <2> QED
        BY <2>2, <2>3, <2>4
<1>5. /\ r \in Seq(S) /\ Len(r) = n - 1
      /\ \A j \in 1 .. n - 1 : r[j] = IF j < i THEN s[j] ELSE s[j + 1]
    <2>1. r = a \o b
        BY DEF RemoveAt
    <2>2. /\ a \o b \in Seq(S) /\ Len(a \o b) = Len(a) + Len(b)
          /\ \A j \in 1 .. Len(a) + Len(b) : (a \o b)[j] = IF j <= Len(a) THEN a[j] ELSE b[j - Len(a)]
        BY <1>3, <1>4, ConcatProperties
    <2> HIDE DEF a, b, n, S, r
    <2>3. Len(a) + Len(b) = n - 1
        BY <1>1, <1>3, <1>4
    <2>4. ASSUME NEW j \in 1 .. n - 1
          PROVE  r[j] = IF j < i THEN s[j] ELSE s[j + 1]
        <3>1. r[j] = IF j <= i - 1 THEN a[j] ELSE b[j - (i - 1)]
            BY <1>3, <2>1, <2>2, <2>3
        <3>2. CASE j < i
            <4>1. j \in 1 .. i - 1 /\ j <= i - 1
                BY <1>1, <3>2
            <4> QED
                BY <3>1, <3>2, <4>1, <1>3
        <3>3. CASE ~(j < i)
            <4>1. j - (i - 1) \in 1 .. n - i /\ ~(j <= i - 1) /\ i + (j - (i - 1)) = j + 1
                BY <1>1, <3>3
            <4>2. b[j - (i - 1)] = s[j + 1]
                BY <1>4, <4>1
            <4> QED
                BY <3>1, <3>3, <4>1, <4>2
        <3> QED
            BY <3>2, <3>3
    <2> QED
        BY <2>1, <2>2, <2>3, <2>4
<1>6. DOMAIN r = 1 .. n - 1
    BY <1>5, LenProperties
<1> DEFINE Old(j) == IF j < i THEN j ELSE j + 1
<1> HIDE DEF a, b, n, S, r
<1>7. \A j \in DOMAIN r : Old(j) \in DOMAIN s /\ Old(j) # i /\ r[j] = s[Old(j)]
    BY <1>1, <1>5, <1>6
<1>8. \A j, k \in DOMAIN r : j # k => Old(j) # Old(k)
    BY <1>1, <1>6
<1>9. \A k \in DOMAIN s : k # i => \E j \in DOMAIN r : Old(j) = k
    <2> SUFFICES ASSUME NEW k \in DOMAIN s, k # i PROVE \E j \in DOMAIN r : Old(j) = k
        OBVIOUS
    <2> DEFINE j == IF k < i THEN k ELSE k - 1
    <2>1. j \in 1 .. n - 1 /\ Old(j) = k
        BY <1>1
    <2> QED
        BY <2>1, <1>6
<1> HIDE DEF Old
<1>10. \A k \in DOMAIN s : k # i => s[k] # s[i]
    BY DEF ListOf, Apart
<1>11. Loaded(r) = S \ {s[i]}
    BY <1>7, <1>9, <1>10 DEF Loaded, S
<1>12. /\ \A j \in DOMAIN r : IsMod(r[j]) /\ r[j].start \in Nat \ {0}
       /\ \A j, k \in DOMAIN r : j # k => Apart(r[j], r[k])
    BY <1>7, <1>8 DEF ListOf
<1>13. r \in Seq(Loaded(r))
    <2>1. \A j \in 1 .. Len(r) : r[j] \in Loaded(r)
        BY <1>5, <1>6 DEF Loaded
    <2>2. Len(r) \in Nat /\ r = [j \in 1 .. Len(r) |-> r[j]]
        BY <1>5, LenProperties
    <2> QED
        BY <2>1, <2>2, IsASeq
<1> QED
    BY <1>11, <1>12, <1>13 DEF ListOf, r, S

LEMMA ReplaceList ==
    ASSUME NEW s, ListOf(s), NEW i \in DOMAIN s, NEW m, IsMod(m),
           m.file = s[i].file, m.start = s[i].start, m.layout = s[i].layout,
           NEW t, t = [j \in DOMAIN s |-> IF j = i THEN m ELSE s[j]]
    PROVE  ListOf(t) /\ Loaded(t) = (Loaded(s) \ {s[i]}) \cup {m}
<1> DEFINE n == Len(s)
<1>1. s \in Seq(Loaded(s)) /\ n \in Nat /\ DOMAIN s = 1 .. n /\ i \in 1 .. n
    BY LenProperties DEF ListOf
<1>2. DOMAIN t = DOMAIN s /\ \A j \in DOMAIN s : t[j] = IF j = i THEN m ELSE s[j]
    OBVIOUS
<1>3. \A j \in DOMAIN s : j # i => s[j] # s[i]
    BY DEF ListOf, Apart
<1> HIDE DEF n
<1>4. Loaded(t) = (Loaded(s) \ {s[i]}) \cup {m}
    BY <1>2, <1>3 DEF Loaded
<1>5. \A j \in DOMAIN t : t[j].file = s[j].file /\ AreaOf(t[j]) = AreaOf(s[j]) /\ t[j].start = s[j].start
    BY <1>2 DEF AreaOf
<1>6. \A j \in DOMAIN t : IsMod(t[j]) /\ t[j].start \in Nat \ {0}
    BY <1>2, <1>5 DEF ListOf
<1>7. \A j, k \in DOMAIN t : j # k => Apart(t[j], t[k])
    BY <1>2, <1>5 DEF ListOf, Apart
<1>8. t \in Seq(Loaded(t))
    <2>1. \A j \in 1 .. n : t[j] \in Loaded(t)
        BY <1>1, <1>2 DEF Loaded
    <2>2. t = [j \in 1 .. n |-> t[j]]
        BY <1>1
    <2> QED
        BY <2>1, <2>2, <1>1, IsASeq
<1> QED
    BY <1>4, <1>6, <1>7, <1>8 DEF ListOf

\* find_module() answers the place of the one module of that name.
LEMMA FindModule ==
    ASSUME ListOf(mods), NEW name
    PROVE  /\ find_module(name) # 0 => find_module(name) \in DOMAIN mods /\ mods[find_module(name)].file.name = name
           /\ find_module(name) = 0 => \A m \in Loaded(mods) : m.file.name # name
<1> DEFINE I == {i \in 1 .. Len(mods) : mods[i].file.name = name}
<1>1. find_module(name) = IF I # {} THEN Min(I) ELSE 0
    BY DEF find_module, SelectInSeq
<1>2. DOMAIN mods = 1 .. Len(mods) /\ Len(mods) \in Nat
    BY LenProperties DEF ListOf
<1>3. CASE I = {}
    BY <1>1, <1>2, <1>3 DEF Loaded
<1>4. CASE I # {}
    <2>1. PICK k \in I : TRUE
        BY <1>4
    <2>2. \A j \in I : j = k
        BY <1>2 DEF ListOf, Apart
    <2>3. k \in Nat /\ k # 0
        BY <1>2
    <2>4. Min(I) \in I
        <3>1. \E x \in I : \A y \in I : x <= y
            BY <2>2, <2>3
        <3> QED
            BY <3>1 DEF Min
    <2> QED
        BY <1>1, <1>2, <1>4, <2>2, <2>3, <2>4
<1> QED
    BY <1>3, <1>4

LEMMA LoadedApart ==
    ASSUME ListOf(mods)
    PROVE  /\ \A m \in Loaded(mods) : IsMod(m) /\ m.start \in Nat \ {0}
           /\ \A m, n \in Loaded(mods) : m # n => Apart(m, n)
BY DEF ListOf, Loaded

\* Without a module there is what the others hold.
LEMMA TakenOut ==
    ASSUME ListOf(mods), NEW m \in Loaded(mods)
    PROVE  /\ Areas(Loaded(mods) \ {m}) = Areas(Loaded(mods)) \ {AreaOf(m)}
           /\ HeldByAll(Loaded(mods) \ {m}) = HeldByAll(Loaded(mods)) \ HeldBy(m)
<1>1. \A x \in Loaded(mods) : x # m => AreaOf(x) # AreaOf(m)
    BY LoadedApart, ApartAreas
<1>2. \A x \in Loaded(mods) : x # m => HeldBy(x) \cap HeldBy(m) = {}
    BY LoadedApart, ApartHeld
<1>3. Areas(Loaded(mods) \ {m}) = Areas(Loaded(mods)) \ {AreaOf(m)}
    BY <1>1 DEF Areas
<1>4. HeldByAll(Loaded(mods) \ {m}) = HeldByAll(Loaded(mods)) \ HeldBy(m)
    <2>1. \A h \in HeldByAll(Loaded(mods) \ {m}) : h \in HeldByAll(Loaded(mods)) \ HeldBy(m)
        BY <1>2 DEF HeldByAll
    <2>2. \A h \in HeldByAll(Loaded(mods)) \ HeldBy(m) : h \in HeldByAll(Loaded(mods) \ {m})
        BY DEF HeldByAll
    <2> QED
        BY <2>1, <2>2
<1> QED
    BY <1>3, <1>4

LEMMA PutIn ==
    ASSUME NEW M, NEW m
    PROVE  /\ Areas(M \cup {m}) = Areas(M) \cup {AreaOf(m)}
           /\ HeldByAll(M \cup {m}) = HeldByAll(M) \cup HeldBy(m)
<1>1. Areas(M \cup {m}) = Areas(M) \cup {AreaOf(m)}
    BY DEF Areas
<1>2. HeldByAll(M \cup {m}) = HeldByAll(M) \cup HeldBy(m)
    BY DEF HeldByAll
<1> QED
    BY <1>1, <1>2

LEMMA ModulesStart == KpmModulesInit => ModulesInv
<1> SUFFICES ASSUME KpmModulesInit PROVE ModulesInv
    OBVIOUS
<1>1. mods = <<>> /\ loading = NoLoad /\ exec_mem = {} /\ vmem = {}
    BY DEF KpmModulesInit
<1>2. DOMAIN mods = {}
    <2>1. DOMAIN mods = 1 .. 0
        BY <1>1
    <2>2. 1 .. 0 = {}
        OBVIOUS
    <2> QED
        BY <2>1, <2>2
<1>3. Loaded(mods) = {}
    BY <1>2 DEF Loaded
<1>4. ListOf(mods)
    <2>1. mods \in Seq(Loaded(mods))
        BY <1>1
    <2> QED
        BY <1>2, <2>1 DEF ListOf
<1>5. Areas(Loaded(mods)) = {} /\ HeldByAll(Loaded(mods)) = {}
    BY <1>3 DEF Areas, HeldByAll
<1> QED
    BY <1>1, <1>4, <1>5 DEF ModulesInv, LoadingOf, LoadingArea, LoadingHeld

LEMMA LoadBegins ==
    ASSUME ModulesInv, NEW f \in ObjectFiles, load_module(f)
    PROVE  ModulesInv'
<1> DEFINE mod == [file |-> f, start |-> 0, layout |-> Layout(f), text |-> <<>>, ctl_args |-> FALSE]
           M == Loaded(mods)
<1>1. /\ loading = NoLoad /\ setup_load_info(f) = 0 /\ find_module(f.name) = 0
      /\ mods' = mods /\ exec_mem' = exec_mem
      /\ \/ loading' = [mod |-> mod, pc |-> "move"] /\ vmem' = vmem \cup {<<f.name, "module">>, <<f.name, "args">>}
         \/ loading' = [mod |-> mod, pc |-> "free1"] /\ vmem' = vmem \cup {<<f.name, "module">>}
    BY DEF load_module
<1>2. mod.file = f /\ mod.start = 0 /\ mod.layout = Layout(f) /\ mod.ctl_args = FALSE
    OBVIOUS
<1>3. IsMod(mod)
    <2>1. Layout(f).size \in Nat \ {0}
        BY <1>1, FilesAssumption, LayoutLaid
    <2>2. mod = [x \in ModFields |-> mod[x]]
        BY DEF ModFields
    <2> HIDE DEF mod
    <2> QED
        BY <1>2, <2>1, <2>2 DEF IsMod
<1>4. \A m \in M : m.file.name # f.name
    BY <1>1, FindModule DEF ModulesInv
<1> HIDE DEF mod
<1>5. PICK pc \in {"move", "free1"} :
          /\ loading' = [mod |-> mod, pc |-> pc]
          /\ vmem' = vmem \cup (IF pc = "free1" THEN {<<f.name, "module">>} ELSE HeldBy(mod))
    BY <1>1, <1>2 DEF HeldBy
<1>6. loading'.mod = mod /\ loading'.pc = pc
    BY <1>5
<1>7. loading' # NoLoad
    BY <1>6 DEF NoLoad
<1>8. LoadingOf(loading', M)
    BY <1>2, <1>3, <1>4, <1>5, <1>6 DEF LoadingOf
<1>9. LoadingArea(loading') = {} /\ LoadingArea(loading) = {} /\ LoadingHeld(loading) = {}
    BY <1>1, <1>2, <1>6 DEF LoadingArea, LoadingHeld
<1>10. LoadingHeld(loading') = IF pc = "free1" THEN {<<f.name, "module">>} ELSE HeldBy(mod)
    BY <1>2, <1>6, <1>7 DEF LoadingHeld
<1> HIDE DEF M
<1>11. ListOf(mods) /\ exec_mem = Areas(M) /\ vmem = HeldByAll(M)
    BY <1>9 DEF ModulesInv, M
<1>12. Loaded(mods') = M
    BY <1>1 DEF M
<1> QED
    BY <1>1, <1>5, <1>8, <1>9, <1>10, <1>11, <1>12 DEF ModulesInv

\* A step of the module that is loading, which leaves the list alone.
LEMMA LoadGoesOn ==
    ASSUME ModulesInv, mods' = mods, LoadingOf(loading', Loaded(mods)),
           \/ exec_mem' = exec_mem /\ LoadingArea(loading') = LoadingArea(loading)
           \/ LoadingArea(loading) = {} /\ exec_mem' = exec_mem \cup LoadingArea(loading'),
           vmem' = vmem, LoadingHeld(loading') = LoadingHeld(loading)
    PROVE  ModulesInv'
<1>1. ListOf(mods') /\ Loaded(mods') = Loaded(mods)
    BY DEF ModulesInv
<1>2. exec_mem' = Areas(Loaded(mods)) \cup LoadingArea(loading')
    BY DEF ModulesInv
<1> QED
    BY <1>1, <1>2 DEF ModulesInv

LEMMA GoStep ==
    ASSUME LoadingOf(loading, Loaded(mods)), loading # NoLoad, NEW pc, Go(pc)
    PROVE  loading' = [mod |-> loading.mod, pc |-> pc] /\ loading'.mod = loading.mod /\ loading'.pc = pc
<1>1. loading = [mod |-> loading.mod, pc |-> loading.pc]
    BY DEF LoadingOf
<1> QED
    BY <1>1 DEF Go

LEMMA GoFreeKeeps ==
    ASSUME ModulesInv, loading # NoLoad, loading.pc # "free1", Go("free"), UNCHANGED <<mods, exec_mem, vmem>>
    PROVE  ModulesInv'
<1>1. LoadingOf(loading, Loaded(mods))
    BY DEF ModulesInv
<1>2. loading' = [mod |-> loading.mod, pc |-> "free"] /\ loading'.mod = loading.mod /\ loading'.pc = "free"
    BY <1>1, GoStep
<1>3. loading' # NoLoad
    BY <1>2 DEF NoLoad
<1>4. LoadingOf(loading', Loaded(mods))
    BY <1>1, <1>2, <1>3 DEF LoadingOf
<1>5. LoadingArea(loading') = LoadingArea(loading) /\ LoadingHeld(loading') = LoadingHeld(loading)
    BY <1>2, <1>3 DEF LoadingArea, LoadingHeld
<1> QED
    BY <1>4, <1>5, LoadGoesOn

LEMMA MoveKeeps == ModulesInv /\ move_module => ModulesInv'
<1> SUFFICES ASSUME ModulesInv, move_module PROVE ModulesInv'
    OBVIOUS
<1> DEFINE size == loading.mod.layout.size  M == Loaded(mods)
<1>1. loading.pc = "move" /\ mods' = mods /\ vmem' = vmem
    BY DEF move_module
<1>2. loading # NoLoad
    BY <1>1 DEF NoLoad
<1>3. LoadingOf(loading, M)
    BY DEF ModulesInv
<1>4. CASE Go("free") /\ UNCHANGED exec_mem
    BY <1>1, <1>2, <1>4, GoFreeKeeps
<1>5. ASSUME NEW start \in FreePlaces(size),
             loading' = [loading EXCEPT !.pc = "link", !.mod.start = start],
             exec_mem' = exec_mem \cup {<<start, size>>}
      PROVE  ModulesInv'
    <2> DEFINE old == loading.mod  new == [old EXCEPT !.start = start]
    <2>1. loading = [mod |-> old, pc |-> loading.pc] /\ IsMod(old) /\ old.start = 0 /\ old.ctl_args = FALSE
        BY <1>1, <1>2, <1>3 DEF LoadingOf
    <2>2. loading' = [mod |-> new, pc |-> "link"] /\ loading'.mod = new /\ loading'.pc = "link"
        <3>1. loading = [mod |-> old, pc |-> "move"]
            BY <1>1, <2>1
        <3> HIDE DEF old
        <3> QED
            BY <3>1, <1>5
    <2>3. /\ new = [x \in ModFields |-> new[x]]
          /\ new.start = start /\ new.file = old.file /\ new.layout = old.layout /\ new.ctl_args = old.ctl_args
        <3>1. old = [x \in ModFields |-> old[x]]
            BY <2>1 DEF IsMod
        <3> HIDE DEF old
        <3> QED
            BY <3>1 DEF ModFields
    <2>4. start \in Nat /\ start # 0 /\ \A a \in exec_mem : Disjoint(a, <<start, size>>)
        BY AreasAssumption DEF FreePlaces
    <2> HIDE DEF new
    <2>5. AreaOf(new) = <<start, size>> /\ IsMod(new) /\ HeldBy(new) = HeldBy(old)
        BY <2>1, <2>3 DEF AreaOf, IsMod, HeldBy
    <2>6. \A m \in M : Apart(m, new)
        <3>1. \A m \in M : AreaOf(m) \in exec_mem
            BY DEF ModulesInv, Areas
        <3>2. \A m \in M : m.file.name # new.file.name
            BY <1>2, <1>3, <2>3 DEF LoadingOf
        <3> QED
            BY <2>4, <2>5, <3>1, <3>2 DEF Apart
    <2>7. loading' # NoLoad
        BY <2>2 DEF NoLoad
    <2>8. LoadingOf(loading', M)
        BY <2>1, <2>2, <2>3, <2>4, <2>5, <2>6, <2>7 DEF LoadingOf, Apart
    <2>9. LoadingArea(loading) = {} /\ LoadingArea(loading') = {<<start, size>>}
        BY <2>1, <2>2, <2>3, <2>4, <2>5, <2>7 DEF LoadingArea
    <2>10. LoadingHeld(loading') = LoadingHeld(loading)
        BY <1>1, <1>2, <2>2, <2>5, <2>7 DEF LoadingHeld
    <2> HIDE DEF size
    <2> QED
        BY <1>1, <1>5, <2>8, <2>9, <2>10, LoadGoesOn
<1> QED
    BY <1>4, <1>5 DEF move_module

LEMMA LinkKeeps == ModulesInv /\ Link => ModulesInv'
<1> SUFFICES ASSUME ModulesInv, Link PROVE ModulesInv'
    OBVIOUS
<1> DEFINE M == Loaded(mods)
<1>1. loading.pc = "link" /\ UNCHANGED <<mods, exec_mem, vmem>>
    BY DEF Link
<1>2. loading # NoLoad
    BY <1>1 DEF NoLoad
<1>3. LoadingOf(loading, M)
    BY DEF ModulesInv
<1>4. CASE Go("free")
    BY <1>1, <1>2, <1>4, GoFreeKeeps
<1>5. ASSUME NEW text, loading' = [loading EXCEPT !.pc = "init", !.mod.text = text]
      PROVE  ModulesInv'
    <2> DEFINE old == loading.mod  new == [old EXCEPT !.text = text]
    <2>1. loading = [mod |-> old, pc |-> "link"] /\ IsMod(old) /\ old.start # 0 /\ old.ctl_args = FALSE
        BY <1>1, <1>2, <1>3 DEF LoadingOf
    <2>2. loading' = [mod |-> new, pc |-> "init"] /\ loading'.mod = new /\ loading'.pc = "init"
        <3> HIDE DEF old
        <3> QED
            BY <2>1, <1>5
    <2>3. /\ new = [x \in ModFields |-> new[x]]
          /\ new.start = old.start /\ new.file = old.file /\ new.layout = old.layout /\ new.ctl_args = old.ctl_args
        <3>1. old = [x \in ModFields |-> old[x]]
            BY <2>1 DEF IsMod
        <3> HIDE DEF old
        <3> QED
            BY <3>1 DEF ModFields
    <2> HIDE DEF new
    <2>4. AreaOf(new) = AreaOf(old) /\ IsMod(new) /\ HeldBy(new) = HeldBy(old)
        BY <2>1, <2>3 DEF AreaOf, IsMod, HeldBy
    <2>5. loading' # NoLoad
        BY <2>2 DEF NoLoad
    <2>6. LoadingOf(loading', M)
        BY <1>2, <1>3, <2>1, <2>2, <2>3, <2>4, <2>5 DEF LoadingOf, Apart
    <2>7. LoadingArea(loading') = LoadingArea(loading) /\ LoadingHeld(loading') = LoadingHeld(loading)
        BY <1>1, <1>2, <2>2, <2>3, <2>4, <2>5 DEF LoadingArea, LoadingHeld
    <2> QED
        BY <1>1, <2>6, <2>7, LoadGoesOn
<1> QED
    BY <1>4, <1>5 DEF Link

LEMMA StartKeeps == ModulesInv /\ Start => ModulesInv'
<1> SUFFICES ASSUME ModulesInv, Start PROVE ModulesInv'
    OBVIOUS
<1> DEFINE M == Loaded(mods)  new == loading.mod
<1>1. loading.pc = "init" /\ UNCHANGED <<exec_mem, vmem>>
    BY DEF Start
<1>2. loading # NoLoad
    BY <1>1 DEF NoLoad
<1>3. CASE Go("free") /\ UNCHANGED mods
    BY <1>1, <1>2, <1>3, GoFreeKeeps
<1>4. CASE loading' = NoLoad /\ mods' = Append(mods, new)
    <2>1. ListOf(mods) /\ IsMod(new) /\ new.start \in Nat \ {0} /\ \A m \in M : Apart(m, new)
        BY <1>1, <1>2 DEF ModulesInv, LoadingOf
    <2>2. LoadingArea(loading) = {AreaOf(new)} /\ LoadingHeld(loading) = HeldBy(new)
        BY <1>1, <1>2, <2>1 DEF LoadingArea, LoadingHeld
    <2>3. exec_mem = Areas(M) \cup {AreaOf(new)} /\ vmem = HeldByAll(M) \cup HeldBy(new)
        BY <2>2 DEF ModulesInv
    <2> HIDE DEF new
    <2>4. ListOf(mods') /\ Loaded(mods') = M \cup {new}
        BY <1>4, <2>1, AppendList
    <2>5. LoadingOf(loading', Loaded(mods')) /\ LoadingArea(loading') = {} /\ LoadingHeld(loading') = {}
        BY <1>4 DEF LoadingOf, LoadingArea, LoadingHeld
    <2> HIDE DEF M
    <2>6. Areas(Loaded(mods')) = exec_mem /\ HeldByAll(Loaded(mods')) = vmem
        BY <2>3, <2>4, PutIn
    <2> QED
        BY <1>1, <2>4, <2>5, <2>6 DEF ModulesInv
<1> QED
    BY <1>3, <1>4 DEF Start

LEMMA FreeKeepsLoaded == ModulesInv /\ FreeLoading => ModulesInv'
<1> SUFFICES ASSUME ModulesInv, FreeLoading PROVE ModulesInv'
    OBVIOUS
<1> DEFINE M == Loaded(mods)  mod == loading.mod
<1>1. loading.pc \in {"free", "free1"} /\ loading' = NoLoad /\ mods' = mods
    BY DEF FreeLoading
<1>2. loading # NoLoad
    BY <1>1 DEF NoLoad
<1>3. /\ IsMod(mod) /\ mod.ctl_args = FALSE /\ mod.start \in Nat /\ ListOf(mods)
      /\ \A m \in M : m.file.name # mod.file.name
      /\ mod.start # 0 => \A m \in M : Apart(m, mod)
    BY <1>2 DEF ModulesInv, LoadingOf
<1>4. exec_mem' = Areas(M)
    <2>1. exec_mem' = exec_mem \ LoadingArea(loading)
        BY <1>2 DEF FreeLoading, LoadingArea, AreaOf
    <2>2. LoadingArea(loading) \cap Areas(M) = {}
        <3>1. mod.start # 0 => \A m \in M : AreaOf(m) # AreaOf(mod)
            BY <1>3, LoadedApart, ApartAreas
        <3> QED
            BY <3>1 DEF LoadingArea, Areas
    <2>3. exec_mem = Areas(M) \cup LoadingArea(loading)
        BY DEF ModulesInv
    <2> QED
        BY <2>1, <2>2, <2>3
<1>5. vmem' = HeldByAll(M)
    <2>1. vmem' = vmem \ LoadingHeld(loading)
        BY <1>1, <1>2, <1>3 DEF FreeLoading, LoadingHeld, HeldBy
    <2>2. \A h \in LoadingHeld(loading) : h[1] = mod.file.name
        BY <1>2, <1>3 DEF LoadingHeld, HeldBy
    <2>3. \A h \in HeldByAll(M) : h[1] # mod.file.name
        BY <1>3 DEF HeldByAll, HeldBy
    <2>4. vmem = HeldByAll(M) \cup LoadingHeld(loading)
        BY DEF ModulesInv
    <2> QED
        BY <2>1, <2>2, <2>3, <2>4
<1>6. LoadingOf(loading', Loaded(mods')) /\ LoadingArea(loading') = {} /\ LoadingHeld(loading') = {}
    BY <1>1 DEF LoadingOf, LoadingArea, LoadingHeld
<1> QED
    BY <1>1, <1>3, <1>4, <1>5, <1>6 DEF ModulesInv

LEMMA UnloadKeeps ==
    ASSUME ModulesInv, NEW name, unload_module(name)
    PROVE  ModulesInv'
<1>1. PICK i \in DOMAIN mods :
          /\ i = find_module(name) /\ mods[i].file.name = name /\ mods' = RemoveAt(mods, i)
          /\ loading = NoLoad /\ loading' = loading
          /\ exec_mem' = exec_mem \ {AreaOf(mods[i])} /\ vmem' = vmem \ HeldBy(mods[i])
    <2>1. find_module(name) \in DOMAIN mods /\ mods[find_module(name)].file.name = name
        BY FindModule DEF unload_module, ModulesInv
    <2> QED
        BY <2>1 DEF unload_module, AreaOf, HeldBy
<1> DEFINE M == Loaded(mods)  m == mods[i]
<1>2. ListOf(mods) /\ m \in M
    BY DEF ModulesInv, Loaded
<1>3. ListOf(mods') /\ Loaded(mods') = M \ {m}
    BY <1>1, <1>2, RemoveList
<1>4. /\ LoadingOf(loading', Loaded(mods')) /\ LoadingArea(loading') = {} /\ LoadingHeld(loading') = {}
      /\ LoadingArea(loading) = {} /\ LoadingHeld(loading) = {}
    BY <1>1 DEF LoadingOf, LoadingArea, LoadingHeld
<1>5. exec_mem = Areas(M) /\ vmem = HeldByAll(M)
    BY <1>4 DEF ModulesInv
<1>6. Areas(M \ {m}) = Areas(M) \ {AreaOf(m)} /\ HeldByAll(M \ {m}) = HeldByAll(M) \ HeldBy(m)
    BY <1>2, TakenOut
<1> HIDE DEF M, m
<1>7. exec_mem' = exec_mem \ {AreaOf(m)} /\ vmem' = vmem \ HeldBy(m)
    BY <1>1 DEF m
<1> QED
    BY <1>3, <1>4, <1>5, <1>6, <1>7 DEF ModulesInv

LEMMA ControlKeeps ==
    ASSUME ModulesInv, NEW name, module_control0(name)
    PROVE  ModulesInv'
<1>1. find_module(name) \in DOMAIN mods /\ mods[find_module(name)].file.name = name
    BY FindModule DEF module_control0, ModulesInv
<1>2. PICK i \in DOMAIN mods, enough \in BOOLEAN :
          /\ mods[i].file.name = name /\ mods' = [mods EXCEPT ![i].ctl_args = enough]
          /\ vmem' = (vmem \ {<<name, "ctl_args">>}) \cup (IF enough THEN {<<name, "ctl_args">>} ELSE {})
    BY <1>1 DEF module_control0
<1>3. loading = NoLoad /\ loading' = loading /\ exec_mem' = exec_mem
    BY DEF module_control0
<1> DEFINE M == Loaded(mods)  old == mods[i]  new == [old EXCEPT !.ctl_args = enough]
<1>4. ListOf(mods) /\ old \in M /\ IsMod(old)
    BY DEF ModulesInv, Loaded, ListOf
<1>5. /\ new = [x \in ModFields |-> new[x]]
      /\ new.start = old.start /\ new.file = old.file /\ new.layout = old.layout /\ new.ctl_args = enough
    <2>1. old = [x \in ModFields |-> old[x]]
        BY <1>4 DEF IsMod
    <2> HIDE DEF old
    <2> QED
        BY <2>1 DEF ModFields
<1>6. mods' = [mods EXCEPT ![i] = new]
    BY <1>2
<1> HIDE DEF new
<1>7. IsMod(new) /\ AreaOf(new) = AreaOf(old)
    BY <1>4, <1>5 DEF IsMod, AreaOf
<1>8. ListOf(mods') /\ Loaded(mods') = (M \ {old}) \cup {new}
    <2>1. new.file = mods[i].file /\ new.start = mods[i].start /\ new.layout = mods[i].layout
        BY <1>5
    <2> QED
        <3>1. i \in DOMAIN mods /\ ListOf(mods) /\ IsMod(new)
            BY <1>2, <1>4, <1>7
        <3>2. mods' = [j \in DOMAIN mods |-> IF j = i THEN new ELSE mods[j]]
            BY <1>6
        <3> QED
            BY <2>1, <3>1, <3>2, ReplaceList
<1>9. /\ LoadingOf(loading', Loaded(mods')) /\ LoadingArea(loading') = {} /\ LoadingHeld(loading') = {}
      /\ LoadingArea(loading) = {} /\ LoadingHeld(loading) = {}
    BY <1>3 DEF LoadingOf, LoadingArea, LoadingHeld
<1>10. exec_mem = Areas(M) /\ vmem = HeldByAll(M)
    BY <1>9 DEF ModulesInv
<1>11. Areas(M \ {old}) = Areas(M) \ {AreaOf(old)} /\ HeldByAll(M \ {old}) = HeldByAll(M) \ HeldBy(old)
    BY <1>4, TakenOut
<1>12. \A m \in M : m # old => m.file.name # name
    BY <1>2, <1>4, LoadedApart DEF Apart
<1>13. AreaOf(old) \in Areas(M) /\ HeldBy(old) \subseteq HeldByAll(M)
    BY <1>4 DEF Areas, HeldByAll
<1>14. <<name, "ctl_args">> \notin HeldByAll(M \ {old})
    BY <1>12 DEF HeldByAll, HeldBy
<1>15. old.file.name = name /\ new.file.name = name
    BY <1>2, <1>5
<1> HIDE DEF M, old
<1>16. exec_mem' = Areas(Loaded(mods'))
    <2>1. Areas(Loaded(mods')) = Areas(M \ {old}) \cup {AreaOf(new)}
        BY <1>8, PutIn
    <2> QED
        BY <2>1, <1>3, <1>7, <1>10, <1>11, <1>13
<1>17. vmem' = HeldByAll(Loaded(mods'))
    <2> DEFINE ctl == <<name, "ctl_args">>  two == {<<name, "module">>, <<name, "args">>}
               Rest == HeldByAll(M \ {old})
    <2>1. HeldBy(new) = two \cup (IF enough THEN {ctl} ELSE {})
        BY <1>5, <1>15 DEF HeldBy
    <2>2. HeldBy(old) \ {ctl} = two
        BY <1>15 DEF HeldBy
    <2>3. vmem = Rest \cup HeldBy(old)
        BY <1>10, <1>11, <1>13
    <2>4. HeldByAll(Loaded(mods')) = Rest \cup HeldBy(new)
        BY <1>8, PutIn
    <2>5. vmem' = (vmem \ {ctl}) \cup (IF enough THEN {ctl} ELSE {})
        BY <1>2
    <2>6. ctl \notin Rest
        BY <1>14
    <2> HIDE DEF ctl, two, Rest
    <2> QED
        BY <2>1, <2>2, <2>3, <2>4, <2>5, <2>6
<1> QED
    BY <1>8, <1>9, <1>16, <1>17 DEF ModulesInv

LEMMA ModulesStep == ModulesInv /\ [KpmModulesNext]_kpmModulesVars => ModulesInv'
<1>1. ModulesInv /\ UNCHANGED kpmModulesVars => ModulesInv'
    BY DEF ModulesInv, kpmModulesVars
<1> QED
    BY <1>1, LoadBegins, MoveKeeps, LinkKeeps, StartKeeps, FreeKeepsLoaded, UnloadKeeps, ControlKeeps
    DEF KpmModulesNext

LEMMA ModulesMean == ModulesInv => AreasKept
<1> SUFFICES ASSUME ModulesInv PROVE AreasKept
    OBVIOUS
<1>1. ListOf(mods)
    BY DEF ModulesInv
<1>2. \A m, n \in DOMAIN mods : mods[m].file.name = mods[n].file.name => m = n
    BY <1>1 DEF ListOf, Apart
<1>3. \A m, n \in DOMAIN mods :
          m # n => Disjoint(<<mods[m].start, mods[m].layout.size>>, <<mods[n].start, mods[n].layout.size>>)
    BY <1>1 DEF ListOf, Apart, AreaOf
<1>4. loading = NoLoad => exec_mem = {<<mods[m].start, mods[m].layout.size>> : m \in DOMAIN mods}
    BY DEF ModulesInv, LoadingArea, Areas, Loaded, AreaOf
<1>5. ASSUME loading = NoLoad PROVE {v[1] : v \in vmem} = {mods[m].file.name : m \in DOMAIN mods}
    <2>1. vmem = HeldByAll(Loaded(mods))
        BY <1>5 DEF ModulesInv, LoadingHeld
    <2>2. \A v \in vmem : \E m \in DOMAIN mods : v[1] = mods[m].file.name
        BY <2>1 DEF HeldByAll, HeldBy, Loaded
    <2>3. \A m \in DOMAIN mods : <<mods[m].file.name, "module">> \in vmem
        BY <2>1 DEF HeldByAll, HeldBy, Loaded
    <2>4. \A m \in DOMAIN mods : \E v \in vmem : v[1] = mods[m].file.name
        BY <2>3
    <2> QED
        BY <2>2, <2>4
<1> QED
    BY <1>2, <1>3, <1>4, <1>5 DEF AreasKept

(* The list has no name twice, no two of its modules overlap in executable *)
(* memory, and when no module is loading what is allocated is exactly what *)
(* the modules of the list hold: a load that fails at any step gives back   *)
(* what it took, and so does unload_module().                               *)
THEOREM AreasCorrect == KpmModulesSpec => []AreasKept
<1>1. KpmModulesInit => ModulesInv
    BY ModulesStart
<1>2. ModulesInv /\ [KpmModulesNext]_kpmModulesVars => ModulesInv'
    BY ModulesStep
<1>3. ModulesInv => AreasKept
    BY ModulesMean
<1> QED
    BY <1>1, <1>2, <1>3, PTL DEF KpmModulesSpec

(* What is in the list, or loads, was laid out from a file; what is in the *)
(* list, or starts, was linked from it where it is.                        *)

FromFile(m) == m.file \in ObjectFiles /\ setup_load_info(m.file) = 0 /\ m.layout = Layout(m.file)

LinkedRight(m) ==
    LET linked == apply_relocations(m.file, m.layout, m.start)
    IN  simplify_symbols(m.file) = 0 /\ 0 \in linked.rcs /\ m.text = linked.text

LinkInv ==
    /\ \A m \in Loaded(mods) : FromFile(m) /\ LinkedRight(m)
    /\ loading # NoLoad => FromFile(loading.mod)
    /\ loading.pc = "init" => LinkedRight(loading.mod)

\* What a module was linked from.
SameOrigin(m, n) == m.file = n.file /\ m.layout = n.layout
SameLink(m, n) == SameOrigin(m, n) /\ m.start = n.start /\ m.text = n.text

LEMMA LinkStart == KpmModulesInit => LinkInv
<1> SUFFICES ASSUME KpmModulesInit PROVE LinkInv
    OBVIOUS
<1>1. mods = <<>> /\ loading = NoLoad /\ loading.pc = "idle"
    BY DEF KpmModulesInit, NoLoad
<1>2. Loaded(mods) = {}
    BY <1>1 DEF Loaded
<1> QED
    BY <1>1, <1>2 DEF LinkInv

LEMMA GoLinked ==
    ASSUME ModulesInv, LinkInv, loading # NoLoad, Go("free"), mods' = mods
    PROVE  LinkInv'
<1>1. loading'.mod = loading.mod /\ loading'.pc = "free"
    BY GoStep DEF ModulesInv
<1>2. Loaded(mods') = Loaded(mods)
    BY DEF Loaded
<1> QED
    BY <1>1, <1>2 DEF LinkInv

LEMMA LoadLinked ==
    ASSUME ModulesInv, LinkInv, NEW f \in ObjectFiles, load_module(f)
    PROVE  LinkInv'
<1>1. /\ loading'.mod.file = f /\ loading'.mod.layout = Layout(f) /\ loading'.pc \in {"move", "free1"}
      /\ mods' = mods /\ setup_load_info(f) = 0
    BY DEF load_module
<1>2. FromFile(loading'.mod)
    BY <1>1 DEF FromFile
<1>3. Loaded(mods') = Loaded(mods)
    BY <1>1 DEF Loaded
<1> QED
    BY <1>1, <1>2, <1>3 DEF LinkInv

LEMMA MoveLinked == ModulesInv /\ LinkInv /\ move_module => LinkInv'
<1> SUFFICES ASSUME ModulesInv, LinkInv, move_module PROVE LinkInv'
    OBVIOUS
<1>0. loading.pc = "move" /\ mods' = mods
    BY DEF move_module
<1>1. loading.pc = "move" /\ mods' = mods /\ loading # NoLoad
    BY <1>0 DEF NoLoad
<1>2. CASE Go("free")
    BY <1>1, <1>2, GoLinked
<1>3. ASSUME NEW start, loading' = [loading EXCEPT !.pc = "link", !.mod.start = start]
      PROVE  LinkInv'
    <2> DEFINE old == loading.mod
    <2>1. loading = [mod |-> old, pc |-> loading.pc] /\ IsMod(old)
        BY <1>1 DEF ModulesInv, LoadingOf
    <2>2. loading'.pc = "link" /\ loading'.mod = [old EXCEPT !.start = start]
        <3> HIDE DEF old
        <3> QED
            BY <2>1, <1>3
    <2>3. loading'.mod.file = old.file /\ loading'.mod.layout = old.layout
        <3>1. old = [x \in ModFields |-> old[x]]
            BY <2>1 DEF IsMod
        <3> HIDE DEF old
        <3> QED
            BY <2>2, <3>1 DEF ModFields
    <2>4. FromFile(loading'.mod)
        BY <1>1, <2>3 DEF LinkInv, FromFile
    <2>5. Loaded(mods') = Loaded(mods)
        BY <1>1 DEF Loaded
    <2> QED
        BY <2>2, <2>4, <2>5 DEF LinkInv
<1> QED
    BY <1>2, <1>3 DEF move_module

LEMMA LinkLinked == ModulesInv /\ LinkInv /\ Link => LinkInv'
<1> SUFFICES ASSUME ModulesInv, LinkInv, Link PROVE LinkInv'
    OBVIOUS
<1> DEFINE old == loading.mod  linked == apply_relocations(old.file, old.layout, old.start)
<1>1. loading.pc = "link" /\ mods' = mods /\ loading # NoLoad
    BY DEF Link, NoLoad
<1>2. CASE Go("free")
    BY <1>1, <1>2, GoLinked
<1>3. ASSUME simplify_symbols(old.file) = 0, 0 \in linked.rcs,
             loading' = [loading EXCEPT !.pc = "init", !.mod.text = linked.text]
      PROVE  LinkInv'
    <2> HIDE DEF linked
    <2>1. loading = [mod |-> old, pc |-> loading.pc] /\ IsMod(old)
        BY <1>1 DEF ModulesInv, LoadingOf
    <2>2. loading'.pc = "init" /\ loading'.mod = [old EXCEPT !.text = linked.text]
        <3> HIDE DEF old
        <3> QED
            BY <2>1, <1>3
    <2>3. SameOrigin(loading'.mod, old) /\ loading'.mod.start = old.start /\ loading'.mod.text = linked.text
        <3>1. old = [x \in ModFields |-> old[x]]
            BY <2>1 DEF IsMod
        <3> HIDE DEF old
        <3> QED
            BY <2>2, <3>1 DEF ModFields, SameOrigin
    <2>4. FromFile(loading'.mod)
        BY <1>1, <2>3 DEF LinkInv, FromFile, SameOrigin
    <2>5. LinkedRight(loading'.mod)
        BY <1>3, <2>3 DEF LinkedRight, SameOrigin, linked
    <2>6. Loaded(mods') = Loaded(mods)
        BY <1>1 DEF Loaded
    <2> QED
        BY <2>4, <2>5, <2>6 DEF LinkInv
<1>4. \/ Go("free")
      \/ /\ simplify_symbols(old.file) = 0
         /\ \E rc \in linked.rcs :
               IF rc # 0 THEN Go("free")
               ELSE loading' = [loading EXCEPT !.pc = "init", !.mod.text = linked.text]
    BY DEF Link
<1> HIDE DEF linked
<1> QED
    BY <1>2, <1>3, <1>4

LEMMA StartLinked == ModulesInv /\ LinkInv /\ Start => LinkInv'
<1> SUFFICES ASSUME ModulesInv, LinkInv, Start PROVE LinkInv'
    OBVIOUS
<1> DEFINE M == Loaded(mods)  new == loading.mod
<1>1. loading.pc = "init" /\ loading # NoLoad
    BY DEF Start, NoLoad
<1>2. CASE Go("free") /\ UNCHANGED mods
    BY <1>1, <1>2, GoLinked
<1>3. CASE loading' = NoLoad /\ mods' = Append(mods, new)
    <2>1. ListOf(mods) /\ IsMod(new) /\ new.start \in Nat \ {0} /\ \A m \in M : Apart(m, new)
        BY <1>1 DEF ModulesInv, LoadingOf
    <2>2. FromFile(new) /\ LinkedRight(new) /\ \A m \in M : FromFile(m) /\ LinkedRight(m)
        BY <1>1 DEF LinkInv
    <2> HIDE DEF new
    <2>3. Loaded(mods') = M \cup {new}
        BY <1>3, <2>1, AppendList
    <2>4. loading' = NoLoad /\ loading'.pc = "idle"
        BY <1>3 DEF NoLoad
    <2> QED
        BY <2>2, <2>3, <2>4 DEF LinkInv
<1> QED
    BY <1>2, <1>3 DEF Start

LEMMA FreeLinked == ModulesInv /\ LinkInv /\ FreeLoading => LinkInv'
<1> SUFFICES ASSUME LinkInv, FreeLoading PROVE LinkInv'
    OBVIOUS
<1>1. loading' = NoLoad /\ loading'.pc = "idle" /\ mods' = mods
    BY DEF FreeLoading, NoLoad
<1>2. Loaded(mods') = Loaded(mods)
    BY <1>1 DEF Loaded
<1> QED
    BY <1>1, <1>2 DEF LinkInv

LEMMA UnloadLinked ==
    ASSUME ModulesInv, LinkInv, NEW name, unload_module(name)
    PROVE  LinkInv'
<1>1. PICK i \in DOMAIN mods : mods' = RemoveAt(mods, i) /\ loading' = loading
    BY FindModule DEF unload_module, ModulesInv
<1>2. Loaded(mods') = Loaded(mods) \ {mods[i]}
    BY <1>1, RemoveList DEF ModulesInv
<1> QED
    BY <1>1, <1>2 DEF LinkInv

LEMMA ControlLinked ==
    ASSUME ModulesInv, LinkInv, NEW name, module_control0(name)
    PROVE  LinkInv'
<1>1. PICK i \in DOMAIN mods, enough \in BOOLEAN :
          mods' = [mods EXCEPT ![i].ctl_args = enough] /\ loading' = loading
    BY FindModule DEF module_control0, ModulesInv
<1> DEFINE M == Loaded(mods)  old == mods[i]  new == [old EXCEPT !.ctl_args = enough]
<1>2. old \in M /\ IsMod(old)
    BY DEF ModulesInv, Loaded, ListOf
<1>3. SameLink(new, old)
    <2>1. old = [x \in ModFields |-> old[x]]
        BY <1>2 DEF IsMod
    <2> HIDE DEF old
    <2> QED
        BY <2>1 DEF ModFields, SameLink, SameOrigin
<1>4. mods' = [mods EXCEPT ![i] = new]
    BY <1>1
<1> HIDE DEF new
<1>5. \A m \in Loaded(mods') : m = new \/ m \in M
    BY <1>4 DEF Loaded
<1>6. FromFile(old) /\ LinkedRight(old)
    BY <1>2 DEF LinkInv
<1> HIDE DEF old
<1>7. FromFile(new) /\ LinkedRight(new)
    BY <1>3, <1>6 DEF FromFile, LinkedRight, SameLink, SameOrigin
<1> QED
    BY <1>1, <1>5, <1>7 DEF LinkInv

LEMMA LinkStep == ModulesInv /\ LinkInv /\ [KpmModulesNext]_kpmModulesVars => LinkInv'
<1>1. LinkInv /\ UNCHANGED kpmModulesVars => LinkInv'
    BY DEF LinkInv, kpmModulesVars, Loaded
<1> QED
    BY <1>1, LoadLinked, MoveLinked, LinkLinked, StartLinked, FreeLinked, UnloadLinked, ControlLinked
    DEF KpmModulesNext

LEMMA FieldsTyped ==
    ASSUME NEW f, WellFormed(f), NEW i \in DOMAIN f.relocations,
           NEW r, r = f.relocations[i], NEW s, s = f.symbols[r.sym]
    PROVE  /\ r.sec \in DOMAIN f.sections /\ r.offset \in Int /\ r.addend \in Int /\ r.sym \in DOMAIN f.symbols
           /\ s.sec \in SHN_ABS .. Len(f.sections) /\ s.value \in Int
<1> DEFINE S == [sec : SHN_ABS .. Len(f.sections), value : Int, name : STRING]
           R == [sec : DOMAIN f.sections, offset : Nat, sym : DOMAIN f.symbols, addend : Int, type : STRING]
<1>1. f.symbols \in Seq(S) /\ f.relocations \in Seq(R)
    BY DEF WellFormed
<1> HIDE DEF S, R
<1>2. r \in R
    BY <1>1, ElementOfSeq, LenProperties
<1>3. r.sym \in DOMAIN f.symbols
    BY <1>2 DEF R
<1>4. s \in S
    BY <1>1, <1>3, ElementOfSeq, LenProperties
<1> QED
    BY <1>2, <1>4 DEF R, S

\* What ModulesLinked says of one field of a module.
FieldMeans(m, i) ==
    LET f == m.file
        l == m.layout
        r == f.relocations[i]
        s == f.symbols[r.sym]
        target == CASE s.sec = SHN_UNDEF -> Exported[s.name]
                    [] s.sec = SHN_ABS -> s.value
                    [] OTHER -> m.start + l.at[s.sec] + s.value
    IN  Refers(r.type, m.start + l.at[r.sec] + r.offset, target + r.addend, m.text[i])

LEMMA FieldsMean ==
    ASSUME NEW m, FromFile(m), LinkedRight(m), m.start \in Nat, NEW i \in DOMAIN m.text
    PROVE  FieldMeans(m, i)
<1> DEFINE f == m.file  l == m.layout  r == f.relocations[i]  s == f.symbols[r.sym]
           place == PlaceOf(l, m.start, r)  val == ValueOf(f, l, m.start, r)
           linked == apply_relocations(f, l, m.start)
           Moved(j) == "alloc" \in f.sections[f.relocations[j].sec].flags
           At(j) == Applied(f.relocations[j].type, PlaceOf(l, m.start, f.relocations[j]),
                            ValueOf(f, l, m.start, f.relocations[j]))
           Refused(j) == f.relocations[j].type \notin DOMAIN RelocTypes
           moved == {j \in DOMAIN f.relocations : Moved(j)}
           Fine(j) == ~Refused(j) /\ (RelocTypes[f.relocations[j].type].check => FALSE \in At(j).ovf)
           target == CASE s.sec = SHN_UNDEF -> Exported[s.name]
                       [] s.sec = SHN_ABS -> s.value
                       [] OTHER -> m.start + l.at[s.sec] + s.value
<1>1. WellFormed(f)
    BY FilesAssumption DEF FromFile
<1>2. m.text = [j \in {k \in moved : ~Refused(k)} |-> At(j).field] /\ \A j \in moved : Fine(j)
    <2>1. m.text = linked.text /\ 0 \in linked.rcs
        BY DEF LinkedRight
    <2>2. linked.text = [j \in {k \in moved : ~Refused(k)} |-> At(j).field]
        BY DEF apply_relocations
    <2> DEFINE Sure(j) == ~Refused(j) /\ (RelocTypes[f.relocations[j].type].check => At(j).ovf = {FALSE})
    <2>3. linked.rcs = (IF \A j \in moved : Fine(j) THEN {0} ELSE {})
                           \cup (IF \A j \in moved : Sure(j) THEN {} ELSE {ENOEXEC})
        BY DEF apply_relocations
    <2> HIDE DEF moved, Fine, Sure, linked, At, Refused
    <2>4. \A j \in moved : Fine(j)
        BY <2>1, <2>3 DEF ENOEXEC
    <2> QED
        BY <2>1, <2>2, <2>4
<1>3. i \in moved /\ ~Refused(i) /\ m.text[i] = At(i).field /\ Fine(i)
    <2> HIDE DEF moved, Refused, At, Fine
    <2> QED
        BY <1>2
<1>4. /\ i \in DOMAIN f.relocations /\ r.type \in DOMAIN RelocTypes
      /\ m.text[i] = Applied(r.type, place, val).field
      /\ RelocTypes[r.type].check => FALSE \in Applied(r.type, place, val).ovf
    BY <1>3
<1> HIDE DEF linked, Moved, At, Refused, moved, Fine
<1>5. /\ r.sec \in DOMAIN f.sections /\ r.offset \in Int /\ r.addend \in Int /\ r.sym \in DOMAIN f.symbols
      /\ s.sec \in SHN_ABS .. Len(f.sections) /\ s.value \in Int
    BY <1>1, <1>4, FieldsTyped
<1>6. \A j \in DOMAIN f.sections : l.at[j] \in Int
    BY <1>1, LayoutLaid DEF FromFile
<1>7. place \in Int
    BY <1>5, <1>6 DEF PlaceOf
<1>8. SymbolAddress(f, l, m.start, s) = target /\ target \in Int
    <2>1. CASE s.sec = SHN_UNDEF
        <3>1. symbol_lookup_name(s.name) # 0
            BY <1>5, <2>1 DEF LinkedRight, simplify_symbols, ENOENT
        <3>2. s.name \in DOMAIN Exported /\ symbol_lookup_name(s.name) = Exported[s.name]
            BY <3>1 DEF symbol_lookup_name
        <3>3. SymbolAddress(f, l, m.start, s) = symbol_lookup_name(s.name)
            BY <2>1 DEF SymbolAddress, SHN_UNDEF, SHN_ABS
        <3>4. target = Exported[s.name]
            BY <2>1 DEF SHN_UNDEF, SHN_ABS
        <3>5. Exported[s.name] \in Nat
            BY <3>2, AreasAssumption
        <3> HIDE DEF target
        <3> QED
            BY <3>2, <3>3, <3>4, <3>5
    <2>2. CASE s.sec = SHN_ABS
        <3>1. SymbolAddress(f, l, m.start, s) = s.value
            BY <2>2 DEF SymbolAddress, SHN_UNDEF, SHN_ABS
        <3>2. target = s.value
            BY <2>2 DEF SHN_UNDEF, SHN_ABS
        <3> HIDE DEF target
        <3> QED
            BY <1>5, <3>1, <3>2
    <2>3. CASE s.sec # SHN_UNDEF /\ s.sec # SHN_ABS
        <3>1. s.sec \in DOMAIN f.sections
            <4>1. DOMAIN f.sections = 1 .. Len(f.sections) /\ Len(f.sections) \in Nat
                BY <1>1, LenProperties DEF WellFormed
            <4> QED
                BY <1>5, <2>3, <4>1 DEF SHN_UNDEF, SHN_ABS
        <3>2. l.at[s.sec] \in Int
            BY <1>6, <3>1
        <3>3. SymbolAddress(f, l, m.start, s) = m.start + l.at[s.sec] + s.value
            BY <2>3 DEF SymbolAddress
        <3>4. target = m.start + l.at[s.sec] + s.value
            BY <2>3
        <3>5. m.start + l.at[s.sec] + s.value \in Int
            <4> DEFINE x == m.start  y == l.at[s.sec]  z == s.value
            <4>1. x \in Int
                OBVIOUS
            <4>2. y \in Int
                BY <3>2, Zenon
            <4>3. z \in Int
                BY <1>5, Zenon
            <4> HIDE DEF x, y, z
            <4>4. x + y + z \in Int
                BY <4>1, <4>2, <4>3
            <4> QED
                BY <4>4 DEF x, y, z
        <3> HIDE DEF target
        <3> QED
            BY <3>3, <3>4, <3>5
    <2> QED
        BY <2>1, <2>2, <2>3
<1> HIDE DEF target
<1>9. val = target + r.addend /\ val \in Int
    BY <1>5, <1>8 DEF ValueOf
<1>10. Refers(r.type, place, val, Applied(r.type, place, val).field)
    BY <1>4, <1>7, <1>9, FieldRefers
<1>11. Refers(r.type, place, target + r.addend, m.text[i])
    BY <1>4, <1>9, <1>10
<1> QED
    BY <1>11 DEF FieldMeans, PlaceOf, target

LEMMA LinkMeans == ModulesInv /\ LinkInv => ModulesLinked
<1> SUFFICES ASSUME ModulesInv, LinkInv PROVE ModulesLinked
    OBVIOUS
<1>1. AreasKept
    BY ModulesMean
<1>2. \A m \in DOMAIN mods : FromFile(mods[m]) /\ LinkedRight(mods[m]) /\ mods[m].start \in Nat
    BY DEF LinkInv, ModulesInv, Loaded, ListOf
<1>3. \A m \in DOMAIN mods : WellLaid(mods[m].file, mods[m].layout)
    <2> SUFFICES ASSUME NEW m \in DOMAIN mods PROVE WellLaid(mods[m].file, mods[m].layout)
        OBVIOUS
    <2>1. WellFormed(mods[m].file) /\ setup_load_info(mods[m].file) = 0 /\ mods[m].layout = Layout(mods[m].file)
        BY <1>2, FilesAssumption DEF FromFile
    <2> QED
        BY <2>1, LayoutLaid
<1>4. \A m \in DOMAIN mods : \A i \in DOMAIN mods[m].text : FieldMeans(mods[m], i)
    BY <1>2, FieldsMean
<1> QED
    BY <1>1, <1>3, <1>4 DEF ModulesLinked, WellLaid, Kept, FieldMeans

(* Whatever was loaded, unloaded and controlled before, every module of    *)
(* the list lies as layout_sections() and layout_symtab() promise, and what *)
(* apply_relocate_add() stored in it means the address it was asked for.    *)
THEOREM LinkedCorrect == KpmModulesSpec => []ModulesLinked
<1>1. KpmModulesInit => ModulesInv /\ LinkInv
    BY ModulesStart, LinkStart
<1>2. ModulesInv /\ LinkInv /\ [KpmModulesNext]_kpmModulesVars => ModulesInv' /\ LinkInv'
    BY ModulesStep, LinkStep
<1>3. ModulesInv /\ LinkInv => ModulesLinked
    BY LinkMeans
<1> QED
    BY <1>1, <1>2, <1>3, PTL DEF KpmModulesSpec

-----------------------------------------------------------------------------
(* The moved words. *)

Insts == [op : STRING, to : Int]

LEMMA Lengths == \A op : relo_len(op) \in {2, 4, 6, 8}
BY DEF relo_len

\* Offset() adds up the lengths of the words before.
LEMMA OffsetIs ==
    ASSUME NEW fn, NEW n \in Nat
    PROVE  /\ Offset(fn, 0) = 0
           /\ \A i \in 1 .. n : Offset(fn, i) = Offset(fn, i - 1) + relo_len(fn[i].op)
           /\ \A i \in 0 .. n : Offset(fn, i) \in Nat
<1> DEFINE step == [p \in (1 .. n) \X Nat |-> p[2] + relo_len(fn[p[1]].op)]
           Rec(f, i) == f = [k \in 0 .. i |-> IF k = 0 THEN 0 ELSE f[k - 1] + relo_len(fn[k].op)]
<1>1. step \in [(1 .. n) \X Nat -> Nat]
    BY Lengths
<1>2. \E f : Solution(f, n, Nat, 0, step)
    <2> HIDE DEF step
    <2> QED
        BY <1>1, RecursionTo
<1>3. PICK f : Solution(f, n, Nat, 0, step)
    BY <1>2
<1>4. f \in [0 .. n -> Nat] /\ f[0] = 0
    BY <1>3 DEF Solution
<1>5. \A i \in 1 .. n : f[i] = f[i - 1] + relo_len(fn[i].op)
    <2> SUFFICES ASSUME NEW i \in 1 .. n PROVE f[i] = f[i - 1] + relo_len(fn[i].op)
        OBVIOUS
    <2>1. i - 1 \in 0 .. n
        OBVIOUS
    <2>2. f[i - 1] \in Nat
        BY <1>3, <2>1 DEF Solution
    <2>3. <<i, f[i - 1]>> \in (1 .. n) \X Nat
        BY <2>2
    <2> QED
        BY <1>3, <2>3 DEF Solution
<1>6. ASSUME NEW i \in 0 .. n PROVE Offset(fn, i) = f[i]
    <2> DEFINE g == [k \in 0 .. i |-> f[k]]
               at == CHOOSE h : Rec(h, i)
    <2>1. Rec(g, i)
        <3>1. \A k \in 0 .. i : k # 0 => k \in 1 .. n /\ k - 1 \in 0 .. i
            OBVIOUS
        <3>2. \A k \in 0 .. i : g[k] = IF k = 0 THEN 0 ELSE g[k - 1] + relo_len(fn[k].op)
            BY <1>4, <1>5, <3>1
        <3> QED
            BY <3>2
    <2> HIDE DEF g
    <2>2. Rec(at, i)
        BY <2>1
    <2>3. Offset(fn, i) = at[i]
        BY DEF Offset
    <2> DEFINE I == {k \in 0 .. i : at[k] = f[k]}
    <2> HIDE DEF at
    <2>4. 0 \in I
        BY <1>4, <2>2
    <2>5. ASSUME NEW m \in 0 .. i - 1, m \in I PROVE m + 1 \in I
        <3>1. m + 1 \in 0 .. i /\ m + 1 # 0 /\ m + 1 - 1 = m /\ m + 1 \in 1 .. n
            OBVIOUS
        <3>2. at[m + 1] = at[m] + relo_len(fn[m + 1].op)
            BY <2>2, <3>1
        <3>3. f[m + 1] = f[m] + relo_len(fn[m + 1].op)
            BY <1>5, <3>1
        <3> QED
            BY <2>5, <3>1, <3>2, <3>3
    <2>6. \A m \in 0 .. i : m \in I
        <3> HIDE DEF I
        <3>1. i \in Nat
            OBVIOUS
        <3> QED
            BY <2>4, <2>5, <3>1, UpTo
    <2> QED
        BY <2>3, <2>6
<1>7. \A i \in 1 .. n : i - 1 \in 0 .. n /\ i \in 0 .. n
    OBVIOUS
<1> QED
    BY <1>4, <1>5, <1>6, <1>7
\* The second of two sequences, in one.
LEMMA Behind ==
    ASSUME NEW S, NEW s \in Seq(S), NEW t \in Seq(S), NEW p, p = Len(s), NEW d \in 1 .. Len(t)
    PROVE  (s \o t)[p + d] = t[d]
<1>1. Len(s) \in Nat /\ Len(t) \in Nat
    BY LenProperties
<1>2. p + d \in 1 .. Len(s) + Len(t) /\ ~(p + d <= Len(s)) /\ p + d - Len(s) = d
    BY <1>1
<1> QED
    BY <1>2, ConcatProperties


\* What FlattenSeq() puts one behind the other.
Flattened(S, n, b, off) ==
    /\ FlattenSeq(b) \in Seq(S) /\ Len(FlattenSeq(b)) = off[n]
    /\ \A i \in 1 .. n : \A d \in 1 .. Len(b[i]) : FlattenSeq(b)[off[i - 1] + d] = b[i][d]

LEMMA FlattenIs ==
    ASSUME NEW S, NEW n \in Nat \ {0}, NEW b \in [1 .. n -> Seq(S)],
           NEW off \in [0 .. n -> Nat], off[0] = 0, \A i \in 1 .. n : off[i] = off[i - 1] + Len(b[i])
    PROVE  Flattened(S, n, b, off)
<1> DEFINE step == [p \in (1 .. n) \X Seq(S) |-> p[2] \o b[p[1]]]
           Rec(h) == h = [i \in 1 .. n |-> IF i = 1 THEN b[i] ELSE h[i - 1] \o b[i]]
           at == CHOOSE h : Rec(h)
<1>1. Len(b) = n /\ FlattenSeq(b) = at[n]
    <2>1. b \in Seq(Seq(S)) /\ Len(b) = n
        BY IsASeq, LenProperties
    <2> QED
        BY <2>1 DEF FlattenSeq
<1>2. step \in [(1 .. n) \X Seq(S) -> Seq(S)]
    BY ConcatProperties
<1>3. \E f : Solution(f, n, Seq(S), <<>>, step)
    <2>1. <<>> \in Seq(S)
        OBVIOUS
    <2> HIDE DEF step
    <2> QED
        BY <1>2, <2>1, RecursionTo
<1>4. PICK f : Solution(f, n, Seq(S), <<>>, step)
    BY <1>3
<1>5. f \in [0 .. n -> Seq(S)] /\ f[0] = <<>>
    BY <1>4 DEF Solution
<1>6. ASSUME NEW i \in 1 .. n PROVE f[i] = f[i - 1] \o b[i] /\ f[i - 1] \in Seq(S) /\ b[i] \in Seq(S)
    <2>1. i - 1 \in 0 .. n
        OBVIOUS
    <2>2. f[i - 1] \in Seq(S)
        BY <1>5, <2>1
    <2>3. <<i, f[i - 1]>> \in (1 .. n) \X Seq(S)
        BY <2>2
    <2> QED
        BY <1>4, <2>2, <2>3 DEF Solution
<1> HIDE DEF step
<1>7. Rec(at)
    <2> DEFINE g == [i \in 1 .. n |-> f[i]]
    <2>1. \A i \in 1 .. n : g[i] = IF i = 1 THEN b[i] ELSE g[i - 1] \o b[i]
        <3> SUFFICES ASSUME NEW i \in 1 .. n PROVE g[i] = IF i = 1 THEN b[i] ELSE g[i - 1] \o b[i]
            OBVIOUS
        <3>1. CASE i = 1
            <4>1. f[1] = <<>> \o b[1] /\ b[1] \in Seq(S)
                <5>1. 1 \in 1 .. n /\ 1 - 1 = 0
                    OBVIOUS
                <5> QED
                    BY <1>5, <1>6, <5>1
            <4>2. <<>> \o b[1] = b[1]
                BY <4>1, ConcatEmptySeq
            <4> QED
                BY <3>1, <4>1, <4>2
        <3>2. CASE i # 1
            <4>1. i - 1 \in 1 .. n
                BY <3>2
            <4> QED
                BY <3>2, <4>1, <1>6
        <3> QED
            BY <3>1, <3>2
    <2>2. Rec(g)
        BY <2>1
    <2> HIDE DEF g, Rec
    <2> QED
        BY <2>2
<1>7a. \A i \in 1 .. n : at[i] = IF i = 1 THEN b[i] ELSE at[i - 1] \o b[i]
    BY <1>7
<1> DEFINE Is(k) ==
               /\ at[k] \in Seq(S) /\ Len(at[k]) = off[k]
               /\ \A i \in 1 .. k : \A d \in 1 .. Len(b[i]) : at[k][off[i - 1] + d] = b[i][d]
           I == {k \in 0 .. n : k = 0 \/ Is(k)}
<1> HIDE DEF at
<1>8. 0 \in I
    OBVIOUS
<1>9. ASSUME NEW m \in 0 .. n - 1, m \in I PROVE m + 1 \in I
    <2>1. m + 1 \in 1 .. n /\ m + 1 - 1 = m /\ m \in 0 .. n /\ off[m] \in Nat /\ off[m + 1] = off[m] + Len(b[m + 1])
        OBVIOUS
    <2>2. b[m + 1] \in Seq(S) /\ Len(b[m + 1]) \in Nat
        BY <2>1, LenProperties
    <2>3. CASE m = 0
        <3>1. at[1] = b[1]
            BY <1>7a, <2>1, <2>3
        <3>2. Is(1)
            BY <2>1, <2>2, <2>3, <3>1
        <3> QED
            BY <2>1, <2>3, <3>2
    <2>4. CASE m # 0
        <3> DEFINE s == at[m]  t == b[m + 1]
        <3>1. at[m + 1] = s \o t
            <4>1. m + 1 \in 1 .. n /\ ~(m + 1 = 1) /\ m + 1 - 1 = m
                BY <2>1, <2>4
            <4>2. at[m + 1] = IF m + 1 = 1 THEN b[m + 1] ELSE at[m + 1 - 1] \o b[m + 1]
                <5>1. m + 1 \in 1 .. n
                    BY <4>1
                <5> QED
                    BY <1>7a, <5>1
            <4>3. at[m + 1] = at[m + 1 - 1] \o b[m + 1]
                BY <4>1, <4>2
            <4>4. at[m + 1 - 1] = at[m]
                BY <4>1
            <4> QED
                BY <4>3, <4>4
        <3>2. Is(m)
            BY <2>4, <1>9
        <3>3. /\ s \o t \in Seq(S) /\ Len(s \o t) = Len(s) + Len(t)
              /\ \A i \in 1 .. Len(s) + Len(t) : (s \o t)[i] = IF i <= Len(s) THEN s[i] ELSE t[i - Len(s)]
            <4>1. s \in Seq(S) /\ t \in Seq(S)
                BY <2>2, <3>2
            <4> HIDE DEF s, t
            <4> QED
                BY <4>1, ConcatProperties
        <3>4. Len(s) = off[m]
            BY <3>2
        <3>5. \A i \in 1 .. m : off[i - 1] \in Nat /\ Len(b[i]) \in Nat /\ off[i] = off[i - 1] + Len(b[i]) /\ off[i] <= off[m]
            <4>1. \A i \in 1 .. m : i - 1 \in 0 .. n /\ i \in 1 .. n
                BY <2>1
            <4>2. \A i \in 1 .. m : off[i - 1] \in Nat /\ off[i] \in Nat /\ b[i] \in Seq(S) /\ off[i] = off[i - 1] + Len(b[i])
                BY <4>1
            <4>3. \A i \in 1 .. m : Len(b[i]) \in Nat
                BY <4>2, LenProperties
            <4>4. \A i \in 1 .. m : off[i] <= off[m]
                <5> DEFINE J == {k \in 0 .. m : off[m - k] <= off[m]}
                <5>1. 0 \in J
                    BY <2>1
                <5>2. ASSUME NEW k \in 0 .. m - 1, k \in J PROVE k + 1 \in J
                    <6>1. m - k \in 1 .. m /\ k + 1 \in 0 .. m /\ m - k - 1 = m - (k + 1)
                        OBVIOUS
                    <6>2. off[m - k - 1] \in Nat /\ Len(b[m - k]) \in Nat /\ off[m - k] = off[m - k - 1] + Len(b[m - k])
                        BY <4>2, <4>3, <6>1
                    <6>3. off[m - k] <= off[m]
                        BY <5>2
                    <6>4. off[m - k - 1] <= off[m]
                        <7> DEFINE x == off[m - k - 1]  y == off[m - k]  z == Len(b[m - k])  u == off[m]
                        <7>1. x \in Nat /\ z \in Nat /\ u \in Nat /\ y = x + z /\ y <= u
                            BY <2>1, <6>2, <6>3
                        <7> HIDE DEF x, y, z, u
                        <7>2. x <= u
                            BY <7>1
                        <7> QED
                            BY <7>2 DEF x, u
                    <6> QED
                        BY <6>1, <6>4
                <5>3. \A k \in 0 .. m : k \in J
                    <6> HIDE DEF J
                    <6>1. m \in Nat
                        OBVIOUS
                    <6> QED
                        BY <5>1, <5>2, <6>1, UpTo
                <5> SUFFICES ASSUME NEW i \in 1 .. m PROVE off[i] <= off[m]
                    OBVIOUS
                <5>4. m - i \in 0 .. m /\ m - (m - i) = i
                    OBVIOUS
                <5> QED
                    BY <5>3, <5>4
            <4> QED
                BY <4>2, <4>3, <4>4
        <3>6. ASSUME NEW i \in 1 .. m + 1, NEW d \in 1 .. Len(b[i])
              PROVE  at[m + 1][off[i - 1] + d] = b[i][d]
            <4> DEFINE p == off[m]  q == off[i - 1]  ls == Len(s)  lt == Len(t)
            <4>1. p \in Nat /\ lt \in Nat /\ ls = p
                BY <2>1, <2>2, <3>4
            <4>2. CASE i = m + 1
                <5>1. d \in 1 .. lt /\ q = p /\ b[i] = t
                    BY <2>1, <4>2
                <5>2. (s \o t)[p + d] = t[d]
                    <6>1. s \in Seq(S) /\ t \in Seq(S) /\ p = Len(s) /\ d \in 1 .. Len(t)
                        BY <2>2, <3>2, <3>4, <5>1
                    <6> HIDE DEF s, t, p
                    <6> QED
                        BY <6>1, Behind
                <5> HIDE DEF s, t, p, q
                <5>3. at[m + 1][q + d] = b[i][d]
                    BY <3>1, <5>1, <5>2
                <5> QED
                    BY <5>3 DEF q
            <4>3. CASE i # m + 1
                <5>1. i \in 1 .. m
                    BY <4>3, <2>1
                <5>2. q \in Nat /\ Len(b[i]) \in Nat /\ q + Len(b[i]) <= p
                    BY <3>5, <5>1
                <5>3. s[q + d] = b[i][d]
                    BY <3>2, <5>1
                <5>4. (s \o t)[q + d] = s[q + d]
                    <6> HIDE DEF s, t, p, q, ls, lt
                    <6>1. q + d \in 1 .. ls + lt /\ q + d <= ls
                        BY <4>1, <5>2
                    <6> QED
                        BY <3>3, <6>1 DEF ls, lt
                <5> HIDE DEF s, t, p, q
                <5>5. at[m + 1][q + d] = b[i][d]
                    BY <3>1, <5>3, <5>4
                <5> QED
                    BY <5>5 DEF q
            <4> QED
                BY <4>2, <4>3
        <3>7. Is(m + 1)
            BY <2>1, <3>1, <3>3, <3>4, <3>6
        <3> QED
            BY <2>1, <3>7
    <2> QED
        BY <2>3, <2>4
<1>10. n \in I
    <2> HIDE DEF I
    <2>1. n \in Nat /\ n \in 0 .. n
        OBVIOUS
    <2> QED
        BY <1>8, <1>9, <2>1, UpTo
<1> QED
    BY <1>1, <1>10 DEF Flattened

-----------------------------------------------------------------------------
(* Hooked functions. *)

Branches == {"B", "BC", "BL"} \cup INST_CBTB

(* The buffer holds the relocated words one behind the other, and the jump *)
(* back.                                                                   *)
BufferIs ==
    LET n == Len(insts)
    IN  /\ insts \in Seq(Insts) /\ n = tramp_insts_num(insts)
        /\ \A i \in 1 .. n : insts[i].op \notin INST_LDR \cup INST_LDR_SIMD /\ insts[i].to \notin RELO .. RELO + 43
        /\ Len(buffer) = Offset(insts, n) + 4
        /\ \A i \in 1 .. n : \A d \in 1 .. relo_len(insts[i].op) :
              buffer[Offset(insts, i - 1) + d] = relocate_inst(insts, insts[i])[d]
        /\ \A d \in 1 .. 4 : buffer[Offset(insts, n) + d] = branch_from_to(n)[d]

(* What a called function returns to, in each text. *)
ReturnsAlike ==
    orig.lr # 0 =>
       /\ orig.lr \in 1 .. Len(insts) /\ insts[orig.lr].op = "BL"
       /\ relo.x30 = RELO + Offset(insts, orig.lr - 1) + 7

(* The original has run word i; the buffer is before word d of its block. *)
X17Loaded(i) == relo.x17 = relo_in_tramp(insts, insts[i].to)
Done(i) == orig.pc = i /\ relo.x = orig.x /\ ReturnsAlike
WentTo(i) == orig.pc = insts[i].to /\ relo.x = orig.x /\ ReturnsAlike
InB(i, d) == WentTo(i) /\ (d = 0 \/ (d = 1 /\ X17Loaded(i)) \/ (d = 4 /\ X17Loaded(i)))
InBC(i, d) ==
    IF taken THEN WentTo(i) /\ (d = 0 \/ d = 2 \/ (d = 3 /\ X17Loaded(i)) \/ (d = 6 /\ X17Loaded(i)))
    ELSE Done(i) /\ d \in {0, 1, 7}
InBL(i, d) ==
    \/ /\ orig.pc = insts[i].to /\ orig.lr = i /\ relo.x = orig.x
       /\ \/ d = 0
          \/ d \in {1, 4} /\ X17Loaded(i)
          \/ d = 5 /\ X17Loaded(i) /\ relo.x30 = RELO + Offset(insts, i - 1) + 4
          \/ d = 6 /\ X17Loaded(i) /\ relo.x30 = RELO + Offset(insts, i - 1) + 7
    \/ d = 7 /\ Done(i)
InCBTB(i, d) ==
    IF taken THEN WentTo(i) /\ (d = 0 \/ d = 2 \/ (d = 3 /\ X17Loaded(i)))
    ELSE Done(i) /\ d \in {0, 1}
InPRFM(i, d) == Done(i) /\ d \in 0 .. 4
InADR(i, d) ==
    /\ orig.pc = i /\ orig.x = <<"addr", insts[i].to>> /\ ReturnsAlike
    /\ d = 0 \/ (d = 1 /\ relo.x = orig.x)
InOther(i, d) ==
    /\ orig.pc = i /\ orig.x = <<"inst", insts[i].to>> /\ ReturnsAlike
    /\ d = 0 \/ (d = 1 /\ relo.x = orig.x)

InBlock(i, d) ==
    /\ relo.pc = RELO + Offset(insts, i - 1) + d
    /\ CASE insts[i].op = "B" -> InB(i, d)
         [] insts[i].op = "BC" -> InBC(i, d)
         [] insts[i].op = "BL" -> InBL(i, d)
         [] insts[i].op \in INST_CBTB -> InCBTB(i, d)
         [] insts[i].op = "PRFM_LIT" -> InPRFM(i, d)
         [] insts[i].op \in {"ADR", "ADRP"} -> InADR(i, d)
         [] OTHER -> InOther(i, d)

(* The buffer is in the jump back. *)
InTail(d) ==
    LET n == Len(insts)
    IN  /\ relo.pc = RELO + Offset(insts, n) + d /\ Done(n)
        /\ d = 0 \/ (d = 1 /\ relo.x17 = n)

(* Between two words of the function the machines agree. *)
Agree ==
    /\ relo.x = orig.x /\ ReturnsAlike
    /\ IF Inside THEN relo.pc = RELO + Offset(insts, orig.pc)
       ELSE IF orig.pc = Len(insts) THEN relo.pc \in {orig.pc, RELO + Offset(insts, orig.pc)}
       ELSE relo.pc = orig.pc

RunsAlike ==
    /\ orig.pc \in Int
    /\ phase = "orig" => Agree
    /\ phase = "relo" =>
          \/ \E i \in 1 .. Len(insts) : \E d \in 0 .. 7 : InBlock(i, d)
          \/ \E d \in 0 .. 1 : InTail(d)

(* The words that an instruction is rewritten to. *)
LEMMA WordsOfB ==
    ASSUME NEW fn, NEW inst, inst.op = "B", NEW ws, ws = relocate_inst(fn, inst)
    PROVE  /\ ws[1] = Word("ldr_x17", 2) /\ ws[2] = Word("b", 3)
           /\ ws[3] = Word("lo", relo_in_tramp(fn, inst.to)) /\ ws[4] = Word("hi", relo_in_tramp(fn, inst.to))
           /\ ws[5] = Word("ret_x17", 0) /\ ws[6] = NOP /\ Len(ws) = 6
<1> DEFINE t == relo_in_tramp(fn, inst.to)
<1>1. ws = <<>> \o <<Word("ldr_x17", 2), Word("b", 3)>> \o <<Word("lo", t), Word("hi", t)>> \o <<>> \o <<Word("ret_x17", 0), NOP>>
    <2>1. ws = relo_b(fn, inst)
        BY DEF relocate_inst, INST_CBTB, INST_LDR, INST_LDR_SIMD
    <2>2. relo_b(fn, inst) =
             (IF inst.op = "BC" THEN <<Word("if", 2), Word("b", 6)>> ELSE <<>>)
             \o <<Word("ldr_x17", 2), Word("b", 3)>> \o <<Word("lo", t), Word("hi", t)>>
             \o (IF inst.op = "BL" THEN <<Word("adr_x30", 0), Word("add_x30", 3)>> ELSE <<>>)
             \o <<Word("ret_x17", 0), NOP>>
        BY Zenon DEF relo_b, Address
    <2>3. inst.op # "BC" /\ inst.op # "BL"
        OBVIOUS
    <2> QED
        BY <2>1, <2>2, <2>3, Zenon
<1> HIDE DEF t
<1>2. /\ ws[1] = Word("ldr_x17", 2) /\ ws[2] = Word("b", 3)
      /\ ws[3] = Word("lo", t) /\ ws[4] = Word("hi", t) /\ ws[5] = Word("ret_x17", 0) /\ ws[6] = NOP /\ Len(ws) = 6
    BY <1>1
<1> QED
    BY <1>2 DEF t

LEMMA WordsOfBC ==
    ASSUME NEW fn, NEW inst, inst.op = "BC", NEW ws, ws = relocate_inst(fn, inst)
    PROVE  /\ ws[1] = Word("if", 2) /\ ws[2] = Word("b", 6)
           /\ ws[3] = Word("ldr_x17", 2) /\ ws[4] = Word("b", 3)
           /\ ws[5] = Word("lo", relo_in_tramp(fn, inst.to)) /\ ws[6] = Word("hi", relo_in_tramp(fn, inst.to))
           /\ ws[7] = Word("ret_x17", 0) /\ ws[8] = NOP /\ Len(ws) = 8
<1> DEFINE t == relo_in_tramp(fn, inst.to)
<1>1. ws = <<Word("if", 2), Word("b", 6)>> \o <<Word("ldr_x17", 2), Word("b", 3)>> \o <<Word("lo", t), Word("hi", t)>> \o <<>> \o <<Word("ret_x17", 0), NOP>>
    <2>1. ws = relo_b(fn, inst)
        BY DEF relocate_inst, INST_CBTB, INST_LDR, INST_LDR_SIMD
    <2>2. relo_b(fn, inst) =
             (IF inst.op = "BC" THEN <<Word("if", 2), Word("b", 6)>> ELSE <<>>)
             \o <<Word("ldr_x17", 2), Word("b", 3)>> \o <<Word("lo", t), Word("hi", t)>>
             \o (IF inst.op = "BL" THEN <<Word("adr_x30", 0), Word("add_x30", 3)>> ELSE <<>>)
             \o <<Word("ret_x17", 0), NOP>>
        BY Zenon DEF relo_b, Address
    <2>3. inst.op = "BC" /\ inst.op # "BL"
        OBVIOUS
    <2> QED
        BY <2>1, <2>2, <2>3, Zenon
<1> HIDE DEF t
<1>2. /\ ws[1] = Word("if", 2) /\ ws[2] = Word("b", 6) /\ ws[3] = Word("ldr_x17", 2) /\ ws[4] = Word("b", 3)
      /\ ws[5] = Word("lo", t) /\ ws[6] = Word("hi", t) /\ ws[7] = Word("ret_x17", 0) /\ ws[8] = NOP /\ Len(ws) = 8
    BY <1>1
<1> QED
    BY <1>2 DEF t

LEMMA WordsOfBL ==
    ASSUME NEW fn, NEW inst, inst.op = "BL", NEW ws, ws = relocate_inst(fn, inst)
    PROVE  /\ ws[1] = Word("ldr_x17", 2) /\ ws[2] = Word("b", 3)
           /\ ws[3] = Word("lo", relo_in_tramp(fn, inst.to)) /\ ws[4] = Word("hi", relo_in_tramp(fn, inst.to))
           /\ ws[5] = Word("adr_x30", 0) /\ ws[6] = Word("add_x30", 3)
           /\ ws[7] = Word("ret_x17", 0) /\ ws[8] = NOP /\ Len(ws) = 8
<1> DEFINE t == relo_in_tramp(fn, inst.to)
<1>1. ws = <<>> \o <<Word("ldr_x17", 2), Word("b", 3)>> \o <<Word("lo", t), Word("hi", t)>> \o <<Word("adr_x30", 0), Word("add_x30", 3)>> \o <<Word("ret_x17", 0), NOP>>
    <2>1. ws = relo_b(fn, inst)
        BY DEF relocate_inst, INST_CBTB, INST_LDR, INST_LDR_SIMD
    <2>2. relo_b(fn, inst) =
             (IF inst.op = "BC" THEN <<Word("if", 2), Word("b", 6)>> ELSE <<>>)
             \o <<Word("ldr_x17", 2), Word("b", 3)>> \o <<Word("lo", t), Word("hi", t)>>
             \o (IF inst.op = "BL" THEN <<Word("adr_x30", 0), Word("add_x30", 3)>> ELSE <<>>)
             \o <<Word("ret_x17", 0), NOP>>
        BY Zenon DEF relo_b, Address
    <2>3. inst.op # "BC" /\ inst.op = "BL"
        OBVIOUS
    <2> QED
        BY <2>1, <2>2, <2>3, Zenon
<1> HIDE DEF t
<1>2. /\ ws[1] = Word("ldr_x17", 2) /\ ws[2] = Word("b", 3) /\ ws[3] = Word("lo", t) /\ ws[4] = Word("hi", t)
      /\ ws[5] = Word("adr_x30", 0) /\ ws[6] = Word("add_x30", 3) /\ ws[7] = Word("ret_x17", 0) /\ ws[8] = NOP /\ Len(ws) = 8
    BY <1>1
<1> QED
    BY <1>2 DEF t

LEMMA WordsOfCBTB ==
    ASSUME NEW fn, NEW inst, inst.op \in INST_CBTB, NEW ws, ws = relocate_inst(fn, inst)
    PROVE  /\ ws[1] = Word("if", 2) /\ ws[2] = Word("b", 5) /\ ws[3] = Word("ldr_x17", 2) /\ ws[4] = Word("ret_x17", 0)
           /\ ws[5] = Word("lo", relo_in_tramp(fn, inst.to)) /\ ws[6] = Word("hi", relo_in_tramp(fn, inst.to))
           /\ Len(ws) = 6
<1> DEFINE t == relo_in_tramp(fn, inst.to)
<1>1. ws = <<Word("if", 2), Word("b", 5), Word("ldr_x17", 2), Word("ret_x17", 0)>> \o <<Word("lo", t), Word("hi", t)>>
    BY DEF relocate_inst, relo_cb, Address, INST_CBTB, INST_LDR, INST_LDR_SIMD
<1> HIDE DEF t
<1>2. /\ ws[1] = Word("if", 2) /\ ws[2] = Word("b", 5) /\ ws[3] = Word("ldr_x17", 2) /\ ws[4] = Word("ret_x17", 0)
      /\ ws[5] = Word("lo", t) /\ ws[6] = Word("hi", t) /\ Len(ws) = 6
    BY <1>1
<1> QED
    BY <1>2 DEF t

LEMMA WordsOfADR ==
    ASSUME NEW fn, NEW inst, inst.op \in {"ADR", "ADRP"}, NEW ws, ws = relocate_inst(fn, inst)
    PROVE  /\ ws[1] = Word("ldr_xt", 2) /\ ws[2] = Word("b", 3)
           /\ ws[3] = Word("lo", inst.to) /\ ws[4] = Word("hi", inst.to) /\ Len(ws) = 4
<1>1. ws = <<Word("ldr_xt", 2), Word("b", 3)>> \o <<Word("lo", inst.to), Word("hi", inst.to)>>
    <2>1. ws = relo_adr(fn, inst)
        BY DEF relocate_inst, INST_CBTB, INST_LDR, INST_LDR_SIMD
    <2> QED
        BY <2>1 DEF relo_adr, Address
<1> QED
    BY <1>1

LEMMA WordsOfPRFM ==
    ASSUME NEW fn, NEW inst, inst.op = "PRFM_LIT", NEW ws, ws = relocate_inst(fn, inst)
    PROVE  /\ ws[1] = Word("push", 0) /\ ws[2] = Word("ldr_x17", 4) /\ ws[3] = Word("prfm", 0)
           /\ ws[4] = Word("pop_x17", 0) /\ ws[5] = Word("b", 4) /\ ws[6] = NOP /\ Len(ws) = 8
<1> DEFINE t == relo_in_tramp(fn, inst.to)
<1>1. ws = <<Word("push", 0), Word("ldr_x17", 4), Word("prfm", 0), Word("pop_x17", 0), Word("b", 4), NOP>> \o <<Word("lo", t), Word("hi", t)>>
    BY DEF relocate_inst, relo_ldr, Address, INST_CBTB, INST_LDR, INST_LDR_SIMD
<1> HIDE DEF t
<1> QED
    BY <1>1

LEMMA WordsOfOther ==
    ASSUME NEW fn, NEW inst, NEW ws, ws = relocate_inst(fn, inst),
           inst.op \notin Branches \cup {"ADR", "ADRP", "PRFM_LIT"} \cup INST_LDR \cup INST_LDR_SIMD
    PROVE  ws[1] = Word("inst", inst.to) /\ ws[2] = NOP /\ Len(ws) = 2
<1>1. ws = <<Word("inst", inst.to), NOP>>
    BY DEF relocate_inst, relo_ignore, Branches, INST_CBTB, INST_LDR, INST_LDR_SIMD
<1> QED
    BY <1>1

-----------------------------------------------------------------------------
(* Where blocks are. *)

LEMMA OffsetsOf ==
    ASSUME NEW fn, NEW n \in Nat
    PROVE  /\ Offset(fn, 0) = 0
           /\ \A i \in 1 .. n : Offset(fn, i) = Offset(fn, i - 1) + relo_len(fn[i].op)
           /\ \A i \in 0 .. n : Offset(fn, i) \in Nat /\ Offset(fn, i) <= 8 * i
           /\ \A i, j \in 0 .. n : i < j => Offset(fn, i) + relo_len(fn[i + 1].op) <= Offset(fn, j)
<1> DEFINE off == [i \in 0 .. n |-> Offset(fn, i)]
           len == [i \in 1 .. n |-> relo_len(fn[i].op)]
<1>1. /\ off[0] = 0 /\ \A i \in 1 .. n : off[i] = off[i - 1] + len[i]
      /\ \A i \in 0 .. n : off[i] \in Nat
      /\ \A i \in 1 .. n : len[i] \in {2, 4, 6, 8}
    <2>1. \A i \in 1 .. n : i - 1 \in 0 .. n /\ i \in 0 .. n
        OBVIOUS
    <2>2. 0 \in 0 .. n
        OBVIOUS
    <2> QED
        BY OffsetIs, Lengths, <2>1, <2>2
<1> HIDE DEF off, len
<1>2. \A i \in 0 .. n : off[i] <= 8 * i
    <2> DEFINE I == {i \in 0 .. n : off[i] <= 8 * i}
    <2>1. 0 \in I
        BY <1>1
    <2>2. ASSUME NEW m \in 0 .. n - 1, m \in I PROVE m + 1 \in I
        <3>1. m + 1 \in 1 .. n /\ m + 1 - 1 = m /\ m \in 0 .. n /\ m + 1 \in 0 .. n
            OBVIOUS
        <3>2. off[m + 1] = off[m] + len[m + 1] /\ off[m] \in Nat /\ len[m + 1] \in {2, 4, 6, 8} /\ off[m] <= 8 * m
            BY <1>1, <2>2, <3>1
        <3>3. off[m + 1] <= 8 * (m + 1)
            BY <3>1, <3>2
        <3> QED
            BY <3>1, <3>3
    <2>3. \A i \in 0 .. n : i \in I
        <3> HIDE DEF I
        <3> QED
            BY <2>1, <2>2, UpTo
    <2> QED
        BY <2>3
<1>3. ASSUME NEW i \in 0 .. n, NEW j \in 0 .. n, i < j PROVE off[i] + len[i + 1] <= off[j]
    <2> DEFINE I == {k \in 0 .. j : k >= i + 1 => off[i] + len[i + 1] <= off[k]}
    <2>1. 0 \in I
        OBVIOUS
    <2>2. ASSUME NEW m \in 0 .. j - 1, m \in I PROVE m + 1 \in I
        <3>1. m + 1 \in 1 .. n /\ m + 1 - 1 = m /\ m \in 0 .. n /\ m + 1 \in 0 .. j /\ m \in 0 .. j
            OBVIOUS
        <3>2. off[m + 1] = off[m] + len[m + 1] /\ off[m] \in Nat /\ len[m + 1] \in Nat
            BY <1>1, <3>1
        <3>3. i + 1 \in 1 .. n /\ off[i] \in Nat /\ len[i + 1] \in Nat
            BY <1>1, <1>3
        <3>4. CASE m < i
            BY <3>1, <3>4
        <3>5. CASE m = i
            BY <3>1, <3>2, <3>5
        <3>6. CASE m > i
            <4>1. off[i] + len[i + 1] <= off[m]
                BY <2>2, <3>6
            <4>2. off[i] + len[i + 1] <= off[m + 1]
                BY <3>2, <3>3, <4>1
            <4> QED
                BY <3>1, <4>2
        <3> QED
            BY <3>4, <3>5, <3>6
    <2>3. \A k \in 0 .. j : k \in I
        <3> HIDE DEF I
        <3>1. j \in Nat
            OBVIOUS
        <3> QED
            BY <2>1, <2>2, <3>1, UpTo
    <2>4. j \in I
        BY <2>3
    <2> QED
        BY <1>3, <2>4
<1>4. /\ \A i \in 0 .. n : off[i] = Offset(fn, i)
      /\ \A i \in 0 .. n : i + 1 \in 1 .. n => len[i + 1] = relo_len(fn[i + 1].op)
    BY DEF off, len
<1>5. \A i, j \in 0 .. n : i < j => i + 1 \in 1 .. n
    OBVIOUS
<1>6. \A i \in 0 .. n : Offset(fn, i) \in Nat /\ Offset(fn, i) <= 8 * i
    BY <1>1, <1>2, <1>4
<1>7. \A i, j \in 0 .. n : i < j => Offset(fn, i) + relo_len(fn[i + 1].op) <= Offset(fn, j)
    BY <1>3, <1>4, <1>5
<1> QED
    BY <1>6, <1>7, OffsetIs

\* Where the words are that run, and what is between the blocks.
LEMMA BlocksAre ==
    ASSUME BufferIs, RELO \in Nat
    PROVE  /\ Len(insts) \in {4, 5} /\ Len(buffer) <= 44 /\ Len(buffer) \in Nat
           /\ \A i \in 0 .. Len(insts) : Offset(insts, i) \in Nat /\ InBuffer(RELO + Offset(insts, i))
           /\ \A i \in 1 .. Len(insts) :
                 /\ Offset(insts, i) = Offset(insts, i - 1) + relo_len(insts[i].op)
                 /\ \A d \in 1 .. relo_len(insts[i].op) - 1 :
                       /\ RELO + Offset(insts, i - 1) + d \notin Starts
                       /\ InBuffer(RELO + Offset(insts, i - 1) + d)
           /\ \A d \in 1 .. 3 :
                 /\ RELO + Offset(insts, Len(insts)) + d \notin Starts
                 /\ InBuffer(RELO + Offset(insts, Len(insts)) + d)
<1> DEFINE n == Len(insts)  off == [i \in 0 .. n |-> Offset(insts, i)]  len == [i \in 1 .. n |-> relo_len(insts[i].op)]
<1>1. n \in {4, 5}
    BY DEF BufferIs, tramp_insts_num
<1>2. Len(buffer) = off[n] + 4
    BY <1>1 DEF BufferIs
<1>3. \A i \in 0 .. n : off[i] = Offset(insts, i)
    OBVIOUS
<1>4. \A i \in 1 .. n : len[i] = relo_len(insts[i].op) /\ len[i] \in {2, 4, 6, 8}
    BY Lengths
<1>5. \A i \in 1 .. n : i - 1 \in 0 .. n /\ i \in 0 .. n
    BY <1>1
<1>6. /\ \A i \in 0 .. n : off[i] \in Nat /\ off[i] <= 8 * i
      /\ \A i \in 1 .. n : off[i] = off[i - 1] + len[i]
      /\ \A i, j \in 0 .. n : i < j => off[i] <= off[j] /\ off[i] + len[i + 1] <= off[j]
    <2>1. n \in Nat
        BY <1>1
    <2>2. /\ \A i \in 0 .. n : Offset(insts, i) \in Nat /\ Offset(insts, i) <= 8 * i
          /\ \A i \in 1 .. n : Offset(insts, i) = Offset(insts, i - 1) + relo_len(insts[i].op)
          /\ \A i, j \in 0 .. n : i < j => Offset(insts, i) + relo_len(insts[i + 1].op) <= Offset(insts, j)
        <3> HIDE DEF n
        <3> QED
            BY <2>1, OffsetsOf
    <2> HIDE DEF off, len, n
    <2>3. /\ \A i \in 0 .. n : off[i] \in Nat /\ off[i] <= 8 * i
          /\ \A i \in 1 .. n : off[i] = off[i - 1] + len[i]
        BY <1>3, <1>4, <1>5, <2>2
    <2>4. ASSUME NEW i \in 0 .. n, NEW j \in 0 .. n, i < j PROVE off[i] <= off[j] /\ off[i] + len[i + 1] <= off[j]
        <3>1. i + 1 \in 1 .. n
            BY <2>1, <2>4
        <3>2. Offset(insts, i) + relo_len(insts[i + 1].op) <= Offset(insts, j)
            BY <2>2, <2>4
        <3>3. len[i + 1] = relo_len(insts[i + 1].op) /\ len[i + 1] \in {2, 4, 6, 8}
            BY <1>4, <3>1
        <3>4. off[i] = Offset(insts, i) /\ off[j] = Offset(insts, j) /\ off[i] \in Nat /\ off[j] \in Nat
            BY <1>3, <2>3
        <3>5. off[i] + len[i + 1] <= off[j]
            BY <3>2, <3>3, <3>4
        <3> HIDE DEF n
        <3>6. off[i] <= off[j]
            <4> DEFINE x == off[i]  y == off[j]  z == len[i + 1]
            <4>1. x \in Nat /\ y \in Nat /\ z \in {2, 4, 6, 8} /\ x + z <= y
                BY <3>3, <3>4, <3>5
            <4> HIDE DEF x, y, z
            <4>2. x <= y
                BY <4>1
            <4> QED
                BY <4>2 DEF x, y
        <3> QED
            BY <3>5, <3>6
    <2> QED
        BY <2>3, <2>4
<1>7. Starts = {RELO + off[i] : i \in 0 .. n}
    BY <1>3 DEF Starts
<1> HIDE DEF off, len, n
<1>0. n \in Nat /\ n \in 0 .. n /\ off[n] \in Nat /\ off[n] <= 40
    <2>1. n \in Nat /\ n \in 0 .. n
        BY <1>1
    <2>2. off[n] \in Nat /\ off[n] <= 8 * n
        BY <1>6, <2>1
    <2>3. off[n] <= 40
        BY <1>1, <2>2
    <2> QED
        BY <2>1, <2>2, <2>3
<1>8. Len(buffer) <= 44 /\ Len(buffer) \in Nat
    BY <1>0, <1>2
<1>9. ASSUME NEW i \in 0 .. n PROVE off[i] <= off[n]
    <2>1. CASE i = n
        BY <1>0, <2>1
    <2>2. CASE i # n
        <3>1. i < n
            BY <1>0, <2>2
        <3> QED
            BY <1>0, <1>6, <3>1
    <2> QED
        BY <2>1, <2>2
<1>10. ASSUME NEW i \in 0 .. n PROVE InBuffer(RELO + off[i])
    <2>1. off[i] \in Nat /\ off[i] <= off[n]
        BY <1>6, <1>9
    <2> DEFINE x == off[i]  y == off[n]
    <2>2. x \in Nat /\ y \in Nat /\ x <= y /\ Len(buffer) = y + 4
        BY <1>0, <1>2, <2>1
    <2> HIDE DEF x, y
    <2>3. RELO + x \in RELO .. (RELO + (y + 4) - 1)
        BY <2>2
    <2> QED
        BY <2>2, <2>3 DEF InBuffer, x
<1>11. ASSUME NEW i \in 1 .. n, NEW d \in 1 .. len[i] - 1
       PROVE  RELO + off[i - 1] + d \notin Starts /\ InBuffer(RELO + off[i - 1] + d)
    <2>1. i \in 0 .. n /\ i - 1 \in 0 .. n
        BY <1>5
    <2>2. off[i] = off[i - 1] + len[i] /\ off[i - 1] \in Nat /\ len[i] \in {2, 4, 6, 8} /\ off[i] <= off[n]
        BY <1>4, <1>6, <1>9, <2>1
    <2> DEFINE x == off[i - 1]  y == off[i]  z == off[n]  k == len[i]
    <2>3. x \in Nat /\ y \in Nat /\ z \in Nat /\ k \in {2, 4, 6, 8} /\ y = x + k /\ y <= z /\ d \in 1 .. k - 1 /\ Len(buffer) = z + 4
        BY <1>0, <1>2, <1>6, <2>1, <2>2
    <2>4. \A j \in 0 .. n : off[j] \in Nat /\ (off[j] <= x \/ off[j] >= y)
        <3> SUFFICES ASSUME NEW j \in 0 .. n PROVE off[j] \in Nat /\ (off[j] <= x \/ off[j] >= y)
            OBVIOUS
        <3>1. off[j] \in Nat
            BY <1>6
        <3>2. CASE j < i - 1
            BY <1>6, <2>1, <3>1, <3>2
        <3>3. CASE j = i - 1
            BY <2>3, <3>1, <3>3
        <3>4. CASE j = i
            BY <2>3, <3>1, <3>4
        <3>5. CASE j > i
            BY <1>6, <2>1, <2>3, <3>1, <3>5
        <3>6. j \in Int /\ i \in Int
            BY <1>0
        <3>7. j < i - 1 \/ j = i - 1 \/ j = i \/ j > i
            BY <3>6
        <3> QED
            BY <3>2, <3>3, <3>4, <3>5, <3>7
    <2> HIDE DEF x, y, z, k
    <2>5. \A j \in 0 .. n : RELO + x + d # RELO + off[j]
        <3> SUFFICES ASSUME NEW j \in 0 .. n PROVE RELO + x + d # RELO + off[j]
            OBVIOUS
        <3> DEFINE v == off[j]
        <3>1. v \in Nat /\ (v <= x \/ v >= y)
            BY <2>4
        <3> HIDE DEF v
        <3>2. RELO + x + d # RELO + v
            BY <2>3, <3>1
        <3> QED
            BY <3>2 DEF v
    <2>6. RELO + x + d \in RELO .. (RELO + (z + 4) - 1)
        BY <2>3
    <2>7. InBuffer(RELO + x + d)
        BY <2>3, <2>6 DEF InBuffer
    <2>8. RELO + x + d \notin Starts
        BY <1>7, <2>5
    <2> QED
        BY <2>7, <2>8 DEF x
<1>12. ASSUME NEW d \in 1 .. 3
       PROVE  RELO + off[n] + d \notin Starts /\ InBuffer(RELO + off[n] + d)
    <2> DEFINE z == off[n]
    <2>1. z \in Nat /\ Len(buffer) = z + 4 /\ \A j \in 0 .. n : off[j] \in Nat /\ off[j] <= z
        BY <1>0, <1>2, <1>6, <1>9
    <2> HIDE DEF z
    <2>2. InBuffer(RELO + z + d)
        BY <2>1 DEF InBuffer
    <2>3. \A j \in 0 .. n : RELO + z + d # RELO + off[j]
        <3> SUFFICES ASSUME NEW j \in 0 .. n PROVE RELO + z + d # RELO + off[j]
            OBVIOUS
        <3> DEFINE v == off[j]
        <3>1. v \in Nat /\ v <= z
            BY <2>1
        <3> HIDE DEF v
        <3>2. RELO + z + d # RELO + v
            BY <2>1, <3>1
        <3> QED
            BY <3>2 DEF v
    <2> QED
        BY <1>7, <2>2, <2>3 DEF z
<1>13. /\ \A i \in 0 .. n : Offset(insts, i) \in Nat /\ InBuffer(RELO + Offset(insts, i))
       /\ \A i \in 1 .. n : Offset(insts, i) = Offset(insts, i - 1) + relo_len(insts[i].op)
    BY <1>3, <1>4, <1>5, <1>6, <1>10
<1>14. \A i \in 1 .. n : \A d \in 1 .. relo_len(insts[i].op) - 1 :
           RELO + Offset(insts, i - 1) + d \notin Starts /\ InBuffer(RELO + Offset(insts, i - 1) + d)
    BY <1>3, <1>4, <1>5, <1>11
<1>15. \A d \in 1 .. 3 : RELO + Offset(insts, n) + d \notin Starts /\ InBuffer(RELO + Offset(insts, n) + d)
    BY <1>0, <1>3, <1>12
<1> QED
    BY <1>1, <1>8, <1>13, <1>14, <1>15 DEF n

-----------------------------------------------------------------------------
(* What the machine that runs from the buffer does with a word. *)

Machine(p, a, b, v) == [pc |-> p, x17 |-> a, x30 |-> b, x |-> v]

\* The word of a block that runs, and the address behind it.
LEMMA WordAt ==
    ASSUME BufferIs, RELO \in Nat, NEW i \in 1 .. Len(insts), NEW d \in 1 .. relo_len(insts[i].op),
           NEW p, p = RELO + Offset(insts, i - 1) + d - 1
    PROVE  buffer[p - RELO + 1] = relocate_inst(insts, insts[i])[d]
<1>1. Offset(insts, i - 1) \in Nat
    <2>1. i - 1 \in 0 .. Len(insts)
        BY BlocksAre
    <2> QED
        BY <2>1, BlocksAre
<1>2. d \in Int
    BY Lengths
<1> DEFINE o == Offset(insts, i - 1)
<1>3. p - RELO + 1 = o + d
    <2>1. o \in Nat /\ p = RELO + o + d - 1
        BY <1>1
    <2> HIDE DEF o
    <2> QED
        BY <1>2, <2>1
<1>4. buffer[o + d] = relocate_inst(insts, insts[i])[d]
    BY DEF BufferIs
<1> QED
    BY <1>3, <1>4

LEMMA LiteralAt ==
    ASSUME BufferIs, RELO \in Nat, NEW i \in 1 .. Len(insts), NEW d \in 1 .. relo_len(insts[i].op), NEW v,
           d + 1 \in 1 .. relo_len(insts[i].op), NEW p, p = RELO + Offset(insts, i - 1) + d - 1,
           relocate_inst(insts, insts[i])[d] = Word("lo", v), relocate_inst(insts, insts[i])[d + 1] = Word("hi", v)
    PROVE  Literal(p) = v
<1>1. Offset(insts, i - 1) \in Nat
    <2>1. i - 1 \in 0 .. Len(insts)
        BY BlocksAre
    <2> QED
        BY <2>1, BlocksAre
<1>2. d \in Int
    BY Lengths
<1> DEFINE o == Offset(insts, i - 1)
<1>3. p - RELO + 1 = o + d /\ p - RELO + 1 + 1 = o + (d + 1)
    <2>1. o \in Nat /\ p = RELO + o + d - 1
        BY <1>1
    <2> HIDE DEF o
    <2>2. p - RELO + 1 = o + d
        BY <1>2, <2>1
    <2>3. o + d + 1 = o + (d + 1)
        BY <1>2, <2>1
    <2> QED
        BY <2>2, <2>3
<1>4. buffer[o + d] = Word("lo", v) /\ buffer[o + (d + 1)] = Word("hi", v)
    BY DEF BufferIs
<1>5. buffer[p - RELO + 1] = Word("lo", v) /\ buffer[p - RELO + 1 + 1] = Word("hi", v)
    BY <1>3, <1>4
<1> QED
    BY <1>5 DEF Literal, Word

-----------------------------------------------------------------------------
(* A step of the machine that runs from the buffer. *)

LEMMA RunsWord ==
    ASSUME BufferIs, RELO \in Nat, ExecRelocated, NEW i \in 1 .. Len(insts), NEW d \in 1 .. relo_len(insts[i].op),
           relo.pc = RELO + Offset(insts, i - 1) + d - 1
    PROVE  relo' = ExecWord(relo, relocate_inst(insts, insts[i])[d], taken)
<1>1. buffer[relo.pc - RELO + 1] = relocate_inst(insts, insts[i])[d]
    BY WordAt
<1> QED
    BY <1>1 DEF ExecRelocated

\* It stays in the block, reaches the next one, or jumps.
LEMMA Goes ==
    ASSUME BufferIs, RELO \in Nat, ExecRelocated, orig.pc \in Int, NEW i \in 1 .. Len(insts),
           NEW e \in 1 .. 7, e < relo_len(insts[i].op), InBlock(i, e)'
    PROVE  RunsAlike' /\ phase' = "relo"
<1>1. relo'.pc = RELO + Offset(insts, i - 1) + e
    BY DEF InBlock, ExecRelocated
<1>2. e \in 1 .. relo_len(insts[i].op) - 1
    BY Lengths
<1>3. relo'.pc \notin Starts /\ InBuffer(relo'.pc)
    BY <1>1, <1>2, BlocksAre
<1>4. phase' = "relo" /\ orig' = orig /\ insts' = insts
    BY <1>3 DEF ExecRelocated
<1> QED
    BY <1>4 DEF RunsAlike

LEMMA FallsOn ==
    ASSUME BufferIs, RELO \in Nat, ExecRelocated, NEW i \in 1 .. Len(insts),
           relo'.pc = RELO + Offset(insts, i), Done(i)'
    PROVE  RunsAlike' /\ phase' = "orig"
<1>1. orig' = orig /\ insts' = insts /\ buffer' = buffer /\ orig.pc = i
    BY DEF ExecRelocated, Done
<1>2. Len(insts) \in {4, 5} /\ i \in 0 .. Len(insts)
    BY BlocksAre
<1>3. relo'.pc \in Starts
    BY <1>2 DEF Starts
<1>4. phase' = "orig"
    BY <1>3 DEF ExecRelocated
<1>5. i \in Int /\ (i \in 0 .. Len(insts) - 1 \/ i = Len(insts))
    BY <1>2
<1>6. Agree'
    BY <1>1, <1>5 DEF Agree, Done, Inside
<1> QED
    BY <1>1, <1>4, <1>5, <1>6 DEF RunsAlike

LEMMA Jumped ==
    ASSUME BufferIs, RELO \in Nat, RELO > 5, ExecRelocated, NEW i \in 1 .. Len(insts),
           relo'.pc = relo_in_tramp(insts, insts[i].to), WentTo(i)'
    PROVE  RunsAlike' /\ phase' = "orig"
<1> DEFINE to == insts[i].to
<1>1. orig' = orig /\ insts' = insts /\ buffer' = buffer /\ orig.pc = to
    BY DEF ExecRelocated, WentTo
<1>2. Len(insts) \in {4, 5} /\ Len(insts) = tramp_insts_num(insts) /\ Len(buffer) <= 44 /\ Len(buffer) \in Nat
    BY BlocksAre DEF BufferIs
<1>3. to \in Int /\ to \notin RELO .. RELO + 43
    <2>1. insts[i] \in Insts /\ to \notin RELO .. RELO + 43
        BY DEF BufferIs
    <2> QED
        BY <2>1 DEF Insts
<1>4. relo'.x = orig.x /\ ReturnsAlike'
    BY <1>1 DEF WentTo
<1> HIDE DEF to
<1>5. CASE to \in 0 .. Len(insts) - 1
    <2>1. relo'.pc = RELO + Offset(insts, to) /\ to \in 0 .. Len(insts)
        BY <1>2, <1>5 DEF relo_in_tramp, is_in_tramp, to
    <2>2. relo'.pc \in Starts
        BY <2>1 DEF Starts
    <2>3. phase' = "orig"
        BY <2>2 DEF ExecRelocated
    <2>4. Agree'
        BY <1>1, <1>4, <1>5, <2>1 DEF Agree, Inside
    <2> QED
        BY <1>1, <1>3, <2>3, <2>4 DEF RunsAlike
<1>6. CASE to \notin 0 .. Len(insts) - 1
    <2>1. relo'.pc = to
        BY <1>2, <1>3, <1>6 DEF relo_in_tramp, is_in_tramp, to
    <2>2. ~InBuffer(to)
        BY <1>2, <1>3 DEF InBuffer
    <2>3. phase' = "orig"
        BY <2>1, <2>2 DEF ExecRelocated
    <2>4. Agree'
        BY <1>1, <1>4, <1>6, <2>1 DEF Agree, Inside
    <2> QED
        BY <1>1, <1>3, <2>3, <2>4 DEF RunsAlike
<1> QED
    BY <1>5, <1>6

\* What the machines know of each other, after a word that changes no x30.
LEMMA ReturnsKept ==
    ASSUME ExecRelocated, ReturnsAlike, relo'.x30 = relo.x30
    PROVE  ReturnsAlike'
BY DEF ExecRelocated, ReturnsAlike

-----------------------------------------------------------------------------
(* One lemma for each way to rewrite a word. *)

LEMMA RunsB ==
    ASSUME BufferIs, RELO \in Nat, RELO > 5, ExecRelocated, orig.pc \in Int,
           NEW i \in 1 .. Len(insts), NEW d \in 0 .. 7, InBlock(i, d), insts[i].op = "B"
    PROVE  RunsAlike' /\ phase' \in {"orig", "relo"}
<1> DEFINE wd == relocate_inst(insts, insts[i])
           o == Offset(insts, i - 1)
           v == relo_in_tramp(insts, insts[i].to)
<1>1. relo_len(insts[i].op) = 6 /\ o \in Nat /\ Offset(insts, i) = o + 6
    <2>1. relo_len(insts[i].op) = 6
        BY DEF relo_len, INST_CBTB, INST_LDR, INST_LDR_SIMD
    <2>2. i - 1 \in 0 .. Len(insts)
        BY BlocksAre
    <2> QED
        BY <2>1, <2>2, BlocksAre
<1>2. insts' = insts /\ orig' = orig /\ taken' = taken /\ relo.pc = RELO + o + d
    BY DEF ExecRelocated, InBlock
<1>3. /\ wd[1] = Word("ldr_x17", 2)
      /\ wd[2] = Word("b", 3)
      /\ wd[3] = Word("lo", v)
      /\ wd[4] = Word("hi", v)
      /\ wd[5] = Word("ret_x17", 0)
    BY WordsOfB DEF Branches
<1>4. InB(i, d)
    BY DEF InBlock, INST_CBTB
<1>5. ASSUME NEW k \in 0 .. 7, InB(i, k)', relo'.pc = RELO + o + k PROVE InBlock(i, k)'
    BY <1>2, <1>5 DEF InBlock, INST_CBTB
<1>6. Literal(RELO + o + 2) = v
    <2>1. 3 \in 1 .. relo_len(insts[i].op) /\ 3 + 1 \in 1 .. relo_len(insts[i].op) /\ RELO + o + 2 = RELO + o + 3 - 1
        BY <1>1
    <2> HIDE DEF wd, o, v
    <2> QED
        BY <1>3, <2>1, LiteralAt DEF wd, o, v
<1>7. CASE d = 0
    <2>1. relo' = ExecWord(relo, wd[1], taken)
        <3>1. 1 \in 1 .. relo_len(insts[i].op) /\ RELO + o + 0 = RELO + o + 1 - 1
            BY <1>1
        <3> QED
            BY <1>2, <3>1, <1>7, RunsWord
    <2>2. relo' = Machine(relo.pc + 1, Literal(relo.pc + 2), relo.x30, relo.x)
        <3>1. ExecWord(relo, Word("ldr_x17", 2), taken) = Machine(relo.pc + 1, Literal(relo.pc + 2), relo.x30, relo.x)
            BY DEF ExecWord, Word, Machine
        <3>2. wd[1] = Word("ldr_x17", 2)
            BY <1>3 DEF NOP
        <3> QED
            BY <2>1, <3>1, <3>2, Zenon
    <2>3. relo'.pc = RELO + o + 1 /\ relo'.x17 = v /\ relo'.x30 = relo.x30 /\ relo'.x = relo.x
        <3>1. relo.pc = RELO + o + 0 /\ relo.pc + 2 = RELO + o + 2
            BY <1>1, <1>2, <1>7
        <3>2. relo'.pc = relo.pc + 1 /\ relo'.x17 = Literal(relo.pc + 2) /\ relo'.x30 = relo.x30 /\ relo'.x = relo.x
            BY <2>2 DEF Machine
        <3> QED
            BY <1>1, <1>6, <1>4, <1>7, <3>1, <3>2 DEF InB, X17Loaded
    <2>4. ReturnsAlike'
        BY <1>4, <1>7, <2>3, ReturnsKept DEF InB, WentTo, Done
    <2>5. InB(i, 1)'
        BY <1>1, <1>2, <1>4, <1>7, <2>3, <2>4 DEF InB, WentTo, Done, X17Loaded, relo_in_tramp, is_in_tramp
    <2>6. InBlock(i, 1)'
        BY <1>5, <2>3, <2>5
    <2> QED
        BY <1>1, <2>6, Goes
<1>8. CASE d = 1
    <2>1. relo' = ExecWord(relo, wd[2], taken)
        <3>1. 2 \in 1 .. relo_len(insts[i].op) /\ RELO + o + 1 = RELO + o + 2 - 1
            BY <1>1
        <3> QED
            BY <1>2, <3>1, <1>8, RunsWord
    <2>2. relo' = Machine(relo.pc + 3, relo.x17, relo.x30, relo.x)
        <3>1. ExecWord(relo, Word("b", 3), taken) = Machine(relo.pc + 3, relo.x17, relo.x30, relo.x)
            BY DEF ExecWord, Word, Machine
        <3>2. wd[2] = Word("b", 3)
            BY <1>3 DEF NOP
        <3> QED
            BY <2>1, <3>1, <3>2, Zenon
    <2>3. relo'.pc = RELO + o + 4 /\ relo'.x17 = relo.x17 /\ relo'.x30 = relo.x30 /\ relo'.x = relo.x
        <3>1. relo.pc = RELO + o + 1
            BY <1>1, <1>2, <1>8
        <3>2. relo'.pc = relo.pc + 3 /\ relo'.x17 = relo.x17 /\ relo'.x30 = relo.x30 /\ relo'.x = relo.x
            BY <2>2 DEF Machine
        <3> QED
            BY <1>1, <1>4, <1>8, <3>1, <3>2 DEF InB, X17Loaded
    <2>4. ReturnsAlike'
        BY <1>4, <1>8, <2>3, ReturnsKept DEF InB, WentTo, Done
    <2>5. InB(i, 4)'
        BY <1>1, <1>2, <1>4, <1>8, <2>3, <2>4 DEF InB, WentTo, Done, X17Loaded, relo_in_tramp, is_in_tramp
    <2>6. InBlock(i, 4)'
        BY <1>5, <2>3, <2>5
    <2> QED
        BY <1>1, <2>6, Goes
<1>9. CASE d = 4
    <2>1. relo' = ExecWord(relo, wd[5], taken)
        <3>1. 5 \in 1 .. relo_len(insts[i].op) /\ RELO + o + 4 = RELO + o + 5 - 1
            BY <1>1
        <3> QED
            BY <1>2, <3>1, <1>9, RunsWord
    <2>2. relo' = Machine(relo.x17, relo.x17, relo.x30, relo.x)
        <3>1. ExecWord(relo, Word("ret_x17", 0), taken) = Machine(relo.x17, relo.x17, relo.x30, relo.x)
            BY DEF ExecWord, Word, Machine
        <3>2. wd[5] = Word("ret_x17", 0)
            BY <1>3 DEF NOP
        <3> QED
            BY <2>1, <3>1, <3>2, Zenon
    <2>3. relo'.pc = v /\ relo'.x17 = relo.x17 /\ relo'.x30 = relo.x30 /\ relo'.x = relo.x
        <3>1. relo.pc = RELO + o + 4
            BY <1>1, <1>2, <1>9
        <3>2. relo'.pc = relo.x17 /\ relo'.x17 = relo.x17 /\ relo'.x30 = relo.x30 /\ relo'.x = relo.x
            BY <2>2 DEF Machine
        <3> QED
            BY <1>1, <1>4, <1>9, <3>1, <3>2 DEF InB, X17Loaded
    <2>4. ReturnsAlike'
        BY <1>4, <1>9, <2>3, ReturnsKept DEF InB, WentTo, Done
    <2>5. WentTo(i)'
        BY <1>2, <1>4, <1>9, <2>3, <2>4 DEF InB, WentTo
    <2> QED
        BY <2>3, <2>5, Jumped
<1> QED
    BY <1>4, <1>7, <1>8, <1>9 DEF InB

LEMMA RunsBC ==
    ASSUME BufferIs, RELO \in Nat, RELO > 5, ExecRelocated, orig.pc \in Int,
           NEW i \in 1 .. Len(insts), NEW d \in 0 .. 7, InBlock(i, d), insts[i].op = "BC"
    PROVE  RunsAlike' /\ phase' \in {"orig", "relo"}
<1> DEFINE wd == relocate_inst(insts, insts[i])
           o == Offset(insts, i - 1)
           v == relo_in_tramp(insts, insts[i].to)
<1>1. relo_len(insts[i].op) = 8 /\ o \in Nat /\ Offset(insts, i) = o + 8
    <2>1. relo_len(insts[i].op) = 8
        BY DEF relo_len, INST_CBTB, INST_LDR, INST_LDR_SIMD
    <2>2. i - 1 \in 0 .. Len(insts)
        BY BlocksAre
    <2> QED
        BY <2>1, <2>2, BlocksAre
<1>2. insts' = insts /\ orig' = orig /\ taken' = taken /\ relo.pc = RELO + o + d
    BY DEF ExecRelocated, InBlock
<1>3. /\ wd[1] = Word("if", 2)
      /\ wd[2] = Word("b", 6)
      /\ wd[3] = Word("ldr_x17", 2)
      /\ wd[4] = Word("b", 3)
      /\ wd[5] = Word("lo", v)
      /\ wd[6] = Word("hi", v)
      /\ wd[7] = Word("ret_x17", 0)
      /\ wd[8] = NOP
    BY WordsOfBC DEF Branches
<1>4. InBC(i, d)
    BY DEF InBlock, INST_CBTB
<1>5. ASSUME NEW k \in 0 .. 7, InBC(i, k)', relo'.pc = RELO + o + k PROVE InBlock(i, k)'
    BY <1>2, <1>5 DEF InBlock, INST_CBTB
<1>6. Literal(RELO + o + 4) = v
    <2>1. 5 \in 1 .. relo_len(insts[i].op) /\ 5 + 1 \in 1 .. relo_len(insts[i].op) /\ RELO + o + 4 = RELO + o + 5 - 1
        BY <1>1
    <2> HIDE DEF wd, o, v
    <2> QED
        BY <1>3, <2>1, LiteralAt DEF wd, o, v
<1>7. CASE d = 0 /\ taken
    <2>1. relo' = ExecWord(relo, wd[1], taken)
        <3>1. 1 \in 1 .. relo_len(insts[i].op) /\ RELO + o + 0 = RELO + o + 1 - 1
            BY <1>1
        <3> QED
            BY <1>2, <3>1, <1>7, RunsWord
    <2>2. relo' = Machine((IF taken THEN relo.pc + 2 ELSE relo.pc + 1), relo.x17, relo.x30, relo.x)
        <3>1. ExecWord(relo, Word("if", 2), taken) = Machine((IF taken THEN relo.pc + 2 ELSE relo.pc + 1), relo.x17, relo.x30, relo.x)
            BY DEF ExecWord, Word, Machine
        <3>2. wd[1] = Word("if", 2)
            BY <1>3 DEF NOP
        <3> QED
            BY <2>1, <3>1, <3>2, Zenon
    <2>3. relo'.pc = RELO + o + 2 /\ relo'.x17 = relo.x17 /\ relo'.x30 = relo.x30 /\ relo'.x = relo.x
        <3>1. relo.pc = RELO + o + 0
            BY <1>1, <1>2, <1>7
        <3>2. relo'.pc = (IF taken THEN relo.pc + 2 ELSE relo.pc + 1) /\ relo'.x17 = relo.x17 /\ relo'.x30 = relo.x30 /\ relo'.x = relo.x
            BY <2>2 DEF Machine
        <3> QED
            BY <1>1, <1>4, <1>7, <3>1, <3>2 DEF InBC, X17Loaded
    <2>4. ReturnsAlike'
        BY <1>4, <1>7, <2>3, ReturnsKept DEF InBC, WentTo, Done
    <2>5. InBC(i, 2)'
        BY <1>1, <1>2, <1>4, <1>7, <2>3, <2>4 DEF InBC, WentTo, Done, X17Loaded, relo_in_tramp, is_in_tramp
    <2>6. InBlock(i, 2)'
        BY <1>5, <2>3, <2>5
    <2> QED
        BY <1>1, <2>6, Goes
<1>8. CASE d = 0 /\ ~taken
    <2>1. relo' = ExecWord(relo, wd[1], taken)
        <3>1. 1 \in 1 .. relo_len(insts[i].op) /\ RELO + o + 0 = RELO + o + 1 - 1
            BY <1>1
        <3> QED
            BY <1>2, <3>1, <1>8, RunsWord
    <2>2. relo' = Machine((IF taken THEN relo.pc + 2 ELSE relo.pc + 1), relo.x17, relo.x30, relo.x)
        <3>1. ExecWord(relo, Word("if", 2), taken) = Machine((IF taken THEN relo.pc + 2 ELSE relo.pc + 1), relo.x17, relo.x30, relo.x)
            BY DEF ExecWord, Word, Machine
        <3>2. wd[1] = Word("if", 2)
            BY <1>3 DEF NOP
        <3> QED
            BY <2>1, <3>1, <3>2, Zenon
    <2>3. relo'.pc = RELO + o + 1 /\ relo'.x17 = relo.x17 /\ relo'.x30 = relo.x30 /\ relo'.x = relo.x
        <3>1. relo.pc = RELO + o + 0
            BY <1>1, <1>2, <1>8
        <3>2. relo'.pc = (IF taken THEN relo.pc + 2 ELSE relo.pc + 1) /\ relo'.x17 = relo.x17 /\ relo'.x30 = relo.x30 /\ relo'.x = relo.x
            BY <2>2 DEF Machine
        <3> QED
            BY <1>1, <1>4, <1>8, <3>1, <3>2 DEF InBC, X17Loaded
    <2>4. ReturnsAlike'
        BY <1>4, <1>8, <2>3, ReturnsKept DEF InBC, WentTo, Done
    <2>5. InBC(i, 1)'
        BY <1>1, <1>2, <1>4, <1>8, <2>3, <2>4 DEF InBC, WentTo, Done, X17Loaded, relo_in_tramp, is_in_tramp
    <2>6. InBlock(i, 1)'
        BY <1>5, <2>3, <2>5
    <2> QED
        BY <1>1, <2>6, Goes
<1>9. CASE d = 1
    <2>1. relo' = ExecWord(relo, wd[2], taken)
        <3>1. 2 \in 1 .. relo_len(insts[i].op) /\ RELO + o + 1 = RELO + o + 2 - 1
            BY <1>1
        <3> QED
            BY <1>2, <3>1, <1>9, RunsWord
    <2>2. relo' = Machine(relo.pc + 6, relo.x17, relo.x30, relo.x)
        <3>1. ExecWord(relo, Word("b", 6), taken) = Machine(relo.pc + 6, relo.x17, relo.x30, relo.x)
            BY DEF ExecWord, Word, Machine
        <3>2. wd[2] = Word("b", 6)
            BY <1>3 DEF NOP
        <3> QED
            BY <2>1, <3>1, <3>2, Zenon
    <2>3. relo'.pc = RELO + o + 7 /\ relo'.x17 = relo.x17 /\ relo'.x30 = relo.x30 /\ relo'.x = relo.x
        <3>1. relo.pc = RELO + o + 1
            BY <1>1, <1>2, <1>9
        <3>2. relo'.pc = relo.pc + 6 /\ relo'.x17 = relo.x17 /\ relo'.x30 = relo.x30 /\ relo'.x = relo.x
            BY <2>2 DEF Machine
        <3> QED
            BY <1>1, <1>4, <1>9, <3>1, <3>2 DEF InBC, X17Loaded
    <2>4. ReturnsAlike'
        BY <1>4, <1>9, <2>3, ReturnsKept DEF InBC, WentTo, Done
    <2>5. InBC(i, 7)'
        BY <1>1, <1>2, <1>4, <1>9, <2>3, <2>4 DEF InBC, WentTo, Done, X17Loaded, relo_in_tramp, is_in_tramp
    <2>6. InBlock(i, 7)'
        BY <1>5, <2>3, <2>5
    <2> QED
        BY <1>1, <2>6, Goes
<1>10. CASE d = 2
    <2>1. relo' = ExecWord(relo, wd[3], taken)
        <3>1. 3 \in 1 .. relo_len(insts[i].op) /\ RELO + o + 2 = RELO + o + 3 - 1
            BY <1>1
        <3> QED
            BY <1>2, <3>1, <1>10, RunsWord
    <2>2. relo' = Machine(relo.pc + 1, Literal(relo.pc + 2), relo.x30, relo.x)
        <3>1. ExecWord(relo, Word("ldr_x17", 2), taken) = Machine(relo.pc + 1, Literal(relo.pc + 2), relo.x30, relo.x)
            BY DEF ExecWord, Word, Machine
        <3>2. wd[3] = Word("ldr_x17", 2)
            BY <1>3 DEF NOP
        <3> QED
            BY <2>1, <3>1, <3>2, Zenon
    <2>3. relo'.pc = RELO + o + 3 /\ relo'.x17 = v /\ relo'.x30 = relo.x30 /\ relo'.x = relo.x
        <3>1. relo.pc = RELO + o + 2 /\ relo.pc + 2 = RELO + o + 4
            BY <1>1, <1>2, <1>10
        <3>2. relo'.pc = relo.pc + 1 /\ relo'.x17 = Literal(relo.pc + 2) /\ relo'.x30 = relo.x30 /\ relo'.x = relo.x
            BY <2>2 DEF Machine
        <3> QED
            BY <1>1, <1>6, <1>4, <1>10, <3>1, <3>2 DEF InBC, X17Loaded
    <2>4. ReturnsAlike'
        BY <1>4, <1>10, <2>3, ReturnsKept DEF InBC, WentTo, Done
    <2>5. InBC(i, 3)'
        BY <1>1, <1>2, <1>4, <1>10, <2>3, <2>4 DEF InBC, WentTo, Done, X17Loaded, relo_in_tramp, is_in_tramp
    <2>6. InBlock(i, 3)'
        BY <1>5, <2>3, <2>5
    <2> QED
        BY <1>1, <2>6, Goes
<1>11. CASE d = 3
    <2>1. relo' = ExecWord(relo, wd[4], taken)
        <3>1. 4 \in 1 .. relo_len(insts[i].op) /\ RELO + o + 3 = RELO + o + 4 - 1
            BY <1>1
        <3> QED
            BY <1>2, <3>1, <1>11, RunsWord
    <2>2. relo' = Machine(relo.pc + 3, relo.x17, relo.x30, relo.x)
        <3>1. ExecWord(relo, Word("b", 3), taken) = Machine(relo.pc + 3, relo.x17, relo.x30, relo.x)
            BY DEF ExecWord, Word, Machine
        <3>2. wd[4] = Word("b", 3)
            BY <1>3 DEF NOP
        <3> QED
            BY <2>1, <3>1, <3>2, Zenon
    <2>3. relo'.pc = RELO + o + 6 /\ relo'.x17 = relo.x17 /\ relo'.x30 = relo.x30 /\ relo'.x = relo.x
        <3>1. relo.pc = RELO + o + 3
            BY <1>1, <1>2, <1>11
        <3>2. relo'.pc = relo.pc + 3 /\ relo'.x17 = relo.x17 /\ relo'.x30 = relo.x30 /\ relo'.x = relo.x
            BY <2>2 DEF Machine
        <3> QED
            BY <1>1, <1>4, <1>11, <3>1, <3>2 DEF InBC, X17Loaded
    <2>4. ReturnsAlike'
        BY <1>4, <1>11, <2>3, ReturnsKept DEF InBC, WentTo, Done
    <2>5. InBC(i, 6)'
        BY <1>1, <1>2, <1>4, <1>11, <2>3, <2>4 DEF InBC, WentTo, Done, X17Loaded, relo_in_tramp, is_in_tramp
    <2>6. InBlock(i, 6)'
        BY <1>5, <2>3, <2>5
    <2> QED
        BY <1>1, <2>6, Goes
<1>12. CASE d = 6
    <2>1. relo' = ExecWord(relo, wd[7], taken)
        <3>1. 7 \in 1 .. relo_len(insts[i].op) /\ RELO + o + 6 = RELO + o + 7 - 1
            BY <1>1
        <3> QED
            BY <1>2, <3>1, <1>12, RunsWord
    <2>2. relo' = Machine(relo.x17, relo.x17, relo.x30, relo.x)
        <3>1. ExecWord(relo, Word("ret_x17", 0), taken) = Machine(relo.x17, relo.x17, relo.x30, relo.x)
            BY DEF ExecWord, Word, Machine
        <3>2. wd[7] = Word("ret_x17", 0)
            BY <1>3 DEF NOP
        <3> QED
            BY <2>1, <3>1, <3>2, Zenon
    <2>3. relo'.pc = v /\ relo'.x17 = relo.x17 /\ relo'.x30 = relo.x30 /\ relo'.x = relo.x
        <3>1. relo.pc = RELO + o + 6
            BY <1>1, <1>2, <1>12
        <3>2. relo'.pc = relo.x17 /\ relo'.x17 = relo.x17 /\ relo'.x30 = relo.x30 /\ relo'.x = relo.x
            BY <2>2 DEF Machine
        <3> QED
            BY <1>1, <1>4, <1>12, <3>1, <3>2 DEF InBC, X17Loaded
    <2>4. ReturnsAlike'
        BY <1>4, <1>12, <2>3, ReturnsKept DEF InBC, WentTo, Done
    <2>5. WentTo(i)'
        BY <1>2, <1>4, <1>12, <2>3, <2>4 DEF InBC, WentTo
    <2> QED
        BY <2>3, <2>5, Jumped
<1>13. CASE d = 7
    <2>1. relo' = ExecWord(relo, wd[8], taken)
        <3>1. 8 \in 1 .. relo_len(insts[i].op) /\ RELO + o + 7 = RELO + o + 8 - 1
            BY <1>1
        <3> QED
            BY <1>2, <3>1, <1>13, RunsWord
    <2>2. relo' = Machine(relo.pc + 1, relo.x17, relo.x30, relo.x)
        <3>1. ExecWord(relo, Word("nop", 0), taken) = Machine(relo.pc + 1, relo.x17, relo.x30, relo.x)
            BY DEF ExecWord, Word, Machine
        <3>2. wd[8] = Word("nop", 0)
            BY <1>3 DEF NOP
        <3> QED
            BY <2>1, <3>1, <3>2, Zenon
    <2>3. relo'.pc = RELO + o + 8 /\ relo'.x17 = relo.x17 /\ relo'.x30 = relo.x30 /\ relo'.x = relo.x
        <3>1. relo.pc = RELO + o + 7
            BY <1>1, <1>2, <1>13
        <3>2. relo'.pc = relo.pc + 1 /\ relo'.x17 = relo.x17 /\ relo'.x30 = relo.x30 /\ relo'.x = relo.x
            BY <2>2 DEF Machine
        <3> QED
            BY <1>1, <1>4, <1>13, <3>1, <3>2 DEF InBC, X17Loaded
    <2>4. ReturnsAlike'
        BY <1>4, <1>13, <2>3, ReturnsKept DEF InBC, WentTo, Done
    <2>5. Done(i)'
        BY <1>2, <1>4, <1>13, <2>3, <2>4 DEF InBC, Done
    <2>6. relo'.pc = RELO + Offset(insts, i)
        <3> HIDE DEF o
        <3> QED
            BY <1>1, <2>3
    <2>7. RunsAlike' /\ phase' = "orig"
        BY <2>5, <2>6, FallsOn
    <2> QED
        BY <2>7
<1> QED
    BY <1>4, <1>7, <1>8, <1>9, <1>10, <1>11, <1>12, <1>13 DEF InBC

LEMMA RunsBL ==
    ASSUME BufferIs, RELO \in Nat, RELO > 5, ExecRelocated, orig.pc \in Int,
           NEW i \in 1 .. Len(insts), NEW d \in 0 .. 7, InBlock(i, d), insts[i].op = "BL"
    PROVE  RunsAlike' /\ phase' \in {"orig", "relo"}
<1> DEFINE wd == relocate_inst(insts, insts[i])
           o == Offset(insts, i - 1)
           v == relo_in_tramp(insts, insts[i].to)
<1>1. relo_len(insts[i].op) = 8 /\ o \in Nat /\ Offset(insts, i) = o + 8
    <2>1. relo_len(insts[i].op) = 8
        BY DEF relo_len, INST_CBTB, INST_LDR, INST_LDR_SIMD
    <2>2. i - 1 \in 0 .. Len(insts)
        BY BlocksAre
    <2> QED
        BY <2>1, <2>2, BlocksAre
<1>2. insts' = insts /\ orig' = orig /\ taken' = taken /\ relo.pc = RELO + o + d
    BY DEF ExecRelocated, InBlock
<1>3. /\ wd[1] = Word("ldr_x17", 2)
      /\ wd[2] = Word("b", 3)
      /\ wd[3] = Word("lo", v)
      /\ wd[4] = Word("hi", v)
      /\ wd[5] = Word("adr_x30", 0)
      /\ wd[6] = Word("add_x30", 3)
      /\ wd[7] = Word("ret_x17", 0)
      /\ wd[8] = NOP
    BY WordsOfBL DEF Branches
<1>4. InBL(i, d)
    BY DEF InBlock, INST_CBTB
<1>5. ASSUME NEW k \in 0 .. 7, InBL(i, k)', relo'.pc = RELO + o + k PROVE InBlock(i, k)'
    BY <1>2, <1>5 DEF InBlock, INST_CBTB
<1>6. Literal(RELO + o + 2) = v
    <2>1. 3 \in 1 .. relo_len(insts[i].op) /\ 3 + 1 \in 1 .. relo_len(insts[i].op) /\ RELO + o + 2 = RELO + o + 3 - 1
        BY <1>1
    <2> HIDE DEF wd, o, v
    <2> QED
        BY <1>3, <2>1, LiteralAt DEF wd, o, v
<1>7. CASE d = 0
    <2>1. relo' = ExecWord(relo, wd[1], taken)
        <3>1. 1 \in 1 .. relo_len(insts[i].op) /\ RELO + o + 0 = RELO + o + 1 - 1
            BY <1>1
        <3> QED
            BY <1>2, <3>1, <1>7, RunsWord
    <2>2. relo' = Machine(relo.pc + 1, Literal(relo.pc + 2), relo.x30, relo.x)
        <3>1. ExecWord(relo, Word("ldr_x17", 2), taken) = Machine(relo.pc + 1, Literal(relo.pc + 2), relo.x30, relo.x)
            BY DEF ExecWord, Word, Machine
        <3>2. wd[1] = Word("ldr_x17", 2)
            BY <1>3 DEF NOP
        <3> QED
            BY <2>1, <3>1, <3>2, Zenon
    <2>3. relo'.pc = RELO + o + 1 /\ relo'.x17 = v /\ relo'.x30 = relo.x30 /\ relo'.x = relo.x
        <3>1. relo.pc = RELO + o + 0 /\ relo.pc + 2 = RELO + o + 2
            BY <1>1, <1>2, <1>7
        <3>2. relo'.pc = relo.pc + 1 /\ relo'.x17 = Literal(relo.pc + 2) /\ relo'.x30 = relo.x30 /\ relo'.x = relo.x
            BY <2>2 DEF Machine
        <3> QED
            BY <1>1, <1>6, <1>4, <1>7, <3>1, <3>2 DEF InBL, X17Loaded
    <2>4. TRUE
        OBVIOUS
    <2>5. InBL(i, 1)'
        BY <1>1, <1>2, <1>4, <1>7, <2>3, <2>4 DEF InBL, WentTo, Done, X17Loaded, relo_in_tramp, is_in_tramp
    <2>6. InBlock(i, 1)'
        BY <1>5, <2>3, <2>5
    <2> QED
        BY <1>1, <2>6, Goes
<1>8. CASE d = 1
    <2>1. relo' = ExecWord(relo, wd[2], taken)
        <3>1. 2 \in 1 .. relo_len(insts[i].op) /\ RELO + o + 1 = RELO + o + 2 - 1
            BY <1>1
        <3> QED
            BY <1>2, <3>1, <1>8, RunsWord
    <2>2. relo' = Machine(relo.pc + 3, relo.x17, relo.x30, relo.x)
        <3>1. ExecWord(relo, Word("b", 3), taken) = Machine(relo.pc + 3, relo.x17, relo.x30, relo.x)
            BY DEF ExecWord, Word, Machine
        <3>2. wd[2] = Word("b", 3)
            BY <1>3 DEF NOP
        <3> QED
            BY <2>1, <3>1, <3>2, Zenon
    <2>3. relo'.pc = RELO + o + 4 /\ relo'.x17 = relo.x17 /\ relo'.x30 = relo.x30 /\ relo'.x = relo.x
        <3>1. relo.pc = RELO + o + 1
            BY <1>1, <1>2, <1>8
        <3>2. relo'.pc = relo.pc + 3 /\ relo'.x17 = relo.x17 /\ relo'.x30 = relo.x30 /\ relo'.x = relo.x
            BY <2>2 DEF Machine
        <3> QED
            BY <1>1, <1>4, <1>8, <3>1, <3>2 DEF InBL, X17Loaded
    <2>4. TRUE
        OBVIOUS
    <2>5. InBL(i, 4)'
        BY <1>1, <1>2, <1>4, <1>8, <2>3, <2>4 DEF InBL, WentTo, Done, X17Loaded, relo_in_tramp, is_in_tramp
    <2>6. InBlock(i, 4)'
        BY <1>5, <2>3, <2>5
    <2> QED
        BY <1>1, <2>6, Goes
<1>9. CASE d = 4
    <2>1. relo' = ExecWord(relo, wd[5], taken)
        <3>1. 5 \in 1 .. relo_len(insts[i].op) /\ RELO + o + 4 = RELO + o + 5 - 1
            BY <1>1
        <3> QED
            BY <1>2, <3>1, <1>9, RunsWord
    <2>2. relo' = Machine(relo.pc + 1, relo.x17, relo.pc, relo.x)
        <3>1. ExecWord(relo, Word("adr_x30", 0), taken) = Machine(relo.pc + 1, relo.x17, relo.pc, relo.x)
            BY DEF ExecWord, Word, Machine
        <3>2. wd[5] = Word("adr_x30", 0)
            BY <1>3 DEF NOP
        <3> QED
            BY <2>1, <3>1, <3>2, Zenon
    <2>3. relo'.pc = RELO + o + 5 /\ relo'.x17 = relo.x17 /\ relo'.x30 = RELO + o + 4 /\ relo'.x = relo.x
        <3>1. relo.pc = RELO + o + 4
            BY <1>1, <1>2, <1>9
        <3>2. relo'.pc = relo.pc + 1 /\ relo'.x17 = relo.x17 /\ relo'.x30 = relo.pc /\ relo'.x = relo.x
            BY <2>2 DEF Machine
        <3> QED
            BY <1>1, <1>4, <1>9, <3>1, <3>2 DEF InBL, X17Loaded
    <2>4. TRUE
        OBVIOUS
    <2>5. InBL(i, 5)'
        BY <1>1, <1>2, <1>4, <1>9, <2>3, <2>4 DEF InBL, WentTo, Done, X17Loaded, relo_in_tramp, is_in_tramp
    <2>6. InBlock(i, 5)'
        BY <1>5, <2>3, <2>5
    <2> QED
        BY <1>1, <2>6, Goes
<1>10. CASE d = 5
    <2>1. relo' = ExecWord(relo, wd[6], taken)
        <3>1. 6 \in 1 .. relo_len(insts[i].op) /\ RELO + o + 5 = RELO + o + 6 - 1
            BY <1>1
        <3> QED
            BY <1>2, <3>1, <1>10, RunsWord
    <2>2. relo' = Machine(relo.pc + 1, relo.x17, relo.x30 + 3, relo.x)
        <3>1. ExecWord(relo, Word("add_x30", 3), taken) = Machine(relo.pc + 1, relo.x17, relo.x30 + 3, relo.x)
            BY DEF ExecWord, Word, Machine
        <3>2. wd[6] = Word("add_x30", 3)
            BY <1>3 DEF NOP
        <3> QED
            BY <2>1, <3>1, <3>2, Zenon
    <2>3. relo'.pc = RELO + o + 6 /\ relo'.x17 = relo.x17 /\ relo'.x30 = RELO + o + 7 /\ relo'.x = relo.x
        <3>1. relo.pc = RELO + o + 5
            BY <1>1, <1>2, <1>10
        <3>2. relo'.pc = relo.pc + 1 /\ relo'.x17 = relo.x17 /\ relo'.x30 = relo.x30 + 3 /\ relo'.x = relo.x
            BY <2>2 DEF Machine
        <3> QED
            BY <1>1, <1>4, <1>10, <3>1, <3>2 DEF InBL, X17Loaded
    <2>4. TRUE
        OBVIOUS
    <2>5. InBL(i, 6)'
        BY <1>1, <1>2, <1>4, <1>10, <2>3, <2>4 DEF InBL, WentTo, Done, X17Loaded, relo_in_tramp, is_in_tramp
    <2>6. InBlock(i, 6)'
        BY <1>5, <2>3, <2>5
    <2> QED
        BY <1>1, <2>6, Goes
<1>11. CASE d = 6
    <2>1. relo' = ExecWord(relo, wd[7], taken)
        <3>1. 7 \in 1 .. relo_len(insts[i].op) /\ RELO + o + 6 = RELO + o + 7 - 1
            BY <1>1
        <3> QED
            BY <1>2, <3>1, <1>11, RunsWord
    <2>2. relo' = Machine(relo.x17, relo.x17, relo.x30, relo.x)
        <3>1. ExecWord(relo, Word("ret_x17", 0), taken) = Machine(relo.x17, relo.x17, relo.x30, relo.x)
            BY DEF ExecWord, Word, Machine
        <3>2. wd[7] = Word("ret_x17", 0)
            BY <1>3 DEF NOP
        <3> QED
            BY <2>1, <3>1, <3>2, Zenon
    <2>3. relo'.pc = v /\ relo'.x17 = relo.x17 /\ relo'.x30 = relo.x30 /\ relo'.x = relo.x
        <3>1. relo.pc = RELO + o + 6
            BY <1>1, <1>2, <1>11
        <3>2. relo'.pc = relo.x17 /\ relo'.x17 = relo.x17 /\ relo'.x30 = relo.x30 /\ relo'.x = relo.x
            BY <2>2 DEF Machine
        <3> QED
            BY <1>1, <1>4, <1>11, <3>1, <3>2 DEF InBL, X17Loaded
    <2>4. ReturnsAlike'
        BY <1>1, <1>2, <1>4, <1>11, <2>3 DEF InBL, ReturnsAlike
    <2>5. WentTo(i)'
        BY <1>2, <1>4, <1>11, <2>3, <2>4 DEF InBL, WentTo
    <2> QED
        BY <2>3, <2>5, Jumped
<1>12. CASE d = 7
    <2>1. relo' = ExecWord(relo, wd[8], taken)
        <3>1. 8 \in 1 .. relo_len(insts[i].op) /\ RELO + o + 7 = RELO + o + 8 - 1
            BY <1>1
        <3> QED
            BY <1>2, <3>1, <1>12, RunsWord
    <2>2. relo' = Machine(relo.pc + 1, relo.x17, relo.x30, relo.x)
        <3>1. ExecWord(relo, Word("nop", 0), taken) = Machine(relo.pc + 1, relo.x17, relo.x30, relo.x)
            BY DEF ExecWord, Word, Machine
        <3>2. wd[8] = Word("nop", 0)
            BY <1>3 DEF NOP
        <3> QED
            BY <2>1, <3>1, <3>2, Zenon
    <2>3. relo'.pc = RELO + o + 8 /\ relo'.x17 = relo.x17 /\ relo'.x30 = relo.x30 /\ relo'.x = relo.x
        <3>1. relo.pc = RELO + o + 7
            BY <1>1, <1>2, <1>12
        <3>2. relo'.pc = relo.pc + 1 /\ relo'.x17 = relo.x17 /\ relo'.x30 = relo.x30 /\ relo'.x = relo.x
            BY <2>2 DEF Machine
        <3> QED
            BY <1>1, <1>4, <1>12, <3>1, <3>2 DEF InBL, X17Loaded
    <2>4. ReturnsAlike'
        BY <1>4, <1>12, <2>3, ReturnsKept DEF InBL, WentTo, Done
    <2>5. Done(i)'
        BY <1>2, <1>4, <1>12, <2>3, <2>4 DEF InBL, Done
    <2>6. relo'.pc = RELO + Offset(insts, i)
        <3> HIDE DEF o
        <3> QED
            BY <1>1, <2>3
    <2>7. RunsAlike' /\ phase' = "orig"
        BY <2>5, <2>6, FallsOn
    <2> QED
        BY <2>7
<1> QED
    BY <1>4, <1>7, <1>8, <1>9, <1>10, <1>11, <1>12 DEF InBL

LEMMA RunsCBTB ==
    ASSUME BufferIs, RELO \in Nat, RELO > 5, ExecRelocated, orig.pc \in Int,
           NEW i \in 1 .. Len(insts), NEW d \in 0 .. 7, InBlock(i, d), insts[i].op \in INST_CBTB
    PROVE  RunsAlike' /\ phase' \in {"orig", "relo"}
<1> DEFINE wd == relocate_inst(insts, insts[i])
           o == Offset(insts, i - 1)
           v == relo_in_tramp(insts, insts[i].to)
<1>1. relo_len(insts[i].op) = 6 /\ o \in Nat /\ Offset(insts, i) = o + 6
    <2>1. relo_len(insts[i].op) = 6
        BY DEF relo_len, INST_CBTB, INST_LDR, INST_LDR_SIMD
    <2>2. i - 1 \in 0 .. Len(insts)
        BY BlocksAre
    <2> QED
        BY <2>1, <2>2, BlocksAre
<1>2. insts' = insts /\ orig' = orig /\ taken' = taken /\ relo.pc = RELO + o + d
    BY DEF ExecRelocated, InBlock
<1>3. /\ wd[1] = Word("if", 2)
      /\ wd[2] = Word("b", 5)
      /\ wd[3] = Word("ldr_x17", 2)
      /\ wd[4] = Word("ret_x17", 0)
      /\ wd[5] = Word("lo", v)
      /\ wd[6] = Word("hi", v)
    BY WordsOfCBTB DEF Branches
<1>4. InCBTB(i, d)
    BY DEF InBlock, INST_CBTB
<1>5. ASSUME NEW k \in 0 .. 7, InCBTB(i, k)', relo'.pc = RELO + o + k PROVE InBlock(i, k)'
    BY <1>2, <1>5 DEF InBlock, INST_CBTB
<1>6. Literal(RELO + o + 4) = v
    <2>1. 5 \in 1 .. relo_len(insts[i].op) /\ 5 + 1 \in 1 .. relo_len(insts[i].op) /\ RELO + o + 4 = RELO + o + 5 - 1
        BY <1>1
    <2> HIDE DEF wd, o, v
    <2> QED
        BY <1>3, <2>1, LiteralAt DEF wd, o, v
<1>7. CASE d = 0 /\ taken
    <2>1. relo' = ExecWord(relo, wd[1], taken)
        <3>1. 1 \in 1 .. relo_len(insts[i].op) /\ RELO + o + 0 = RELO + o + 1 - 1
            BY <1>1
        <3> QED
            BY <1>2, <3>1, <1>7, RunsWord
    <2>2. relo' = Machine((IF taken THEN relo.pc + 2 ELSE relo.pc + 1), relo.x17, relo.x30, relo.x)
        <3>1. ExecWord(relo, Word("if", 2), taken) = Machine((IF taken THEN relo.pc + 2 ELSE relo.pc + 1), relo.x17, relo.x30, relo.x)
            BY DEF ExecWord, Word, Machine
        <3>2. wd[1] = Word("if", 2)
            BY <1>3 DEF NOP
        <3> QED
            BY <2>1, <3>1, <3>2, Zenon
    <2>3. relo'.pc = RELO + o + 2 /\ relo'.x17 = relo.x17 /\ relo'.x30 = relo.x30 /\ relo'.x = relo.x
        <3>1. relo.pc = RELO + o + 0
            BY <1>1, <1>2, <1>7
        <3>2. relo'.pc = (IF taken THEN relo.pc + 2 ELSE relo.pc + 1) /\ relo'.x17 = relo.x17 /\ relo'.x30 = relo.x30 /\ relo'.x = relo.x
            BY <2>2 DEF Machine
        <3> QED
            BY <1>1, <1>4, <1>7, <3>1, <3>2 DEF InCBTB, X17Loaded
    <2>4. ReturnsAlike'
        BY <1>4, <1>7, <2>3, ReturnsKept DEF InCBTB, WentTo, Done
    <2>5. InCBTB(i, 2)'
        BY <1>1, <1>2, <1>4, <1>7, <2>3, <2>4 DEF InCBTB, WentTo, Done, X17Loaded, relo_in_tramp, is_in_tramp
    <2>6. InBlock(i, 2)'
        BY <1>5, <2>3, <2>5
    <2> QED
        BY <1>1, <2>6, Goes
<1>8. CASE d = 0 /\ ~taken
    <2>1. relo' = ExecWord(relo, wd[1], taken)
        <3>1. 1 \in 1 .. relo_len(insts[i].op) /\ RELO + o + 0 = RELO + o + 1 - 1
            BY <1>1
        <3> QED
            BY <1>2, <3>1, <1>8, RunsWord
    <2>2. relo' = Machine((IF taken THEN relo.pc + 2 ELSE relo.pc + 1), relo.x17, relo.x30, relo.x)
        <3>1. ExecWord(relo, Word("if", 2), taken) = Machine((IF taken THEN relo.pc + 2 ELSE relo.pc + 1), relo.x17, relo.x30, relo.x)
            BY DEF ExecWord, Word, Machine
        <3>2. wd[1] = Word("if", 2)
            BY <1>3 DEF NOP
        <3> QED
            BY <2>1, <3>1, <3>2, Zenon
    <2>3. relo'.pc = RELO + o + 1 /\ relo'.x17 = relo.x17 /\ relo'.x30 = relo.x30 /\ relo'.x = relo.x
        <3>1. relo.pc = RELO + o + 0
            BY <1>1, <1>2, <1>8
        <3>2. relo'.pc = (IF taken THEN relo.pc + 2 ELSE relo.pc + 1) /\ relo'.x17 = relo.x17 /\ relo'.x30 = relo.x30 /\ relo'.x = relo.x
            BY <2>2 DEF Machine
        <3> QED
            BY <1>1, <1>4, <1>8, <3>1, <3>2 DEF InCBTB, X17Loaded
    <2>4. ReturnsAlike'
        BY <1>4, <1>8, <2>3, ReturnsKept DEF InCBTB, WentTo, Done
    <2>5. InCBTB(i, 1)'
        BY <1>1, <1>2, <1>4, <1>8, <2>3, <2>4 DEF InCBTB, WentTo, Done, X17Loaded, relo_in_tramp, is_in_tramp
    <2>6. InBlock(i, 1)'
        BY <1>5, <2>3, <2>5
    <2> QED
        BY <1>1, <2>6, Goes
<1>9. CASE d = 1
    <2>1. relo' = ExecWord(relo, wd[2], taken)
        <3>1. 2 \in 1 .. relo_len(insts[i].op) /\ RELO + o + 1 = RELO + o + 2 - 1
            BY <1>1
        <3> QED
            BY <1>2, <3>1, <1>9, RunsWord
    <2>2. relo' = Machine(relo.pc + 5, relo.x17, relo.x30, relo.x)
        <3>1. ExecWord(relo, Word("b", 5), taken) = Machine(relo.pc + 5, relo.x17, relo.x30, relo.x)
            BY DEF ExecWord, Word, Machine
        <3>2. wd[2] = Word("b", 5)
            BY <1>3 DEF NOP
        <3> QED
            BY <2>1, <3>1, <3>2, Zenon
    <2>3. relo'.pc = RELO + o + 6 /\ relo'.x17 = relo.x17 /\ relo'.x30 = relo.x30 /\ relo'.x = relo.x
        <3>1. relo.pc = RELO + o + 1
            BY <1>1, <1>2, <1>9
        <3>2. relo'.pc = relo.pc + 5 /\ relo'.x17 = relo.x17 /\ relo'.x30 = relo.x30 /\ relo'.x = relo.x
            BY <2>2 DEF Machine
        <3> QED
            BY <1>1, <1>4, <1>9, <3>1, <3>2 DEF InCBTB, X17Loaded
    <2>4. ReturnsAlike'
        BY <1>4, <1>9, <2>3, ReturnsKept DEF InCBTB, WentTo, Done
    <2>5. Done(i)'
        BY <1>2, <1>4, <1>9, <2>3, <2>4 DEF InCBTB, Done
    <2>6. relo'.pc = RELO + Offset(insts, i)
        <3> HIDE DEF o
        <3> QED
            BY <1>1, <2>3
    <2>7. RunsAlike' /\ phase' = "orig"
        BY <2>5, <2>6, FallsOn
    <2> QED
        BY <2>7
<1>10. CASE d = 2
    <2>1. relo' = ExecWord(relo, wd[3], taken)
        <3>1. 3 \in 1 .. relo_len(insts[i].op) /\ RELO + o + 2 = RELO + o + 3 - 1
            BY <1>1
        <3> QED
            BY <1>2, <3>1, <1>10, RunsWord
    <2>2. relo' = Machine(relo.pc + 1, Literal(relo.pc + 2), relo.x30, relo.x)
        <3>1. ExecWord(relo, Word("ldr_x17", 2), taken) = Machine(relo.pc + 1, Literal(relo.pc + 2), relo.x30, relo.x)
            BY DEF ExecWord, Word, Machine
        <3>2. wd[3] = Word("ldr_x17", 2)
            BY <1>3 DEF NOP
        <3> QED
            BY <2>1, <3>1, <3>2, Zenon
    <2>3. relo'.pc = RELO + o + 3 /\ relo'.x17 = v /\ relo'.x30 = relo.x30 /\ relo'.x = relo.x
        <3>1. relo.pc = RELO + o + 2 /\ relo.pc + 2 = RELO + o + 4
            BY <1>1, <1>2, <1>10
        <3>2. relo'.pc = relo.pc + 1 /\ relo'.x17 = Literal(relo.pc + 2) /\ relo'.x30 = relo.x30 /\ relo'.x = relo.x
            BY <2>2 DEF Machine
        <3> QED
            BY <1>1, <1>6, <1>4, <1>10, <3>1, <3>2 DEF InCBTB, X17Loaded
    <2>4. ReturnsAlike'
        BY <1>4, <1>10, <2>3, ReturnsKept DEF InCBTB, WentTo, Done
    <2>5. InCBTB(i, 3)'
        BY <1>1, <1>2, <1>4, <1>10, <2>3, <2>4 DEF InCBTB, WentTo, Done, X17Loaded, relo_in_tramp, is_in_tramp
    <2>6. InBlock(i, 3)'
        BY <1>5, <2>3, <2>5
    <2> QED
        BY <1>1, <2>6, Goes
<1>11. CASE d = 3
    <2>1. relo' = ExecWord(relo, wd[4], taken)
        <3>1. 4 \in 1 .. relo_len(insts[i].op) /\ RELO + o + 3 = RELO + o + 4 - 1
            BY <1>1
        <3> QED
            BY <1>2, <3>1, <1>11, RunsWord
    <2>2. relo' = Machine(relo.x17, relo.x17, relo.x30, relo.x)
        <3>1. ExecWord(relo, Word("ret_x17", 0), taken) = Machine(relo.x17, relo.x17, relo.x30, relo.x)
            BY DEF ExecWord, Word, Machine
        <3>2. wd[4] = Word("ret_x17", 0)
            BY <1>3 DEF NOP
        <3> QED
            BY <2>1, <3>1, <3>2, Zenon
    <2>3. relo'.pc = v /\ relo'.x17 = relo.x17 /\ relo'.x30 = relo.x30 /\ relo'.x = relo.x
        <3>1. relo.pc = RELO + o + 3
            BY <1>1, <1>2, <1>11
        <3>2. relo'.pc = relo.x17 /\ relo'.x17 = relo.x17 /\ relo'.x30 = relo.x30 /\ relo'.x = relo.x
            BY <2>2 DEF Machine
        <3> QED
            BY <1>1, <1>4, <1>11, <3>1, <3>2 DEF InCBTB, X17Loaded
    <2>4. ReturnsAlike'
        BY <1>4, <1>11, <2>3, ReturnsKept DEF InCBTB, WentTo, Done
    <2>5. WentTo(i)'
        BY <1>2, <1>4, <1>11, <2>3, <2>4 DEF InCBTB, WentTo
    <2> QED
        BY <2>3, <2>5, Jumped
<1> QED
    BY <1>4, <1>7, <1>8, <1>9, <1>10, <1>11 DEF InCBTB

LEMMA RunsPRFM ==
    ASSUME BufferIs, RELO \in Nat, RELO > 5, ExecRelocated, orig.pc \in Int,
           NEW i \in 1 .. Len(insts), NEW d \in 0 .. 7, InBlock(i, d), insts[i].op = "PRFM_LIT"
    PROVE  RunsAlike' /\ phase' \in {"orig", "relo"}
<1> DEFINE wd == relocate_inst(insts, insts[i])
           o == Offset(insts, i - 1)
           v == relo_in_tramp(insts, insts[i].to)
<1>1. relo_len(insts[i].op) = 8 /\ o \in Nat /\ Offset(insts, i) = o + 8
    <2>1. relo_len(insts[i].op) = 8
        BY DEF relo_len, INST_CBTB, INST_LDR, INST_LDR_SIMD
    <2>2. i - 1 \in 0 .. Len(insts)
        BY BlocksAre
    <2> QED
        BY <2>1, <2>2, BlocksAre
<1>2. insts' = insts /\ orig' = orig /\ taken' = taken /\ relo.pc = RELO + o + d
    BY DEF ExecRelocated, InBlock
<1>3. /\ wd[1] = Word("push", 0)
      /\ wd[2] = Word("ldr_x17", 4)
      /\ wd[3] = Word("prfm", 0)
      /\ wd[4] = Word("pop_x17", 0)
      /\ wd[5] = Word("b", 4)
    BY WordsOfPRFM DEF Branches
<1>4. InPRFM(i, d)
    BY DEF InBlock, INST_CBTB
<1>5. ASSUME NEW k \in 0 .. 7, InPRFM(i, k)', relo'.pc = RELO + o + k PROVE InBlock(i, k)'
    BY <1>2, <1>5 DEF InBlock, INST_CBTB
<1>7. CASE d = 0
    <2>1. relo' = ExecWord(relo, wd[1], taken)
        <3>1. 1 \in 1 .. relo_len(insts[i].op) /\ RELO + o + 0 = RELO + o + 1 - 1
            BY <1>1
        <3> QED
            BY <1>2, <3>1, <1>7, RunsWord
    <2>2. relo' = Machine(relo.pc + 1, relo.x17, relo.x30, relo.x)
        <3>1. ExecWord(relo, Word("push", 0), taken) = Machine(relo.pc + 1, relo.x17, relo.x30, relo.x)
            BY DEF ExecWord, Word, Machine
        <3>2. wd[1] = Word("push", 0)
            BY <1>3 DEF NOP
        <3> QED
            BY <2>1, <3>1, <3>2, Zenon
    <2>3. relo'.pc = RELO + o + 1 /\ relo'.x17 = relo.x17 /\ relo'.x30 = relo.x30 /\ relo'.x = relo.x
        <3>1. relo.pc = RELO + o + 0
            BY <1>1, <1>2, <1>7
        <3>2. relo'.pc = relo.pc + 1 /\ relo'.x17 = relo.x17 /\ relo'.x30 = relo.x30 /\ relo'.x = relo.x
            BY <2>2 DEF Machine
        <3> QED
            BY <1>1, <1>4, <1>7, <3>1, <3>2 DEF InPRFM, X17Loaded
    <2>4. ReturnsAlike'
        BY <1>4, <1>7, <2>3, ReturnsKept DEF InPRFM, WentTo, Done
    <2>5. InPRFM(i, 1)'
        BY <1>1, <1>2, <1>4, <1>7, <2>3, <2>4 DEF InPRFM, WentTo, Done, X17Loaded, relo_in_tramp, is_in_tramp
    <2>6. InBlock(i, 1)'
        BY <1>5, <2>3, <2>5
    <2> QED
        BY <1>1, <2>6, Goes
<1>8. CASE d = 1
    <2>1. relo' = ExecWord(relo, wd[2], taken)
        <3>1. 2 \in 1 .. relo_len(insts[i].op) /\ RELO + o + 1 = RELO + o + 2 - 1
            BY <1>1
        <3> QED
            BY <1>2, <3>1, <1>8, RunsWord
    <2>2. relo' = Machine(relo.pc + 1, Literal(relo.pc + 4), relo.x30, relo.x)
        <3>1. ExecWord(relo, Word("ldr_x17", 4), taken) = Machine(relo.pc + 1, Literal(relo.pc + 4), relo.x30, relo.x)
            BY DEF ExecWord, Word, Machine
        <3>2. wd[2] = Word("ldr_x17", 4)
            BY <1>3 DEF NOP
        <3> QED
            BY <2>1, <3>1, <3>2, Zenon
    <2>3. relo'.pc = RELO + o + 2 /\ relo'.x17 = Literal(relo.pc + 4) /\ relo'.x30 = relo.x30 /\ relo'.x = relo.x
        <3>1. relo.pc = RELO + o + 1
            BY <1>1, <1>2, <1>8
        <3>2. relo'.pc = relo.pc + 1 /\ relo'.x17 = Literal(relo.pc + 4) /\ relo'.x30 = relo.x30 /\ relo'.x = relo.x
            BY <2>2 DEF Machine
        <3> QED
            BY <1>1, <1>4, <1>8, <3>1, <3>2 DEF InPRFM, X17Loaded
    <2>4. ReturnsAlike'
        BY <1>4, <1>8, <2>3, ReturnsKept DEF InPRFM, WentTo, Done
    <2>5. InPRFM(i, 2)'
        BY <1>1, <1>2, <1>4, <1>8, <2>3, <2>4 DEF InPRFM, WentTo, Done, X17Loaded, relo_in_tramp, is_in_tramp
    <2>6. InBlock(i, 2)'
        BY <1>5, <2>3, <2>5
    <2> QED
        BY <1>1, <2>6, Goes
<1>9. CASE d = 2
    <2>1. relo' = ExecWord(relo, wd[3], taken)
        <3>1. 3 \in 1 .. relo_len(insts[i].op) /\ RELO + o + 2 = RELO + o + 3 - 1
            BY <1>1
        <3> QED
            BY <1>2, <3>1, <1>9, RunsWord
    <2>2. relo' = Machine(relo.pc + 1, relo.x17, relo.x30, relo.x)
        <3>1. ExecWord(relo, Word("prfm", 0), taken) = Machine(relo.pc + 1, relo.x17, relo.x30, relo.x)
            BY DEF ExecWord, Word, Machine
        <3>2. wd[3] = Word("prfm", 0)
            BY <1>3 DEF NOP
        <3> QED
            BY <2>1, <3>1, <3>2, Zenon
    <2>3. relo'.pc = RELO + o + 3 /\ relo'.x17 = relo.x17 /\ relo'.x30 = relo.x30 /\ relo'.x = relo.x
        <3>1. relo.pc = RELO + o + 2
            BY <1>1, <1>2, <1>9
        <3>2. relo'.pc = relo.pc + 1 /\ relo'.x17 = relo.x17 /\ relo'.x30 = relo.x30 /\ relo'.x = relo.x
            BY <2>2 DEF Machine
        <3> QED
            BY <1>1, <1>4, <1>9, <3>1, <3>2 DEF InPRFM, X17Loaded
    <2>4. ReturnsAlike'
        BY <1>4, <1>9, <2>3, ReturnsKept DEF InPRFM, WentTo, Done
    <2>5. InPRFM(i, 3)'
        BY <1>1, <1>2, <1>4, <1>9, <2>3, <2>4 DEF InPRFM, WentTo, Done, X17Loaded, relo_in_tramp, is_in_tramp
    <2>6. InBlock(i, 3)'
        BY <1>5, <2>3, <2>5
    <2> QED
        BY <1>1, <2>6, Goes
<1>10. CASE d = 3
    <2>1. relo' = ExecWord(relo, wd[4], taken)
        <3>1. 4 \in 1 .. relo_len(insts[i].op) /\ RELO + o + 3 = RELO + o + 4 - 1
            BY <1>1
        <3> QED
            BY <1>2, <3>1, <1>10, RunsWord
    <2>2. relo' = Machine(relo.pc + 1, relo.x17, relo.x30, relo.x)
        <3>1. ExecWord(relo, Word("pop_x17", 0), taken) = Machine(relo.pc + 1, relo.x17, relo.x30, relo.x)
            BY DEF ExecWord, Word, Machine
        <3>2. wd[4] = Word("pop_x17", 0)
            BY <1>3 DEF NOP
        <3> QED
            BY <2>1, <3>1, <3>2, Zenon
    <2>3. relo'.pc = RELO + o + 4 /\ relo'.x17 = relo.x17 /\ relo'.x30 = relo.x30 /\ relo'.x = relo.x
        <3>1. relo.pc = RELO + o + 3
            BY <1>1, <1>2, <1>10
        <3>2. relo'.pc = relo.pc + 1 /\ relo'.x17 = relo.x17 /\ relo'.x30 = relo.x30 /\ relo'.x = relo.x
            BY <2>2 DEF Machine
        <3> QED
            BY <1>1, <1>4, <1>10, <3>1, <3>2 DEF InPRFM, X17Loaded
    <2>4. ReturnsAlike'
        BY <1>4, <1>10, <2>3, ReturnsKept DEF InPRFM, WentTo, Done
    <2>5. InPRFM(i, 4)'
        BY <1>1, <1>2, <1>4, <1>10, <2>3, <2>4 DEF InPRFM, WentTo, Done, X17Loaded, relo_in_tramp, is_in_tramp
    <2>6. InBlock(i, 4)'
        BY <1>5, <2>3, <2>5
    <2> QED
        BY <1>1, <2>6, Goes
<1>11. CASE d = 4
    <2>1. relo' = ExecWord(relo, wd[5], taken)
        <3>1. 5 \in 1 .. relo_len(insts[i].op) /\ RELO + o + 4 = RELO + o + 5 - 1
            BY <1>1
        <3> QED
            BY <1>2, <3>1, <1>11, RunsWord
    <2>2. relo' = Machine(relo.pc + 4, relo.x17, relo.x30, relo.x)
        <3>1. ExecWord(relo, Word("b", 4), taken) = Machine(relo.pc + 4, relo.x17, relo.x30, relo.x)
            BY DEF ExecWord, Word, Machine
        <3>2. wd[5] = Word("b", 4)
            BY <1>3 DEF NOP
        <3> QED
            BY <2>1, <3>1, <3>2, Zenon
    <2>3. relo'.pc = RELO + o + 8 /\ relo'.x17 = relo.x17 /\ relo'.x30 = relo.x30 /\ relo'.x = relo.x
        <3>1. relo.pc = RELO + o + 4
            BY <1>1, <1>2, <1>11
        <3>2. relo'.pc = relo.pc + 4 /\ relo'.x17 = relo.x17 /\ relo'.x30 = relo.x30 /\ relo'.x = relo.x
            BY <2>2 DEF Machine
        <3> QED
            BY <1>1, <1>4, <1>11, <3>1, <3>2 DEF InPRFM, X17Loaded
    <2>4. ReturnsAlike'
        BY <1>4, <1>11, <2>3, ReturnsKept DEF InPRFM, WentTo, Done
    <2>5. Done(i)'
        BY <1>2, <1>4, <1>11, <2>3, <2>4 DEF InPRFM, Done
    <2>6. relo'.pc = RELO + Offset(insts, i)
        <3> HIDE DEF o
        <3> QED
            BY <1>1, <2>3
    <2>7. RunsAlike' /\ phase' = "orig"
        BY <2>5, <2>6, FallsOn
    <2> QED
        BY <2>7
<1> QED
    BY <1>4, <1>7, <1>8, <1>9, <1>10, <1>11 DEF InPRFM

LEMMA RunsADR ==
    ASSUME BufferIs, RELO \in Nat, RELO > 5, ExecRelocated, orig.pc \in Int,
           NEW i \in 1 .. Len(insts), NEW d \in 0 .. 7, InBlock(i, d), insts[i].op \in {"ADR", "ADRP"}
    PROVE  RunsAlike' /\ phase' \in {"orig", "relo"}
<1> DEFINE wd == relocate_inst(insts, insts[i])
           o == Offset(insts, i - 1)
           v == relo_in_tramp(insts, insts[i].to)
<1>1. relo_len(insts[i].op) = 4 /\ o \in Nat /\ Offset(insts, i) = o + 4
    <2>1. relo_len(insts[i].op) = 4
        BY DEF relo_len, INST_CBTB, INST_LDR, INST_LDR_SIMD
    <2>2. i - 1 \in 0 .. Len(insts)
        BY BlocksAre
    <2> QED
        BY <2>1, <2>2, BlocksAre
<1>2. insts' = insts /\ orig' = orig /\ taken' = taken /\ relo.pc = RELO + o + d
    BY DEF ExecRelocated, InBlock
<1>3. /\ wd[1] = Word("ldr_xt", 2)
      /\ wd[2] = Word("b", 3)
      /\ wd[3] = Word("lo", insts[i].to)
      /\ wd[4] = Word("hi", insts[i].to)
    BY WordsOfADR DEF Branches
<1>4. InADR(i, d)
    BY DEF InBlock, INST_CBTB
<1>5. ASSUME NEW k \in 0 .. 7, InADR(i, k)', relo'.pc = RELO + o + k PROVE InBlock(i, k)'
    BY <1>2, <1>5 DEF InBlock, INST_CBTB
<1>6. Literal(RELO + o + 2) = insts[i].to
    <2>1. 3 \in 1 .. relo_len(insts[i].op) /\ 3 + 1 \in 1 .. relo_len(insts[i].op) /\ RELO + o + 2 = RELO + o + 3 - 1
        BY <1>1
    <2> HIDE DEF wd, o, v
    <2> QED
        BY <1>3, <2>1, LiteralAt DEF wd, o, v
<1>7. CASE d = 0
    <2>1. relo' = ExecWord(relo, wd[1], taken)
        <3>1. 1 \in 1 .. relo_len(insts[i].op) /\ RELO + o + 0 = RELO + o + 1 - 1
            BY <1>1
        <3> QED
            BY <1>2, <3>1, <1>7, RunsWord
    <2>2. relo' = Machine(relo.pc + 1, relo.x17, relo.x30, <<"addr", Literal(relo.pc + 2)>>)
        <3>1. ExecWord(relo, Word("ldr_xt", 2), taken) = Machine(relo.pc + 1, relo.x17, relo.x30, <<"addr", Literal(relo.pc + 2)>>)
            BY DEF ExecWord, Word, Machine
        <3>2. wd[1] = Word("ldr_xt", 2)
            BY <1>3 DEF NOP
        <3> QED
            BY <2>1, <3>1, <3>2, Zenon
    <2>3. relo'.pc = RELO + o + 1 /\ relo'.x17 = relo.x17 /\ relo'.x30 = relo.x30 /\ relo'.x = <<"addr", insts[i].to>>
        <3>1. relo.pc = RELO + o + 0 /\ relo.pc + 2 = RELO + o + 2
            BY <1>1, <1>2, <1>7
        <3>2. relo'.pc = relo.pc + 1 /\ relo'.x17 = relo.x17 /\ relo'.x30 = relo.x30 /\ relo'.x = <<"addr", Literal(relo.pc + 2)>>
            BY <2>2 DEF Machine
        <3> QED
            BY <1>1, <1>6, <1>4, <1>7, <3>1, <3>2 DEF InADR, X17Loaded
    <2>4. ReturnsAlike'
        BY <1>4, <1>7, <2>3, ReturnsKept DEF InADR, WentTo, Done
    <2>5. InADR(i, 1)'
        BY <1>1, <1>2, <1>4, <1>7, <2>3, <2>4 DEF InADR, WentTo, Done, X17Loaded, relo_in_tramp, is_in_tramp
    <2>6. InBlock(i, 1)'
        BY <1>5, <2>3, <2>5
    <2> QED
        BY <1>1, <2>6, Goes
<1>8. CASE d = 1
    <2>1. relo' = ExecWord(relo, wd[2], taken)
        <3>1. 2 \in 1 .. relo_len(insts[i].op) /\ RELO + o + 1 = RELO + o + 2 - 1
            BY <1>1
        <3> QED
            BY <1>2, <3>1, <1>8, RunsWord
    <2>2. relo' = Machine(relo.pc + 3, relo.x17, relo.x30, relo.x)
        <3>1. ExecWord(relo, Word("b", 3), taken) = Machine(relo.pc + 3, relo.x17, relo.x30, relo.x)
            BY DEF ExecWord, Word, Machine
        <3>2. wd[2] = Word("b", 3)
            BY <1>3 DEF NOP
        <3> QED
            BY <2>1, <3>1, <3>2, Zenon
    <2>3. relo'.pc = RELO + o + 4 /\ relo'.x17 = relo.x17 /\ relo'.x30 = relo.x30 /\ relo'.x = relo.x
        <3>1. relo.pc = RELO + o + 1
            BY <1>1, <1>2, <1>8
        <3>2. relo'.pc = relo.pc + 3 /\ relo'.x17 = relo.x17 /\ relo'.x30 = relo.x30 /\ relo'.x = relo.x
            BY <2>2 DEF Machine
        <3> QED
            BY <1>1, <1>4, <1>8, <3>1, <3>2 DEF InADR, X17Loaded
    <2>4. ReturnsAlike'
        BY <1>4, <1>8, <2>3, ReturnsKept DEF InADR, WentTo, Done
    <2>5. Done(i)'
        BY <1>2, <1>4, <1>8, <2>3, <2>4 DEF InADR, Done
    <2>6. relo'.pc = RELO + Offset(insts, i)
        <3> HIDE DEF o
        <3> QED
            BY <1>1, <2>3
    <2>7. RunsAlike' /\ phase' = "orig"
        BY <2>5, <2>6, FallsOn
    <2> QED
        BY <2>7
<1> QED
    BY <1>4, <1>7, <1>8 DEF InADR

LEMMA RunsOther ==
    ASSUME BufferIs, RELO \in Nat, RELO > 5, ExecRelocated, orig.pc \in Int,
           NEW i \in 1 .. Len(insts), NEW d \in 0 .. 7, InBlock(i, d), insts[i].op \notin Branches \cup {"ADR", "ADRP", "PRFM_LIT"} \cup INST_LDR \cup INST_LDR_SIMD
    PROVE  RunsAlike' /\ phase' \in {"orig", "relo"}
<1> DEFINE wd == relocate_inst(insts, insts[i])
           o == Offset(insts, i - 1)
           v == relo_in_tramp(insts, insts[i].to)
<1>1. relo_len(insts[i].op) = 2 /\ o \in Nat /\ Offset(insts, i) = o + 2
    <2>1. relo_len(insts[i].op) = 2
        BY DEF relo_len, INST_CBTB, INST_LDR, INST_LDR_SIMD, Branches
    <2>2. i - 1 \in 0 .. Len(insts)
        BY BlocksAre
    <2> QED
        BY <2>1, <2>2, BlocksAre
<1>2. insts' = insts /\ orig' = orig /\ taken' = taken /\ relo.pc = RELO + o + d
    BY DEF ExecRelocated, InBlock
<1>3. /\ wd[1] = Word("inst", insts[i].to)
      /\ wd[2] = NOP
    BY WordsOfOther DEF Branches
<1>4. InOther(i, d)
    BY DEF InBlock, INST_CBTB, Branches
<1>5. ASSUME NEW k \in 0 .. 7, InOther(i, k)', relo'.pc = RELO + o + k PROVE InBlock(i, k)'
    BY <1>2, <1>5 DEF InBlock, INST_CBTB, Branches
<1>7. CASE d = 0
    <2>1. relo' = ExecWord(relo, wd[1], taken)
        <3>1. 1 \in 1 .. relo_len(insts[i].op) /\ RELO + o + 0 = RELO + o + 1 - 1
            BY <1>1
        <3> QED
            BY <1>2, <3>1, <1>7, RunsWord
    <2>2. relo' = Machine(relo.pc + 1, relo.x17, relo.x30, <<"inst", insts[i].to>>)
        <3>1. ExecWord(relo, Word("inst", insts[i].to), taken) = Machine(relo.pc + 1, relo.x17, relo.x30, <<"inst", insts[i].to>>)
            BY DEF ExecWord, Word, Machine
        <3>2. wd[1] = Word("inst", insts[i].to)
            BY <1>3 DEF NOP
        <3> QED
            BY <2>1, <3>1, <3>2, Zenon
    <2>3. relo'.pc = RELO + o + 1 /\ relo'.x17 = relo.x17 /\ relo'.x30 = relo.x30 /\ relo'.x = <<"inst", insts[i].to>>
        <3>1. relo.pc = RELO + o + 0
            BY <1>1, <1>2, <1>7
        <3>2. relo'.pc = relo.pc + 1 /\ relo'.x17 = relo.x17 /\ relo'.x30 = relo.x30 /\ relo'.x = <<"inst", insts[i].to>>
            BY <2>2 DEF Machine
        <3> QED
            BY <1>1, <1>4, <1>7, <3>1, <3>2 DEF InOther, X17Loaded
    <2>4. ReturnsAlike'
        BY <1>4, <1>7, <2>3, ReturnsKept DEF InOther, WentTo, Done
    <2>5. InOther(i, 1)'
        BY <1>1, <1>2, <1>4, <1>7, <2>3, <2>4 DEF InOther, WentTo, Done, X17Loaded, relo_in_tramp, is_in_tramp
    <2>6. InBlock(i, 1)'
        BY <1>5, <2>3, <2>5
    <2> QED
        BY <1>1, <2>6, Goes
<1>8. CASE d = 1
    <2>1. relo' = ExecWord(relo, wd[2], taken)
        <3>1. 2 \in 1 .. relo_len(insts[i].op) /\ RELO + o + 1 = RELO + o + 2 - 1
            BY <1>1
        <3> QED
            BY <1>2, <3>1, <1>8, RunsWord
    <2>2. relo' = Machine(relo.pc + 1, relo.x17, relo.x30, relo.x)
        <3>1. ExecWord(relo, Word("nop", 0), taken) = Machine(relo.pc + 1, relo.x17, relo.x30, relo.x)
            BY DEF ExecWord, Word, Machine
        <3>2. wd[2] = Word("nop", 0)
            BY <1>3 DEF NOP
        <3> QED
            BY <2>1, <3>1, <3>2, Zenon
    <2>3. relo'.pc = RELO + o + 2 /\ relo'.x17 = relo.x17 /\ relo'.x30 = relo.x30 /\ relo'.x = relo.x
        <3>1. relo.pc = RELO + o + 1
            BY <1>1, <1>2, <1>8
        <3>2. relo'.pc = relo.pc + 1 /\ relo'.x17 = relo.x17 /\ relo'.x30 = relo.x30 /\ relo'.x = relo.x
            BY <2>2 DEF Machine
        <3> QED
            BY <1>1, <1>4, <1>8, <3>1, <3>2 DEF InOther, X17Loaded
    <2>4. ReturnsAlike'
        BY <1>4, <1>8, <2>3, ReturnsKept DEF InOther, WentTo, Done
    <2>5. Done(i)'
        BY <1>2, <1>4, <1>8, <2>3, <2>4 DEF InOther, Done
    <2>6. relo'.pc = RELO + Offset(insts, i)
        <3> HIDE DEF o
        <3> QED
            BY <1>1, <2>3
    <2>7. RunsAlike' /\ phase' = "orig"
        BY <2>5, <2>6, FallsOn
    <2> QED
        BY <2>7
<1> QED
    BY <1>4, <1>7, <1>8 DEF InOther

-----------------------------------------------------------------------------
(* The jump back. *)

LEMMA RunsTail ==
    ASSUME BufferIs, RELO \in Nat, RELO > 5, ExecRelocated, NEW d \in 0 .. 1, InTail(d)
    PROVE  RunsAlike' /\ phase' \in {"orig", "relo"}
<1> DEFINE n == Len(insts)  o == Offset(insts, n)
<1>1. n \in {4, 5} /\ n \in 0 .. n
    BY BlocksAre
<1>2. o \in Nat /\ RELO + o + 1 \notin Starts /\ InBuffer(RELO + o + 1) /\ Len(buffer) \in Nat
    BY <1>1, BlocksAre
<1>3. /\ insts' = insts /\ orig' = orig /\ taken' = taken /\ buffer' = buffer
      /\ relo.pc = RELO + o + d /\ Done(n)
    BY DEF ExecRelocated, InTail
<1>4. /\ buffer[o + 1] = Word("ldr_x17", 2) /\ buffer[o + 2] = Word("ret_x17", 0)
      /\ buffer[o + 3] = Word("lo", n) /\ buffer[o + 4] = Word("hi", n)
    <2>1. branch_from_to(n) = <<Word("ldr_x17", 2), Word("ret_x17", 0)>> \o <<Word("lo", n), Word("hi", n)>>
        BY DEF branch_from_to, Address
    <2>2. \A k \in 1 .. 4 : buffer[o + k] = branch_from_to(n)[k]
        BY DEF BufferIs
    <2> HIDE DEF n, o
    <2> QED
        BY <2>1, <2>2
<1> HIDE DEF o
<1>5. CASE d = 0
    <2>1. relo.pc = RELO + o /\ relo.pc - RELO + 1 = o + 1
        BY <1>2, <1>3, <1>5
    <2>2. relo' = ExecWord(relo, Word("ldr_x17", 2), taken)
        <3>1. relo' = ExecWord(relo, buffer[relo.pc - RELO + 1], taken)
            BY DEF ExecRelocated
        <3>2. buffer[relo.pc - RELO + 1] = Word("ldr_x17", 2)
            BY <1>4, <2>1, Zenon
        <3> QED
            BY <3>1, <3>2, Zenon
    <2>3. relo' = Machine(relo.pc + 1, Literal(relo.pc + 2), relo.x30, relo.x)
        BY <2>2 DEF ExecWord, Word, Machine
    <2>4. Literal(RELO + o + 2) = n
        <3> DEFINE p == RELO + o + 2
        <3>1. p - RELO + 1 = o + 3 /\ o + 3 + 1 = o + 4
            BY <1>2
        <3>2. buffer[p - RELO + 1] = Word("lo", n) /\ buffer[p - RELO + 1 + 1] = Word("hi", n)
            BY <1>4, <3>1, Zenon
        <3> HIDE DEF p, n
        <3>3. Literal(p) = n
            BY <3>2 DEF Literal, Word
        <3> QED
            BY <3>3 DEF p
    <2>5. relo'.pc = RELO + o + 1 /\ relo'.x17 = n /\ relo'.x30 = relo.x30 /\ relo'.x = relo.x
        <3>1. relo.pc + 1 = RELO + o + 1 /\ relo.pc + 2 = RELO + o + 2
            BY <1>2, <2>1
        <3>2. relo'.pc = relo.pc + 1 /\ relo'.x17 = Literal(relo.pc + 2) /\ relo'.x30 = relo.x30 /\ relo'.x = relo.x
            BY <2>3 DEF Machine
        <3> QED
            BY <2>4, <3>1, <3>2
    <2>6. ReturnsAlike'
        BY <1>3, <2>5, ReturnsKept DEF Done
    <2>7. InTail(1)'
        BY <1>3, <2>5, <2>6 DEF InTail, Done, o
    <2>8. phase' = "relo"
        BY <1>2, <2>5 DEF ExecRelocated
    <2>9. orig'.pc \in Int
        BY <1>1, <1>3 DEF Done
    <2> QED
        BY <2>7, <2>8, <2>9 DEF RunsAlike
<1>6. CASE d = 1
    <2>1. relo.pc = RELO + o + 1 /\ relo.pc - RELO + 1 = o + 2
        BY <1>2, <1>3, <1>6
    <2>2. relo' = ExecWord(relo, Word("ret_x17", 0), taken)
        <3>1. relo' = ExecWord(relo, buffer[relo.pc - RELO + 1], taken)
            BY DEF ExecRelocated
        <3>2. buffer[relo.pc - RELO + 1] = Word("ret_x17", 0)
            BY <1>4, <2>1, Zenon
        <3> QED
            BY <3>1, <3>2, Zenon
    <2>3. relo' = Machine(relo.x17, relo.x17, relo.x30, relo.x)
        BY <2>2 DEF ExecWord, Word, Machine
    <2>4. relo'.pc = n /\ relo'.x30 = relo.x30 /\ relo'.x = relo.x
        BY <1>6, <2>3 DEF Machine, InTail
    <2>5. ReturnsAlike'
        BY <1>3, <2>4, ReturnsKept DEF Done
    <2>6. ~InBuffer(n)
        <3> HIDE DEF n
        <3> QED
            BY <1>1, <1>2 DEF InBuffer
    <2>7. phase' = "orig"
        BY <2>4, <2>6 DEF ExecRelocated
    <2>8. orig.pc = n /\ relo'.x = orig.x
        BY <1>3, <2>4 DEF Done
    <2>9. Agree'
        BY <1>1, <1>3, <2>4, <2>5, <2>8 DEF Agree, Inside
    <2> QED
        BY <1>1, <1>3, <2>7, <2>8, <2>9 DEF RunsAlike
<1> QED
    BY <1>5, <1>6

(* The other steps. *)

LEMMA RelocatedRuns ==
    ASSUME BufferIs, RELO \in Nat, RELO > 5, ExecRelocated, RunsAlike
    PROVE  RunsAlike' /\ phase' \in {"orig", "relo"}
<1>1. orig.pc \in Int
    BY DEF RunsAlike
<1>2. CASE \E i \in 1 .. Len(insts) : \E d \in 0 .. 7 : InBlock(i, d)
    <2>1. PICK i \in 1 .. Len(insts), d \in 0 .. 7 : InBlock(i, d)
        BY <1>2
    <2>2. insts[i].op \notin INST_LDR \cup INST_LDR_SIMD
        BY DEF BufferIs
    <2>3. CASE insts[i].op = "B"
        BY <1>1, <2>1, <2>3, RunsB
    <2>4. CASE insts[i].op = "BC"
        BY <1>1, <2>1, <2>4, RunsBC
    <2>5. CASE insts[i].op = "BL"
        BY <1>1, <2>1, <2>5, RunsBL
    <2>6. CASE insts[i].op \in INST_CBTB
        BY <1>1, <2>1, <2>6, RunsCBTB
    <2>7. CASE insts[i].op = "PRFM_LIT"
        BY <1>1, <2>1, <2>7, RunsPRFM
    <2>8. CASE insts[i].op \in {"ADR", "ADRP"}
        BY <1>1, <2>1, <2>8, RunsADR
    <2>9. CASE insts[i].op \notin Branches \cup {"ADR", "ADRP", "PRFM_LIT"} \cup INST_LDR \cup INST_LDR_SIMD
        BY <1>1, <2>1, <2>9, RunsOther
    <2> QED
        BY <2>2, <2>3, <2>4, <2>5, <2>6, <2>7, <2>8, <2>9 DEF Branches
<1>3. CASE \E d \in 0 .. 1 : InTail(d)
    BY <1>3, RunsTail
<1> QED
    BY <1>2, <1>3 DEF RunsAlike, ExecRelocated

LEMMA OriginalRuns ==
    ASSUME BufferIs, RELO \in Nat, ExecOriginal, RunsAlike
    PROVE  RunsAlike' /\ phase' = "relo"
<1>1. Len(insts) \in {4, 5} /\ orig.pc \in 0 .. Len(insts) - 1
    BY BlocksAre DEF ExecOriginal, Inside
<1>12. PICK i \in 1 .. Len(insts) : i = orig.pc + 1
    BY <1>1
<1>2. i \in 1 .. Len(insts) /\ i - 1 = orig.pc /\ orig.pc \in Int
    BY <1>1, <1>12
<1>3. insts[i] \in Insts /\ insts[i].to \in Int
    <2>1. insts[i] \in Insts
        BY <1>2 DEF BufferIs
    <2> QED
        BY <2>1 DEF Insts
<1>4. relo.x = orig.x /\ ReturnsAlike /\ relo.pc = RELO + Offset(insts, i - 1)
    BY <1>2 DEF ExecOriginal, RunsAlike, Agree
<1>5. relo.pc = RELO + Offset(insts, i - 1) + 0
    <2>1. Offset(insts, i - 1) \in Nat
        BY <1>1, <1>2, BlocksAre
    <2> QED
        BY <1>4, <2>1
<1>6. insts' = insts /\ relo' = relo /\ buffer' = buffer /\ phase' = "relo" /\ phase = "orig"
    BY DEF ExecOriginal
<1> DEFINE inst == insts[i]
           jumps == inst.op \in {"B", "BL"} \/ (taken' /\ inst.op \in {"BC"} \cup INST_CBTB)
<1>7. /\ orig'.pc = IF jumps THEN inst.to ELSE i
      /\ orig'.lr = IF inst.op = "BL" THEN i ELSE orig.lr
      /\ orig'.x = CASE inst.op \in {"ADR", "ADRP"} -> <<"addr", inst.to>>
                     [] inst.op \in INST_LDR \cup INST_LDR_SIMD -> <<"mem", inst.to>>
                     [] inst.op \in {"B", "BL", "BC", "PRFM_LIT"} \cup INST_CBTB -> orig.x
                     [] OTHER -> <<"inst", inst.to>>
    BY <1>12 DEF ExecOriginal
<1>8. inst.op \notin INST_LDR \cup INST_LDR_SIMD
    BY <1>2 DEF BufferIs
<1>9. orig'.pc \in Int
    BY <1>2, <1>3, <1>7
<1>10. inst.op # "BL" => ReturnsAlike'
    BY <1>4, <1>6, <1>7 DEF ReturnsAlike
<1>11. InBlock(i, 0)'
    <2>1. CASE inst.op = "B"
        BY <1>4, <1>5, <1>6, <1>7, <1>10, <2>1 DEF InBlock, InB, WentTo, INST_CBTB, INST_LDR, INST_LDR_SIMD
    <2>2. CASE inst.op = "BC"
        BY <1>4, <1>5, <1>6, <1>7, <1>10, <2>2 DEF InBlock, InBC, WentTo, Done, INST_CBTB, INST_LDR, INST_LDR_SIMD
    <2>3. CASE inst.op = "BL"
        BY <1>4, <1>5, <1>6, <1>7, <2>3 DEF InBlock, InBL, INST_CBTB, INST_LDR, INST_LDR_SIMD
    <2>4. CASE inst.op \in INST_CBTB
        BY <1>4, <1>5, <1>6, <1>7, <1>10, <2>4 DEF InBlock, InCBTB, WentTo, Done, INST_CBTB, INST_LDR, INST_LDR_SIMD
    <2>5. CASE inst.op = "PRFM_LIT"
        BY <1>4, <1>5, <1>6, <1>7, <1>10, <2>5 DEF InBlock, InPRFM, Done, INST_CBTB, INST_LDR, INST_LDR_SIMD
    <2>6. CASE inst.op \in {"ADR", "ADRP"}
        BY <1>4, <1>5, <1>6, <1>7, <1>10, <2>6 DEF InBlock, InADR, INST_CBTB, INST_LDR, INST_LDR_SIMD
    <2>7. CASE inst.op \notin Branches \cup {"ADR", "ADRP", "PRFM_LIT"}
        BY <1>4, <1>5, <1>6, <1>7, <1>8, <1>10, <2>7 DEF InBlock, InOther, Branches, INST_CBTB, INST_LDR, INST_LDR_SIMD
    <2> QED
        BY <2>1, <2>2, <2>3, <2>4, <2>5, <2>6, <2>7 DEF Branches
<1> QED
    BY <1>2, <1>6, <1>9, <1>11 DEF RunsAlike

LEMMA JumpsBack ==
    ASSUME BufferIs, RELO \in Nat, RELO > 5, JumpBack, RunsAlike
    PROVE  RunsAlike' /\ phase' = "relo"
<1> DEFINE n == Len(insts)
<1>1. n \in {4, 5} /\ n \in 0 .. n /\ Offset(insts, n) \in Nat /\ Len(buffer) \in Nat
    BY BlocksAre
<1>2. phase = "orig" /\ orig.pc = n /\ InBuffer(relo.pc) /\ phase' = "relo"
      /\ insts' = insts /\ orig' = orig /\ relo' = relo /\ buffer' = buffer /\ taken' = taken
    BY DEF JumpBack
<1>3. ~InBuffer(n)
    <2> HIDE DEF n
    <2> QED
        BY <1>1 DEF InBuffer
<1>4. relo.pc = RELO + Offset(insts, n) /\ relo.x = orig.x /\ ReturnsAlike
    BY <1>1, <1>2, <1>3 DEF RunsAlike, Agree, Inside
<1>5. InTail(0)
    <2>1. relo.pc = RELO + Offset(insts, n) + 0
        BY <1>1, <1>4
    <2> QED
        BY <1>2, <1>4, <2>1 DEF InTail, Done
<1>6. InTail(0)'
    BY <1>2, <1>5 DEF InTail, Done, ReturnsAlike
<1> QED
    BY <1>1, <1>2, <1>6 DEF RunsAlike

LEMMA Returns ==
    ASSUME BufferIs, RELO \in Nat, Return, RunsAlike,
           DOMAIN orig = {"pc", "x", "lr"}, DOMAIN relo = {"pc", "x", "x17", "x30"}
    PROVE  RunsAlike' /\ phase' = "relo"
<1>1. phase = "orig" /\ orig.lr # 0 /\ insts' = insts /\ buffer' = buffer
    BY DEF Return
<1>9. PICK i \in 1 .. Len(insts) : i = orig.lr
    BY <1>1 DEF RunsAlike, Agree, ReturnsAlike
<1>2. /\ i \in 1 .. Len(insts) /\ insts[i].op = "BL" /\ relo.x30 = RELO + Offset(insts, i - 1) + 7 /\ relo.x = orig.x
    BY <1>1, <1>9 DEF RunsAlike, Agree, ReturnsAlike
<1>3. orig'.pc = i /\ orig'.lr = 0 /\ orig'.x = orig.x
    BY <1>9 DEF Return
<1>4. relo'.pc = relo.x30 /\ relo'.x = relo.x
    BY DEF Return
<1>5. relo.x30 \notin Starts
    <2>1. relo_len(insts[i].op) = 8
        BY <1>2 DEF relo_len, INST_LDR, INST_LDR_SIMD, INST_CBTB
    <2> QED
        BY <1>2, <2>1, BlocksAre
<1>6. phase' = "relo"
    BY <1>5 DEF Return
<1>7. InBlock(i, 7)'
    BY <1>1, <1>2, <1>3, <1>4 DEF InBlock, InBL, Done, ReturnsAlike, INST_CBTB
<1>8. orig'.pc \in Int
    BY <1>2, <1>3
<1> QED
    BY <1>1, <1>2, <1>6, <1>7, <1>8 DEF RunsAlike

-----------------------------------------------------------------------------
(* What hook_prepare() writes. *)

WordOps == {"lo", "hi", "inst", "if", "b", "ldr_x17", "adr_x30", "add_x30", "ret_x17", "ldr_xt", "load_xt",
            "load_x17", "push", "pop_x17", "prfm", "nop"}
Words == [op : WordOps, arg : Int]

LEMMA WordsTyped ==
    ASSUME NEW fn, NEW inst, inst.to \in Int, \A a \in Int : relo_in_tramp(fn, a) \in Int
    PROVE  relocate_inst(fn, inst) \in Seq(Words)
<1> DEFINE v == relo_in_tramp(fn, inst.to)
<1>1. v \in Int
    OBVIOUS
<1>2. /\ <<>> \in Seq(Words)
      /\ Address(v) \in Seq(Words) /\ Address(inst.to) \in Seq(Words)
      /\ <<Word("if", 2), Word("b", 6)>> \in Seq(Words)
      /\ <<Word("ldr_x17", 2), Word("b", 3)>> \in Seq(Words)
      /\ <<Word("adr_x30", 0), Word("add_x30", 3)>> \in Seq(Words)
      /\ <<Word("ret_x17", 0), NOP>> \in Seq(Words)
      /\ <<Word("ldr_xt", 2), Word("b", 3)>> \in Seq(Words)
      /\ <<Word("inst", inst.to), NOP>> \in Seq(Words)
    <2> HIDE DEF v
    <2>1. \A k \in Int : {Word("lo", k), Word("hi", k), Word("inst", k)} \subseteq Words
        BY DEF Word, Words, WordOps
    <2>2. /\ Word("if", 2) \in Words /\ Word("b", 6) \in Words /\ Word("b", 3) \in Words
          /\ Word("ldr_x17", 2) \in Words /\ Word("adr_x30", 0) \in Words /\ Word("add_x30", 3) \in Words
          /\ Word("ret_x17", 0) \in Words /\ Word("ldr_xt", 2) \in Words /\ NOP \in Words
        BY DEF Word, Words, WordOps, NOP
    <2>3. \A a, b \in Words : <<a, b>> \in Seq(Words)
        OBVIOUS
    <2>4. \A k \in Int : Address(k) \in Seq(Words)
        BY <2>1, <2>3 DEF Address
    <2>5. Word("inst", inst.to) \in Words
        BY <2>1
    <2>6. <<>> \in Seq(Words)
        OBVIOUS
    <2>7. Address(v) \in Seq(Words) /\ Address(inst.to) \in Seq(Words)
        BY <1>1, <2>4
    <2> QED
        BY <2>2, <2>3, <2>5, <2>6, <2>7
<1>3. /\ <<Word("ldr_xt", 3), Word("load_xt", 0), Word("b", 4), NOP>> \in Seq(Words)
      /\ <<Word("if", 2), Word("b", 5), Word("ldr_x17", 2), Word("ret_x17", 0)>> \in Seq(Words)
      /\ \A ws \in {Word("prfm", 0), Word("load_x17", 0)} :
            <<Word("push", 0), Word("ldr_x17", 4), ws, Word("pop_x17", 0), Word("b", 4), NOP>> \in Seq(Words)
    <2>1. /\ Word("ldr_xt", 3) \in Words /\ Word("load_xt", 0) \in Words /\ Word("b", 4) \in Words
          /\ Word("if", 2) \in Words /\ Word("b", 5) \in Words /\ Word("ldr_x17", 2) \in Words
          /\ Word("ret_x17", 0) \in Words /\ NOP \in Words
        BY DEF Word, Words, WordOps, NOP
    <2>2. /\ Word("push", 0) \in Words /\ Word("ldr_x17", 4) \in Words /\ Word("pop_x17", 0) \in Words
          /\ Word("prfm", 0) \in Words /\ Word("load_x17", 0) \in Words /\ Word("b", 4) \in Words /\ NOP \in Words
        BY DEF Word, Words, WordOps, NOP
    <2>3. \A a, b, c, d \in Words : <<a, b, c, d>> \in Seq(Words)
        OBVIOUS
    <2>4. \A a, b, c, d, e, f \in Words : <<a, b, c, d, e, f>> \in Seq(Words)
        OBVIOUS
    <2>5. \A ws \in {Word("prfm", 0), Word("load_x17", 0)} : ws \in Words
        BY <2>2
    <2> QED
        BY <2>1, <2>2, <2>3, <2>4, <2>5
<1>4. \A s, t \in Seq(Words) : s \o t \in Seq(Words)
    BY ConcatProperties
<1> HIDE DEF v
<1>5. relo_b(fn, inst) \in Seq(Words)
    <2>1. relo_b(fn, inst) =
             (IF inst.op = "BC" THEN <<Word("if", 2), Word("b", 6)>> ELSE <<>>)
             \o <<Word("ldr_x17", 2), Word("b", 3)>> \o Address(v)
             \o (IF inst.op = "BL" THEN <<Word("adr_x30", 0), Word("add_x30", 3)>> ELSE <<>>)
             \o <<Word("ret_x17", 0), NOP>>
        BY Zenon DEF relo_b, v
    <2> DEFINE a == IF inst.op = "BC" THEN <<Word("if", 2), Word("b", 6)>> ELSE <<>>
               b == IF inst.op = "BL" THEN <<Word("adr_x30", 0), Word("add_x30", 3)>> ELSE <<>>
               p == <<Word("ldr_x17", 2), Word("b", 3)>>
               q == Address(v)
               r == <<Word("ret_x17", 0), NOP>>
    <2>2. a \in Seq(Words) /\ b \in Seq(Words) /\ p \in Seq(Words) /\ q \in Seq(Words) /\ r \in Seq(Words)
        BY <1>2
    <2>3. relo_b(fn, inst) = a \o p \o q \o b \o r
        BY <2>1
    <2> HIDE DEF a, b, p, q, r
    <2>4. a \o p \in Seq(Words)
        BY <1>4, <2>2
    <2>5. a \o p \o q \in Seq(Words)
        BY <1>4, <2>2, <2>4
    <2>6. a \o p \o q \o b \in Seq(Words)
        BY <1>4, <2>2, <2>5
    <2> QED
        BY <1>4, <2>2, <2>3, <2>6
<1>6. relo_adr(fn, inst) \in Seq(Words)
    BY <1>2, <1>4 DEF relo_adr
<1>7. relo_ldr(fn, inst) \in Seq(Words)
    <2> DEFINE ws == IF inst.op = "PRFM_LIT" THEN Word("prfm", 0) ELSE Word("load_x17", 0)
               p == <<Word("push", 0), Word("ldr_x17", 4), ws, Word("pop_x17", 0), Word("b", 4), NOP>>
               q == <<Word("ldr_xt", 3), Word("load_xt", 0), Word("b", 4), NOP>>
    <2>1. p \in Seq(Words) /\ q \in Seq(Words)
        BY <1>3
    <2>2. relo_ldr(fn, inst) = IF inst.op \in INST_LDR THEN q \o Address(v) ELSE p \o Address(v)
        BY Zenon DEF relo_ldr, v
    <2> HIDE DEF p, q
    <2> QED
        BY <1>2, <1>4, <2>1, <2>2
<1>8. relo_cb(fn, inst) \in Seq(Words)
    <2>1. relo_cb(fn, inst) = <<Word("if", 2), Word("b", 5), Word("ldr_x17", 2), Word("ret_x17", 0)>> \o Address(v)
        BY Zenon DEF relo_cb, v
    <2> QED
        BY <1>2, <1>3, <1>4, <2>1
<1>9. relo_ignore(fn, inst) \in Seq(Words)
    BY <1>2 DEF relo_ignore
<1> QED
    BY <1>5, <1>6, <1>7, <1>8, <1>9 DEF relocate_inst, INST_CBTB, INST_LDR, INST_LDR_SIMD

LEMMA WordsLength ==
    ASSUME NEW fn, NEW inst, inst.op \notin INST_LDR \cup INST_LDR_SIMD
    PROVE  Len(relocate_inst(fn, inst)) = relo_len(inst.op)
<1>1. CASE inst.op = "B"
    BY <1>1, WordsOfB DEF relo_len, INST_CBTB, INST_LDR, INST_LDR_SIMD
<1>2. CASE inst.op = "BC"
    BY <1>2, WordsOfBC DEF relo_len, INST_CBTB, INST_LDR, INST_LDR_SIMD
<1>3. CASE inst.op = "BL"
    BY <1>3, WordsOfBL DEF relo_len, INST_CBTB, INST_LDR, INST_LDR_SIMD
<1>4. CASE inst.op \in INST_CBTB
    BY <1>4, WordsOfCBTB DEF relo_len, INST_CBTB, INST_LDR, INST_LDR_SIMD
<1>5. CASE inst.op = "PRFM_LIT"
    BY <1>5, WordsOfPRFM DEF relo_len, INST_CBTB, INST_LDR, INST_LDR_SIMD
<1>6. CASE inst.op \in {"ADR", "ADRP"}
    BY <1>6, WordsOfADR DEF relo_len, INST_CBTB, INST_LDR, INST_LDR_SIMD
<1>7. CASE inst.op \notin Branches \cup {"ADR", "ADRP", "PRFM_LIT"} \cup INST_LDR \cup INST_LDR_SIMD
    <2>1. Len(relocate_inst(fn, inst)) = 2
        BY <1>7, WordsOfOther
    <2> QED
        BY <1>7, <2>1 DEF relo_len, Branches, INST_CBTB, INST_LDR, INST_LDR_SIMD
<1> QED
    BY <1>1, <1>2, <1>3, <1>4, <1>5, <1>6, <1>7 DEF Branches

\* The function's first words tell where they go.
Begins(fn, n, s) ==
    /\ s \in Seq(Insts) /\ Len(s) = n /\ \A i \in 1 .. n : s[i] = fn[i]
    /\ tramp_insts_num(s) = n
    /\ \A i \in 0 .. n : Offset(s, i) = Offset(fn, i)
    /\ \A inst \in Insts : relocate_inst(s, inst) = relocate_inst(fn, inst)

LEMMA FirstWords ==
    ASSUME NEW fn \in Seq(Insts), NEW n \in Nat, n = tramp_insts_num(fn), Len(fn) >= n, NEW s, s = SubSeq(fn, 1, n)
    PROVE  Begins(fn, n, s)
<1>1. s \in Seq(Insts) /\ Len(s) = n /\ \A i \in 1 .. n : s[i] = fn[i]
    BY SubSeqProperties
<1>2. n \in {4, 5}
    BY DEF tramp_insts_num
<1>3. tramp_insts_num(s) = n
    <2>1. s[1] = fn[1]
        BY <1>1, <1>2
    <2> QED
        BY <2>1 DEF tramp_insts_num
<1>4. \A i \in 0 .. n : Offset(s, i) = Offset(fn, i)
    <2> DEFINE I == {i \in 0 .. n : Offset(s, i) = Offset(fn, i)}
    <2>4. /\ Offset(s, 0) = 0
          /\ \A i \in 1 .. n : Offset(s, i) = Offset(s, i - 1) + relo_len(s[i].op)
        BY OffsetIs
    <2>5. /\ Offset(fn, 0) = 0
          /\ \A i \in 1 .. n : Offset(fn, i) = Offset(fn, i - 1) + relo_len(fn[i].op)
        BY OffsetIs
    <2>1. 0 \in I
        BY <2>4, <2>5
    <2>2. ASSUME NEW m \in 0 .. n - 1, m \in I PROVE m + 1 \in I
        <3>1. m + 1 \in 1 .. n /\ m + 1 - 1 = m /\ m + 1 \in 0 .. n
            OBVIOUS
        <3>2. Offset(s, m + 1) = Offset(s, m + 1 - 1) + relo_len(s[m + 1].op)
            BY <3>1, <2>4
        <3>3. Offset(fn, m + 1) = Offset(fn, m + 1 - 1) + relo_len(fn[m + 1].op)
            BY <3>1, <2>5
        <3>4. s[m + 1] = fn[m + 1]
            BY <1>1, <3>1
        <3>5. Offset(s, m) = Offset(fn, m)
            BY <2>2
        <3> QED
            BY <3>1, <3>2, <3>3, <3>4, <3>5
    <2> HIDE DEF I
    <2>3. \A i \in 0 .. n : i \in I
        BY <2>1, <2>2, UpTo
    <2> QED
        BY <2>3 DEF I
<1>5. \A a \in Int : relo_in_tramp(s, a) = relo_in_tramp(fn, a)
    <2> SUFFICES ASSUME NEW a \in Int PROVE relo_in_tramp(s, a) = relo_in_tramp(fn, a)
        OBVIOUS
    <2>1. is_in_tramp(s, a) = is_in_tramp(fn, a)
        BY <1>3 DEF is_in_tramp
    <2>2. is_in_tramp(fn, a) => a \in 0 .. n
        BY <1>2 DEF is_in_tramp
    <2> QED
        BY <1>4, <2>1, <2>2 DEF relo_in_tramp
<1>6. ASSUME NEW inst \in Insts PROVE relocate_inst(s, inst) = relocate_inst(fn, inst)
    <2>1. relo_in_tramp(s, inst.to) = relo_in_tramp(fn, inst.to)
        BY <1>5 DEF Insts
    <2>2. /\ relo_b(s, inst) = relo_b(fn, inst) /\ relo_adr(s, inst) = relo_adr(fn, inst)
          /\ relo_ldr(s, inst) = relo_ldr(fn, inst) /\ relo_cb(s, inst) = relo_cb(fn, inst)
          /\ relo_ignore(s, inst) = relo_ignore(fn, inst)
        BY <2>1, Zenon DEF relo_b, relo_adr, relo_ldr, relo_cb, relo_ignore
    <2> QED
        BY <2>2, Zenon DEF relocate_inst
<1> QED
    BY <1>1, <1>3, <1>4, <1>6 DEF Begins

\* The first of two sequences, in one.
LEMMA Ahead ==
    ASSUME NEW S, NEW s \in Seq(S), NEW t \in Seq(S), NEW k \in 1 .. Len(s)
    PROVE  (s \o t)[k] = s[k] /\ Len(s \o t) = Len(s) + Len(t)
<1>1. Len(s) \in Nat /\ Len(t) \in Nat
    BY LenProperties
<1>2. k \in 1 .. Len(s) + Len(t) /\ k <= Len(s)
    BY <1>1
<1> QED
    BY <1>2, ConcatProperties

LEMMA Prepares ==
    ASSUME RelocateAssumption, NEW fn \in Functions0, hook_prepare(fn), phase' = "orig"
    PROVE  BufferIs' /\ RunsAlike'
<1> DEFINE n == tramp_insts_num(fn)
           S == SubSeq(fn, 1, n)
           blocks == [i \in 1 .. n |-> relocate_inst(fn, fn[i])]
           off == [i \in 0 .. n |-> Offset(fn, i)]
           flat == FlattenSeq(blocks)
           tail == branch_from_to(n)
<1>1. fn \in Seq(Insts) /\ Len(fn) >= n
    BY DEF RelocateAssumption, Insts
<1>2. n \in {4, 5} /\ n \in Nat \ {0} /\ n \in 0 .. n
    BY DEF tramp_insts_num
<1>3. \A i \in 1 .. n : fn[i].op \notin INST_LDR \cup INST_LDR_SIMD /\ fn[i].to \notin RELO .. RELO + 43
    BY DEF RelocateAssumption
<1>4. \A i \in 1 .. n : fn[i] \in Insts /\ fn[i].to \in Int
    <2>1. \A i \in 1 .. n : i \in 1 .. Len(fn)
        BY <1>1, <1>2
    <2>2. \A i \in 1 .. n : fn[i] \in Insts
        BY <1>1, <2>1
    <2> QED
        BY <2>2 DEF Insts
<1>5. /\ insts' = S
      /\ buffer' = flat \o tail
      /\ orig' = [pc |-> 0, x |-> <<"none", 0>>, lr |-> 0]
      /\ relo' = [pc |-> RELO, x |-> <<"none", 0>>, x17 |-> 0, x30 |-> 0]
    BY DEF hook_prepare
<1>6. /\ S \in Seq(Insts) /\ Len(S) = n /\ \A i \in 1 .. n : S[i] = fn[i]
      /\ tramp_insts_num(S) = n
      /\ \A i \in 0 .. n : Offset(S, i) = Offset(fn, i)
      /\ \A inst \in Insts : relocate_inst(S, inst) = relocate_inst(fn, inst)
    <2>1. n \in Nat /\ n = tramp_insts_num(fn) /\ S = SubSeq(fn, 1, n)
        BY <1>2
    <2> HIDE DEF n, S
    <2>2. Begins(fn, n, S)
        BY <1>1, <2>1, FirstWords
    <2> QED
        BY <2>2 DEF Begins
<1>7. /\ Offset(fn, 0) = 0
      /\ \A i \in 1 .. n : Offset(fn, i) = Offset(fn, i - 1) + relo_len(fn[i].op)
      /\ \A i \in 0 .. n : Offset(fn, i) \in Nat
    BY <1>2, OffsetIs
<1>8. \A i \in 1 .. n : blocks[i] \in Seq(Words) /\ Len(blocks[i]) = relo_len(fn[i].op)
    <2>1. \A a \in Int : relo_in_tramp(fn, a) \in Int
        <3> SUFFICES ASSUME NEW a \in Int PROVE relo_in_tramp(fn, a) \in Int
            OBVIOUS
        <3>1. CASE is_in_tramp(fn, a)
            <4>1. a \in 0 .. n
                BY <1>2, <3>1 DEF is_in_tramp
            <4>2. Offset(fn, a) \in Nat
                BY <1>7, <4>1
            <4> QED
                BY <3>1, <4>2 DEF relo_in_tramp, RelocateAssumption
        <3>2. CASE ~is_in_tramp(fn, a)
            BY <3>2 DEF relo_in_tramp
        <3> QED
            BY <3>1, <3>2
    <2> SUFFICES ASSUME NEW i \in 1 .. n PROVE blocks[i] \in Seq(Words) /\ Len(blocks[i]) = relo_len(fn[i].op)
        OBVIOUS
    <2>2. fn[i].to \in Int /\ fn[i].op \notin INST_LDR \cup INST_LDR_SIMD
        BY <1>3, <1>4
    <2>3. relocate_inst(fn, fn[i]) \in Seq(Words)
        BY <2>1, <2>2, WordsTyped
    <2>4. Len(relocate_inst(fn, fn[i])) = relo_len(fn[i].op)
        BY <2>2, WordsLength
    <2> QED
        BY <2>3, <2>4
<1>9. /\ flat \in Seq(Words) /\ Len(flat) = off[n]
      /\ \A i \in 1 .. n : \A d \in 1 .. Len(blocks[i]) : flat[off[i - 1] + d] = blocks[i][d]
    <2>1. blocks \in [1 .. n -> Seq(Words)]
        BY <1>8
    <2>2. off \in [0 .. n -> Nat] /\ off[0] = 0
        <3>1. 0 \in 0 .. n
            BY <1>2
        <3> QED
            BY <1>7, <3>1
    <2>3. \A i \in 1 .. n : i - 1 \in 0 .. n /\ i \in 0 .. n
        BY <1>2
    <2>4. \A i \in 1 .. n : off[i] = off[i - 1] + Len(blocks[i])
        BY <1>7, <1>8, <2>3
    <2>5. n \in Nat \ {0}
        BY <1>2
    <2> HIDE DEF n, blocks, off
    <2>6. Flattened(Words, n, blocks, off)
        BY <2>1, <2>2, <2>4, <2>5, FlattenIs
    <2> QED
        BY <2>6 DEF Flattened
<1>10. tail \in Seq(Words) /\ Len(tail) = 4
    <2>1. n \in Int
        BY <1>2
    <2> HIDE DEF n
    <2>2. Word("ldr_x17", 2) \in Words /\ Word("ret_x17", 0) \in Words /\ Word("lo", n) \in Words /\ Word("hi", n) \in Words
        BY <2>1 DEF Word, Words, WordOps
    <2>3. <<Word("ldr_x17", 2), Word("ret_x17", 0)>> \in Seq(Words) /\ <<Word("lo", n), Word("hi", n)>> \in Seq(Words)
        BY <2>2
    <2>4. Len(<<Word("ldr_x17", 2), Word("ret_x17", 0)>>) = 2 /\ Len(<<Word("lo", n), Word("hi", n)>>) = 2
        OBVIOUS
    <2> QED
        BY <2>3, <2>4, ConcatProperties DEF branch_from_to, Address
<1>11. \A i \in 1 .. n : i - 1 \in 0 .. n /\ i \in 0 .. n
    BY <1>2
<1>12. ASSUME NEW i \in 1 .. n, NEW d \in 1 .. relo_len(fn[i].op)
       PROVE  (flat \o tail)[Offset(fn, i - 1) + d] = relocate_inst(fn, fn[i])[d]
    <2>1. flat[Offset(fn, i - 1) + d] = relocate_inst(fn, fn[i])[d]
        BY <1>8, <1>9, <1>11
    <2>2. Offset(fn, i - 1) + d \in 1 .. Len(flat)
        <3>1. Offset(fn, i) <= Offset(fn, n)
            <4>1. CASE i = n
                BY <1>2, <1>7, <4>1
            <4>2. CASE i # n
                <5>1. i < n /\ i \in 0 .. n /\ n \in Nat
                    BY <1>2, <4>2
                <5>2. Offset(fn, i) + relo_len(fn[i + 1].op) <= Offset(fn, n)
                    <6> HIDE DEF n
                    <6> QED
                        BY <1>2, <5>1, OffsetsOf
                <5>3. relo_len(fn[i + 1].op) \in Nat /\ Offset(fn, i) \in Nat /\ Offset(fn, n) \in Nat
                    <6>1. relo_len(fn[i + 1].op) \in {2, 4, 6, 8}
                        BY Lengths
                    <6>2. Offset(fn, i) \in Nat /\ Offset(fn, n) \in Nat
                        BY <1>2, <1>7, <5>1
                    <6> QED
                        BY <6>1, <6>2
                <5> QED
                    BY <5>2, <5>3
            <4> QED
                BY <4>1, <4>2
        <3>2. Len(flat) = Offset(fn, n)
            BY <1>2, <1>9
        <3>3. Offset(fn, i) = Offset(fn, i - 1) + relo_len(fn[i].op) /\ Offset(fn, i - 1) \in Nat
            BY <1>7, <1>11
        <3>4. relo_len(fn[i].op) \in Nat /\ Offset(fn, n) \in Nat
            <4>1. relo_len(fn[i].op) \in {2, 4, 6, 8}
                BY Lengths
            <4>2. Offset(fn, n) \in Nat
                BY <1>2, <1>7
            <4> QED
                BY <4>1, <4>2
        <3> DEFINE x == Offset(fn, i - 1)  y == Offset(fn, i)  z == Offset(fn, n)  k == relo_len(fn[i].op)
        <3>5. x \in Nat /\ k \in Nat /\ z \in Nat /\ y = x + k /\ y <= z /\ d \in 1 .. k
            BY <3>1, <3>3, <3>4
        <3> HIDE DEF x, y, z, k
        <3>6. x + d \in 1 .. z
            BY <3>5
        <3> QED
            BY <3>2, <3>6 DEF x, z
    <2> HIDE DEF flat, tail, n
    <2> QED
        BY <1>9, <1>10, <2>1, <2>2, Ahead
<1>13. ASSUME NEW d \in 1 .. 4 PROVE (flat \o tail)[Offset(fn, n) + d] = tail[d]
    <2>1. Len(flat) = Offset(fn, n)
        BY <1>2, <1>9
    <2>2. d \in 1 .. Len(tail) /\ flat \in Seq(Words) /\ tail \in Seq(Words)
        BY <1>9, <1>10
    <2> HIDE DEF flat, tail, n
    <2> QED
        BY <2>1, <2>2, Behind
<1>14. Len(flat \o tail) = Offset(fn, n) + 4
    <2>1. Len(flat) = Offset(fn, n)
        BY <1>2, <1>9
    <2>2. Len(flat \o tail) = Len(flat) + Len(tail)
        <3>1. flat \in Seq(Words) /\ tail \in Seq(Words)
            BY <1>9, <1>10
        <3> HIDE DEF flat, tail, n
        <3> QED
            BY <3>1, ConcatProperties
    <2> QED
        BY <1>10, <2>1, <2>2
<1>15. BufferIs'
    <2> HIDE DEF flat, tail, n, S
    <2>1. insts' \in Seq(Insts) /\ Len(insts') = n /\ n = tramp_insts_num(insts')
        BY <1>5, <1>6
    <2>2. \A i \in 1 .. n : insts'[i].op \notin INST_LDR \cup INST_LDR_SIMD /\ insts'[i].to \notin RELO .. RELO + 43
        BY <1>3, <1>5, <1>6
    <2>3. Len(buffer') = Offset(insts', n) + 4
        BY <1>2, <1>5, <1>6, <1>14
    <2>4. \A i \in 1 .. n : \A d \in 1 .. relo_len(insts'[i].op) :
             buffer'[Offset(insts', i - 1) + d] = relocate_inst(insts', insts'[i])[d]
        <3> SUFFICES ASSUME NEW i \in 1 .. n, NEW d \in 1 .. relo_len(insts'[i].op)
                     PROVE  buffer'[Offset(insts', i - 1) + d] = relocate_inst(insts', insts'[i])[d]
            OBVIOUS
        <3>1. insts'[i] = fn[i] /\ Offset(insts', i - 1) = Offset(fn, i - 1) /\ fn[i] \in Insts
            BY <1>4, <1>5, <1>6, <1>11
        <3>2. relocate_inst(insts', insts'[i]) = relocate_inst(fn, fn[i])
            BY <1>5, <1>6, <3>1
        <3>3. (flat \o tail)[Offset(fn, i - 1) + d] = relocate_inst(fn, fn[i])[d]
            BY <1>12, <3>1
        <3> QED
            BY <1>5, <3>1, <3>2, <3>3
    <2>5. \A d \in 1 .. 4 : buffer'[Offset(insts', n) + d] = branch_from_to(n)[d]
        BY <1>2, <1>5, <1>6, <1>13 DEF tail
    <2> QED
        BY <2>1, <2>2, <2>3, <2>4, <2>5 DEF BufferIs
<1>16. RunsAlike'
    <2>1. orig'.pc = 0 /\ orig'.x = <<"none", 0>> /\ orig'.lr = 0 /\ relo'.pc = RELO /\ relo'.x = <<"none", 0>>
        BY <1>5
    <2>2. Offset(insts', 0) = 0 /\ Len(insts') = n
        BY <1>2, <1>5, <1>6, <1>7
    <2>3. RELO \in Nat
        BY DEF RelocateAssumption
    <2>4. ReturnsAlike'
        BY <2>1 DEF ReturnsAlike
    <2>5. Inside'
        BY <1>2, <2>1, <2>2 DEF Inside
    <2>6. Agree'
        BY <2>1, <2>2, <2>3, <2>4, <2>5 DEF Agree
    <2> QED
        BY <2>1, <2>6 DEF RunsAlike
<1> QED
    BY <1>15, <1>16

-----------------------------------------------------------------------------
(* The invariant. *)

RelocateTypes ==
    /\ phase \in {"text", "refused", "orig", "relo"}
    /\ phase \in {"text", "refused"} => Len(buffer) = 0
    /\ DOMAIN orig = {"pc", "x", "lr"} /\ DOMAIN relo = {"pc", "x", "x17", "x30"}

RelocateInv == RelocateTypes /\ (phase \in {"orig", "relo"} => BufferIs /\ RunsAlike)

LEMMA RelocateStep == ASSUME RelocateInv, RelocateNext PROVE RelocateInv'
<1> USE RelocateAssumption
<1>1. RELO \in Nat /\ RELO > 5
    BY DEF RelocateAssumption
<1>2. ASSUME phase = "text", NEW fn \in Functions0, hook_prepare(fn) PROVE RelocateInv'
    <2>1. CASE phase' = "orig"
        <3>1. BufferIs' /\ RunsAlike'
            BY <1>2, <2>1, Prepares
        <3>2. RelocateTypes'
            BY <1>2, <2>1 DEF hook_prepare, RelocateTypes
        <3> QED
            BY <3>1, <3>2 DEF RelocateInv
    <2>2. CASE phase' # "orig"
        <3>1. phase' = "refused" /\ buffer' = buffer /\ orig' = orig /\ relo' = relo
            BY <1>2, <2>2 DEF hook_prepare
        <3> QED
            BY <1>2, <3>1 DEF RelocateInv, RelocateTypes
    <2> QED
        BY <2>1, <2>2
<1>3. ASSUME ExecOriginal PROVE RelocateInv'
    <2>1. BufferIs /\ RunsAlike
        BY <1>3 DEF ExecOriginal, RelocateInv
    <2>2. RunsAlike' /\ phase' = "relo"
        BY <1>1, <1>3, <2>1, OriginalRuns
    <2>3. BufferIs'
        BY <1>3, <2>1 DEF ExecOriginal, BufferIs
    <2>4. RelocateTypes'
        BY <1>3, <2>2 DEF ExecOriginal, RelocateInv, RelocateTypes
    <2> QED
        BY <2>2, <2>3, <2>4 DEF RelocateInv
<1>4. ASSUME ExecRelocated PROVE RelocateInv'
    <2>1. BufferIs /\ RunsAlike
        BY <1>4 DEF ExecRelocated, RelocateInv
    <2>2. RunsAlike' /\ phase' \in {"orig", "relo"}
        BY <1>1, <1>4, <2>1, RelocatedRuns
    <2>3. BufferIs'
        BY <1>4, <2>1 DEF ExecRelocated, BufferIs
    <2>4. RelocateTypes'
        <3>1. DOMAIN relo' = {"pc", "x", "x17", "x30"}
            BY <1>4 DEF ExecRelocated, ExecWord
        <3> QED
            BY <1>4, <2>2, <3>1 DEF ExecRelocated, RelocateInv, RelocateTypes
    <2> QED
        BY <2>2, <2>3, <2>4 DEF RelocateInv
<1>5. ASSUME JumpBack PROVE RelocateInv'
    <2>1. BufferIs /\ RunsAlike
        BY <1>5 DEF JumpBack, RelocateInv
    <2>2. RunsAlike' /\ phase' = "relo"
        BY <1>1, <1>5, <2>1, JumpsBack
    <2>3. BufferIs'
        BY <1>5, <2>1 DEF JumpBack, BufferIs
    <2>4. RelocateTypes'
        BY <1>5, <2>2 DEF JumpBack, RelocateInv, RelocateTypes
    <2> QED
        BY <2>2, <2>3, <2>4 DEF RelocateInv
<1>6. ASSUME Return PROVE RelocateInv'
    <2>1. BufferIs /\ RunsAlike /\ DOMAIN orig = {"pc", "x", "lr"} /\ DOMAIN relo = {"pc", "x", "x17", "x30"}
        BY <1>6 DEF Return, RelocateInv, RelocateTypes
    <2>2. RunsAlike' /\ phase' = "relo"
        BY <1>1, <1>6, <2>1, Returns
    <2>3. BufferIs'
        BY <1>6, <2>1 DEF Return, BufferIs
    <2>4. RelocateTypes'
        BY <1>6, <2>1, <2>2 DEF Return, RelocateTypes
    <2> QED
        BY <2>2, <2>3, <2>4 DEF RelocateInv
<1> QED
    BY <1>2, <1>3, <1>4, <1>5, <1>6 DEF RelocateNext

LEMMA RelocateFaithful == ASSUME RelocateInv PROVE RelocatedFaithful
<1> USE RelocateAssumption
<1>1. CASE phase \in {"text", "refused"}
    BY <1>1 DEF RelocateInv, RelocateTypes, RelocatedFaithful, RELOCATE_INST_NUM
<1>2. CASE phase \in {"orig", "relo"}
    <2>1. BufferIs /\ RunsAlike
        BY <1>2 DEF RelocateInv
    <2>2. phase = "orig" => Agree
        BY <2>1 DEF RunsAlike
    <2>3. Len(buffer) <= RELOCATE_INST_NUM \/ insts[1].op \in INST_PAC
        <3>1. CASE insts[1].op \in INST_PAC
            BY <3>1
        <3>2. CASE insts[1].op \notin INST_PAC
            <4>1. Len(insts) = 4 /\ Len(buffer) = Offset(insts, 4) + 4
                BY <2>1, <3>2 DEF BufferIs, tramp_insts_num
            <4>2. Offset(insts, 4) \in Nat /\ Offset(insts, 4) <= 32
                <5>1. \A i \in 0 .. 4 : Offset(insts, i) \in Nat /\ Offset(insts, i) <= 8 * i
                    BY OffsetsOf
                <5> QED
                    BY <5>1
            <4> QED
                BY <4>1, <4>2 DEF RELOCATE_INST_NUM
        <3> QED
            BY <3>1, <3>2
    <2> QED
        BY <2>2, <2>3 DEF RelocatedFaithful, Agree
<1> QED
    BY <1>1, <1>2 DEF RelocateInv, RelocateTypes

\* The backup of a hooked function, run from its buffer, behaves as the
\* function did: at the same place with the same register whenever a word of
\* the function is done, whatever its first words are, wherever they branch,
\* and wherever the buffer is (relocate_inst(), hook_prepare()).
THEOREM RelocateCorrect == RelocateSpec => []RelocatedFaithful
<1>1. RelocateInit => RelocateInv
    BY DEF RelocateInit, RelocateInv, RelocateTypes
<1>2. RelocateInv /\ [RelocateNext]_relocateVars => RelocateInv'
    <2> SUFFICES ASSUME RelocateInv, [RelocateNext]_relocateVars PROVE RelocateInv'
        OBVIOUS
    <2>1. CASE RelocateNext
        BY <2>1, RelocateStep
    <2>2. CASE UNCHANGED relocateVars
        BY <2>2 DEF relocateVars, RelocateInv, RelocateTypes, BufferIs, RunsAlike, Agree, Inside, ReturnsAlike,
                    InBlock, InB, InBC, InBL, InCBTB, InPRFM, InADR, InOther, InTail, WentTo, Done, X17Loaded
    <2> QED
        BY <2>1, <2>2
<1>3. RelocateInv => RelocatedFaithful
    BY RelocateFaithful
<1> QED
    BY <1>1, <1>2, <1>3, PTL DEF RelocateSpec
=============================================================================
