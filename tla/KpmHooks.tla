------------------------------ MODULE KpmHooks ------------------------------
(***************************************************************************)
(* Hooks of kpm (base/hook.c, base/fphook.c, base/hmem.c): functions whose *)
(* text is patched, pointers that are replaced, and the chains of          *)
(* callbacks that the transit code runs before and after the original.     *)
(*                                                                         *)
(* One thread changes hooks ("todo: lock"), step by step as other code     *)
(* sees it; a caller runs a hooked function meanwhile. A callback stands   *)
(* for its before, after and udata.                                        *)
(***************************************************************************)
EXTENDS Integers, Sequences, FiniteSets, FiniteSetsExt, SequencesExt

CONSTANTS
    Funcs, Pointers,    \* what is hooked by text and what by pointer
    Callbacks,
    SlotNum,            \* slots of the hook memory
    HOOK_CHAIN_NUM,     \* items of a chain (FP_HOOK_CHAIN_NUM is another)
    MaxCalls            \* bound: calls of a hooked function

ASSUME KpmHooksAssumption ==
    /\ Funcs \cap Pointers = {} /\ "none" \notin Callbacks
    /\ SlotNum \in Nat /\ HOOK_CHAIN_NUM \in Nat \ {0} /\ MaxCalls \in Nat

Slots == 1..SlotNum
Items == 1..HOOK_CHAIN_NUM
Origins == Funcs \cup Pointers
Original == 0
NoCallback == "none"

VARIABLES
    mem,        \* hook_mem_warp_t: using, addr, type, what to restore, the chain
    code,       \* text of a function, value of a pointer: Original or a slot's
    w,          \* the thread that changes hooks
    caller,     \* a call of a hooked function
    calls,
    steady      \* items of its chain that have been ready since it began

kpmHooksVars == <<mem, code, w, caller, calls, steady>>

EmptyChain == [max |-> 0, states |-> [i \in Items |-> "EMPTY"], cb |-> [i \in Items |-> NoCallback]]
Unused == [using |-> FALSE, addr |-> NoCallback, type |-> "NONE", saved |-> Original, chain |-> EmptyChain]
NoSteps == [at |-> "idle", slot |-> 0, item |-> 0, cb |-> NoCallback, install |-> FALSE, remove |-> FALSE]

Idle == w.at = "idle"

-----------------------------------------------------------------------------
(* hmem.c *)

FreeSlots == {s \in Slots : ~mem[s].using}

\* hook_mem_zalloc(): the first slot not in use, cleared.
hook_mem_zalloc(s, origin, type) ==
    /\ FreeSlots # {} /\ s = Min(FreeSlots)
    /\ mem' = [mem EXCEPT ![s] = [Unused EXCEPT !.using = TRUE, !.addr = origin, !.type = type,
                                                !.saved = code[origin]]]

\* hook_get_mem_from_origin(): the slot, whatever its type, as a set.
hook_get_mem_from_origin(origin) ==
    LET found == {s \in Slots : mem[s].using /\ mem[s].addr = origin}
    IN  IF found = {} THEN {} ELSE {Min(found)}

-----------------------------------------------------------------------------
(* hook() and unhook() *)

\* hook() looks for no slot of the function. hook_prepare() refuses text that
\* is a trampoline, which reads a literal of its own (KpmRelocate), and may
\* refuse other text; the slot is given back.
hook(f) ==
    /\ Idle
    /\ \E s \in FreeSlots :
          /\ code[f] = Original /\ hook_mem_zalloc(s, f, "INLINE")
          /\ code' = [code EXCEPT ![f] = s]
    /\ UNCHANGED <<w, caller, calls>>

\* Mutant: the slot is given back, the text or pointer stays.
FreedOnly(s, m, c) == [mem |-> [m EXCEPT ![s].using = FALSE], code |-> c]

\* hook_uninstall() and hook_mem_free(), fp_unhook() and hook_mem_free().
Uninstalled(s, m, c) ==
    [mem |-> [m EXCEPT ![s].using = FALSE], code |-> [c EXCEPT ![m[s].addr] = m[s].saved]]

unhook(f) ==
    /\ Idle
    /\ \E s \in hook_get_mem_from_origin(f) :
          LET u == Uninstalled(s, mem, code) IN mem' = u.mem /\ code' = u.code
    /\ UNCHANGED <<w, caller, calls>>

-----------------------------------------------------------------------------
(* hook_wrap(), fp_hook_wrap(): the chain of the origin, or a new one *)

\* The item hook_chain_add() takes: the first that is empty, unless the
\* callback is met before that one.
AddedItem(chain, cb) ==
    LET empty == {i \in Items : chain.states[i] = "EMPTY"}
        known == {i \in Items : chain.cb[i] = cb}
    IN  IF empty = {} \/ \E i \in known : i <= Min(empty) THEN {} ELSE {Min(empty)}

WrapKnown(o, cb) ==
    /\ Idle
    /\ \E s \in hook_get_mem_from_origin(o) : \E i \in AddedItem(mem[s].chain, cb) :
          w' = [NoSteps EXCEPT !.at = "claim", !.slot = s, !.item = i, !.cb = cb]
    /\ UNCHANGED <<mem, code, caller, calls>>

\* The text is patched when the callback is in the chain.
hook_wrap(f, cb) ==
    /\ Idle /\ f \in Funcs /\ hook_get_mem_from_origin(f) = {} /\ code[f] = Original
    /\ \E s \in FreeSlots :
          /\ hook_mem_zalloc(s, f, "INLINE_CHAIN")
          /\ w' = [NoSteps EXCEPT !.at = "claim", !.slot = s, !.item = 1, !.cb = cb, !.install = TRUE]
    /\ UNCHANGED <<code, caller, calls>>

\* The pointer is replaced first; the chain may be empty when it is called.
fp_hook_wrap(p, cb) ==
    /\ Idle /\ p \in Pointers /\ hook_get_mem_from_origin(p) = {}
    /\ \E s \in FreeSlots :
          /\ hook_mem_zalloc(s, p, "FUNCTION_POINTER_CHAIN")
          /\ code' = [code EXCEPT ![p] = s]
          /\ w' = [NoSteps EXCEPT !.at = "claim", !.slot = s, !.item = 1, !.cb = cb]
    /\ UNCHANGED <<caller, calls>>

\* The steps of hook_chain_add(), ordered by its barriers.
AddClaim ==
    /\ w.at = "claim" /\ w' = [w EXCEPT !.at = "fill"]
    /\ mem' = [mem EXCEPT ![w.slot].chain.states[w.item] = "BUSY"]
    /\ UNCHANGED <<code, caller, calls>>

\* Mutant: the end of the chain is always where the last item was added.
FillAndMoveEnd ==
    /\ w.at = "fill" /\ w' = [w EXCEPT !.at = "ready"]
    /\ mem' = [mem EXCEPT ![w.slot].chain.cb[w.item] = w.cb, ![w.slot].chain.max = w.item]
    /\ UNCHANGED <<code, caller, calls>>

AddFill ==
    /\ w.at = "fill" /\ w' = [w EXCEPT !.at = "ready"]
    /\ mem' = [mem EXCEPT ![w.slot].chain.cb[w.item] = w.cb,
                          ![w.slot].chain.max = IF w.item > @ THEN w.item ELSE @]
    /\ UNCHANGED <<code, caller, calls>>

AddReady ==
    /\ w.at = "ready" /\ w' = IF w.install THEN [w EXCEPT !.at = "install"] ELSE NoSteps
    /\ mem' = [mem EXCEPT ![w.slot].chain.states[w.item] = "READY"]
    /\ UNCHANGED <<code, caller, calls>>

\* hook_chain_install()
Install ==
    /\ w.at = "install" /\ w' = NoSteps
    /\ code' = [code EXCEPT ![mem[w.slot].addr] = w.slot]
    /\ UNCHANGED <<mem, caller, calls>>

-----------------------------------------------------------------------------
(* hook_unwrap_remove(), fp_hook_unwrap() *)

\* hook_chain_remove(): the first item that is ready and has the callback.
RemovedItem(chain, cb) ==
    LET has == {i \in Items : chain.states[i] = "READY" /\ chain.cb[i] = cb}
    IN  IF has = {} THEN 0 ELSE Min(has)

\* A pointer's chain is always removed when it is empty.
hook_unwrap_remove(o, cb, remove) ==
    /\ Idle /\ (o \in Pointers => remove)
    /\ \E s \in hook_get_mem_from_origin(o) :
          LET i == RemovedItem(mem[s].chain, cb)
          IN  w' = [NoSteps EXCEPT !.at = IF i = 0 THEN "last" ELSE "busy", !.slot = s, !.item = i,
                                   !.remove = remove]
    /\ UNCHANGED <<mem, code, caller, calls>>

RemoveBusy ==
    /\ w.at = "busy" /\ w' = [w EXCEPT !.at = "clear"]
    /\ mem' = [mem EXCEPT ![w.slot].chain.states[w.item] = "BUSY"]
    /\ UNCHANGED <<code, caller, calls>>

RemoveClear ==
    /\ w.at = "clear" /\ w' = [w EXCEPT !.at = "empty"]
    /\ mem' = [mem EXCEPT ![w.slot].chain.cb[w.item] = NoCallback]
    /\ UNCHANGED <<code, caller, calls>>

RemoveEmpty ==
    /\ w.at = "empty" /\ w' = [w EXCEPT !.at = "last"]
    /\ mem' = [mem EXCEPT ![w.slot].chain.states[w.item] = "EMPTY"]
    /\ UNCHANGED <<code, caller, calls>>

RemoveLast ==
    /\ w.at = "last" /\ w' = NoSteps
    /\ IF w.remove /\ \A i \in Items : mem[w.slot].chain.states[i] = "EMPTY"
       THEN LET u == Uninstalled(w.slot, mem, code) IN mem' = u.mem /\ code' = u.code
       ELSE UNCHANGED <<mem, code>>
    /\ UNCHANGED <<caller, calls>>

-----------------------------------------------------------------------------
(* A call: the transit code of a chain. befores and afters are the items    *)
(* whose callbacks ran.                                                     *)

NoCall == [at |-> "idle", slot |-> 0, item |-> 0, befores |-> <<>>, afters |-> <<>>]

Call(o) ==
    /\ caller.at = "idle" /\ calls < MaxCalls /\ calls' = calls + 1
    /\ code[o] # Original /\ mem[code[o]].type # "INLINE"
    /\ caller' = [NoCall EXCEPT !.at = "before", !.slot = code[o], !.item = 1]
    /\ UNCHANGED <<mem, code, w>>

Chain == mem[caller.slot].chain

\* The loop before the original: the state is read, and then the callback.
BeforeTest ==
    /\ caller.at = "before"
    /\ caller' = IF caller.item > Chain.max THEN [caller EXCEPT !.at = "origin"]
                 ELSE IF Chain.states[caller.item] # "READY" THEN [caller EXCEPT !.item = @ + 1]
                 ELSE [caller EXCEPT !.at = "callbefore"]
    /\ UNCHANGED <<mem, code, w, calls>>

BeforeCall ==
    /\ caller.at = "callbefore"
    /\ caller' = [caller EXCEPT !.at = "before", !.item = @ + 1,
                     !.befores = IF Chain.cb[caller.item] = NoCallback THEN @ ELSE Append(@, caller.item)]
    /\ UNCHANGED <<mem, code, w, calls>>

\* The original is called, or skipped if a callback says so.
OriginCall ==
    /\ caller.at = "origin" /\ caller' = [caller EXCEPT !.at = "after", !.item = Chain.max]
    /\ UNCHANGED <<mem, code, w, calls>>

AfterTest ==
    /\ caller.at = "after"
    /\ caller' = IF caller.item = 0 THEN NoCall
                 ELSE IF Chain.states[caller.item] # "READY" THEN [caller EXCEPT !.item = @ - 1]
                 ELSE [caller EXCEPT !.at = "callafter"]
    /\ UNCHANGED <<mem, code, w, calls>>

AfterCall ==
    /\ caller.at = "callafter"
    /\ caller' = [caller EXCEPT !.at = "after", !.item = @ - 1,
                     !.afters = IF Chain.cb[caller.item] = NoCallback THEN @ ELSE Append(@, caller.item)]
    /\ UNCHANGED <<mem, code, w, calls>>

-----------------------------------------------------------------------------
KpmHooksInit ==
    /\ mem = [s \in Slots |-> Unused] /\ code = [o \in Origins |-> Original]
    /\ w = NoSteps /\ caller = NoCall /\ calls = 0 /\ steady = {}

Change ==
    \/ \E f \in Funcs : hook(f) \/ unhook(f)
    \/ \E cb \in Callbacks, o \in Origins :
          \/ WrapKnown(o, cb) \/ hook_wrap(o, cb) \/ fp_hook_wrap(o, cb)
          \/ \E r \in BOOLEAN : hook_unwrap_remove(o, cb, r)
    \/ AddClaim \/ AddFill \/ AddReady \/ Install
    \/ RemoveBusy \/ RemoveClear \/ RemoveEmpty \/ RemoveLast

Run == (\E o \in Origins : Call(o)) \/ BeforeTest \/ BeforeCall \/ OriginCall \/ AfterTest \/ AfterCall

Ready(m, s) == {i \in Items : m[s].using /\ m[s].chain.states[i] = "READY"}

\* An item that leaves READY, or whose slot is given back, is not steady.
Watch ==
    steady' = IF calls' # calls THEN Ready(mem, caller'.slot)
              ELSE IF caller'.at = "idle" THEN {}
              ELSE steady \cap Ready(mem', caller.slot)

KpmHooksNext == (Change \/ Run) /\ Watch

KpmHooksSpec == KpmHooksInit /\ [][KpmHooksNext]_kpmHooksVars

-----------------------------------------------------------------------------
\* Text is patched, and a pointer replaced, for exactly one slot in use of
\* that origin, and for none when the last one is gone: hook(), hook_wrap(),
\* fp_hook_wrap() and their undoing, mixed on one function (hook() looks for no
\* slot, hook_wrap() for no type), never lose a slot or the original, and a
\* slot that others may get is never called.
HookTextExact ==
    \A o \in Origins :
        LET used == {s \in Slots : mem[s].using /\ mem[s].addr = o}
        IN  /\ Cardinality(used) <= 1
            /\ code[o] # Original => used = {code[o]} /\ mem[code[o]].saved = Original
            /\ Idle /\ used # {} => code[o] # Original

\* While callbacks come and go, a call runs each callback that is in the chain
\* all the time before the original and after it, the second time in the
\* opposite order, and no item of the chain twice.
MirrorCalls ==
    [][caller.at # "idle" /\ caller'.at = "idle" =>
         /\ steady \subseteq Range(caller.befores) \cap Range(caller.afters)
         /\ \A i, j \in DOMAIN caller.befores : i < j => caller.befores[i] < caller.befores[j]
         /\ \A i, j \in DOMAIN caller.afters : i < j => caller.afters[i] > caller.afters[j]]_kpmHooksVars
=============================================================================
