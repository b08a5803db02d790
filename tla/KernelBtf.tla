------------------------------ MODULE KernelBtf ------------------------------
(***************************************************************************)
(* The reader of a kernel's BTF (lkm_image_btf.rs): it checks a blob and   *)
(* takes from it where struct load_info has hdr and len, which the         *)
(* bootstrap of LkmImage writes into a load_info of its own.               *)
(*                                                                         *)
(* A blob is the numbers of its header and its types: [kind, name, ref,    *)
(* size, elems], with a number for what BTF calls size_or_type and one     *)
(* element [name, ref, at] for each member, parameter or array dimension.  *)
(* A name is a string, or "" for one that is not in the string section.    *)
(* Lengths count the records of a type: one for its header and one for     *)
(* each element. Offsets of members are in bits.                           *)
(***************************************************************************)
EXTENDS Integers, Sequences, FiniteSets, FiniteSetsExt, SequencesExt

CONSTANT Blobs      \* the blobs of the instance

VARIABLES
    blob,
    bstep,      \* raw, parsed, used or refused
    layout      \* {} or the one layout of load_info that was found

btfVars == <<blob, bstep, layout>>

BTF_HEADER_SIZE == 2
ARM64_POINTER_SIZE == 8

Modifiers == {"TYPEDEF", "VOLATILE", "CONST", "RESTRICT", "TYPE_TAG"}
Referring == Modifiers \cup {"PTR", "FUNC", "FUNC_PROTO", "VAR", "DECL_TAG"}
Sized == {"INT", "STRUCT", "UNION", "ENUM", "FLOAT", "ENUM64"}
Kinds == Referring \cup Sized \cup {"ARRAY", "FWD", "DATASEC"}

ranges_overlap(a, aEnd, b, bEnd) == Max({a, b}) < Min({aEnd, bEnd})

\* Records that a type takes; the kinds without elements have none.
payload_size(t) == IF t.kind \in {"ARRAY", "STRUCT", "UNION", "DATASEC", "ENUM", "ENUM64", "FUNC_PROTO"}
                   THEN Len(t.elems) ELSE 0

TypesLength(types) == FoldLeft(LAMBDA n, t : n + 1 + payload_size(t), 0, types)

type_by_id(types, id) == IF id \in DOMAIN types THEN {types[id]} ELSE {}
valid_type_id(types, id) == id = 0 \/ id \in DOMAIN types

validate_references(types) ==
    \A t \in {types[i] : i \in DOMAIN types} :
        /\ t.name # ""
        /\ t.kind \in Referring => valid_type_id(types, t.ref)
        /\ \A i \in DOMAIN t.elems :
              /\ t.kind \in {"ARRAY", "STRUCT", "UNION", "FUNC_PROTO"} => valid_type_id(types, t.elems[i].ref)
              /\ t.kind \in {"STRUCT", "UNION", "ENUM", "FUNC_PROTO", "ENUM64"} => t.elems[i].name # ""
              /\ t.kind = "DATASEC" => \E v \in type_by_id(types, t.elems[i].ref) : v.kind = "VAR"
        /\ t.kind = "FUNC" => \E p \in type_by_id(types, t.ref) : p.kind = "FUNC_PROTO"

\* Sections behind the header, not overlapping, inside the data, and types
\* that fill theirs exactly.
parse ==
    LET h == blob.header
        end == h.length
        typesEnd == end + h.typeAt + h.typeLength
        stringsEnd == end + h.stringsAt + h.stringsLength
    IN  /\ bstep = "raw"
        /\ bstep' = IF /\ h.magic /\ end >= BTF_HEADER_SIZE
                       /\ typesEnd <= h.data /\ stringsEnd <= h.data
                       /\ h.stringsLength # 0
                       /\ ~ranges_overlap(end + h.typeAt, typesEnd, end + h.stringsAt, stringsEnd)
                       /\ \A i \in DOMAIN blob.types : blob.types[i].kind \in Kinds
                       /\ TypesLength(blob.types) = h.typeLength
                       /\ validate_references(blob.types)
                    THEN "parsed" ELSE "refused"
        /\ UNCHANGED <<blob, layout>>

\* The type behind typedefs and qualifiers; a cycle has none.
strip_modifiers(types, id) ==
    LET at[n \in 0..Len(types)] ==
            IF n = 0 THEN id
            ELSE IF \E t \in type_by_id(types, at[n - 1]) : t.kind \in Modifiers
                 THEN types[at[n - 1]].ref ELSE at[n - 1]
        end == at[Len(types) - 1]
    IN  IF \E t \in type_by_id(types, end) : t.kind \in Modifiers THEN {} ELSE {end}

\* Arrays may nest to a depth of 64, here 4.
MaxDepth == 4
type_size(types, id) ==
    LET size[d \in 0..(MaxDepth + 1)] ==
            [i \in DOMAIN types \cup {0} |->
                IF d = 0 THEN {}
                ELSE UNION {LET t == types[s] IN
                            CASE t.kind \in Sized -> {t.size}
                              [] t.kind = "PTR" -> {ARM64_POINTER_SIZE}
                              [] t.kind = "ARRAY" -> {n * t.size : n \in size[d - 1][t.elems[1].ref]}
                              [] OTHER -> {} :
                            s \in strip_modifiers(types, i) \ {0}}]
    IN  size[MaxDepth + 1][id]

points_to_named_struct(types, id, name) ==
    \E s \in strip_modifiers(types, id) \ {0} :
        /\ types[s].kind = "PTR"
        /\ \E p \in strip_modifiers(types, types[s].ref) \ {0} : types[p].kind = "STRUCT" /\ types[p].name = name

\* The offset in bytes of a member that is not a bit field.
member_offset(m) == IF m.at % 8 = 0 /\ ~m.bits THEN {m.at \div 8} ELSE {}

Named(types, kind, name) == {types[i] : i \in {j \in DOMAIN types : types[j].kind = kind /\ types[j].name = name}}

Members(struct, name) == {m \in {struct.elems[i] : i \in DOMAIN struct.elems} : m.name = name}

\* The last member of a name counts.
LastMember(struct, name) ==
    struct.elems[Max({i \in DOMAIN struct.elems : struct.elems[i].name = name})]

\* The usable structs named load_info, and whether each member is sound.
load_info_layout(types) ==
    LET structs == Named(types, "STRUCT", "load_info")
        usable == {s \in structs : Members(s, "hdr") # {} /\ Members(s, "len") # {}}
        sound == \A s \in structs : \A m \in Members(s, "hdr") \cup Members(s, "len") :
                     /\ type_size(types, m.ref) = {ARM64_POINTER_SIZE}
                     /\ member_offset(m) # {}
        found == {[size |-> s.size, hdr |-> LastMember(s, "hdr").at \div 8, len |-> LastMember(s, "len").at \div 8] :
                      s \in usable}
        inside == \A l \in found : l.hdr + ARM64_POINTER_SIZE <= l.size /\ l.len + ARM64_POINTER_SIZE <= l.size
    IN  [good |-> structs = {} \/ (sound /\ inside /\ Cardinality(found) = 1), layouts |-> found]

Arity == [load_module |-> 3, vmalloc |-> 1, memcpy |-> 3]

validate_function_abis(types) ==
    \A name \in DOMAIN Arity : \A f \in Named(types, "FUNC", name) :
        LET proto == types[f.ref] IN
        /\ Len(proto.elems) = Arity[name]
        /\ name = "load_module" => points_to_named_struct(types, proto.elems[1].ref, "load_info")

to_kernel_btf ==
    LET found == load_info_layout(blob.types) IN
    /\ bstep = "parsed"
    /\ IF found.good /\ validate_function_abis(blob.types)
       THEN bstep' = "used" /\ layout' = found.layouts
       ELSE bstep' = "refused" /\ UNCHANGED layout
    /\ UNCHANGED blob

BtfInit == blob \in Blobs /\ bstep = "raw" /\ layout = {}
BtfNext == parse \/ to_kernel_btf

-----------------------------------------------------------------------------
(* What a compiler means by the types. *)

\* What is reached from a type by n steps through modifiers.
Behind(types, id) ==
    LET reach[n \in 0..Len(types)] ==
            IF n = 0 THEN {id}
            ELSE reach[n - 1] \cup {types[i].ref : i \in {j \in reach[n - 1] \cap DOMAIN types : types[j].kind \in Modifiers}}
    IN  {i \in reach[Len(types)] \cap DOMAIN types : types[i].kind \notin Modifiers}

Eight(types, id) ==
    \E i \in Behind(types, id) :
        \/ types[i].kind = "PTR"
        \/ types[i].kind \in Sized /\ types[i].size = 8
        \/ /\ types[i].kind = "ARRAY"
           /\ \E j \in Behind(types, types[i].elems[1].ref) :
                 \/ types[j].kind = "PTR" /\ types[i].size = 1
                 \/ types[j].kind \in Sized /\ types[j].size * types[i].size = 8
                 \/ types[j].kind = "ARRAY"

\* A layout that is used is the one of the kernel's struct load_info: hdr and
\* len are eight bytes each, through all typedefs and arrays, at those offsets
\* and inside the struct, and no other struct of that name disagrees.
LoadInfoExact ==
    LET structs == Named(blob.types, "STRUCT", "load_info") IN
    /\ bstep = "used" => \A l \in layout : \A s \in structs :
          (\E m \in Members(s, "hdr"), n \in Members(s, "len") : TRUE) =>
              /\ \E m \in Members(s, "hdr") : m.at = 8 * l.hdr /\ Eight(blob.types, m.ref)
              /\ \E m \in Members(s, "len") : m.at = 8 * l.len /\ Eight(blob.types, m.ref)
              /\ s.size = l.size /\ {l.hdr + 8, l.len + 8} \subseteq 0..s.size
    /\ bstep = "used" /\ structs # {} => Cardinality(layout) = 1
=============================================================================
