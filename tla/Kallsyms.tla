------------------------------ MODULE Kallsyms ------------------------------
(***************************************************************************)
(* The symbol table that ksud recovers from a kernel Image in order to     *)
(* patch it (lkm_image.rs): it looks for a kallsyms token table, for the   *)
(* names before it, and for the addresses where each of the two layouts    *)
(* keeps them, and accepts a table that is the only one, or the only one   *)
(* whose BTF symbols delimit a BTF blob of the Image.                      *)
(*                                                                         *)
(* The Image is a sequence of cells, offset 0 first. A cell is a byte, or  *)
(* a u16, u32 or u64 where the code reads one; the constants of the format *)
(* are scaled to that: an aligned unit is two cells, a marker stands for   *)
(* two names, there are eight tokens, and 4 is the bit that continues a    *)
(* length. A character is the number of the token that it is alone.        *)
(***************************************************************************)
EXTENDS Integers, Sequences, FiniteSets, FiniteSetsExt, SequencesExt

VARIABLES
    kernel,     \* the Image, and what its builder put there
    kstep,      \* how far it is: header, names, match, done or refused
    tables,     \* token tables with the names found before each
    candidates, \* complete tables
    recovered   \* the result: addresses and names

kallsymsVars == <<kernel, kstep, tables, candidates, recovered>>

\* KALLSYMS_ALIGNMENT, KALLSYMS_TOKEN_COUNT, KALLSYMS_MAX_TOKEN_LENGTH, the
\* 256 names of a marker, and the distances that two markers may have.
Align == 2
TokenCount == 8
MaxToken == 3
PerMarker == 2
Deltas == 4..20
MinMarkers == 2

\* 0x80, and the number of bytes.
More == 4
Byte == 0..7

\* The sign bit of a u32 offset.
Sign == 1000

\* Characters: T, the digits, a letter, the mark of a compiler's suffix, and
\* the kind of an absolute symbol.
T == 1
Digits == <<2, 3>>
Letter == 4
Suffix == 5
Absolute == 6
Self == {T, 2, 3, Letter}

_text == <<2>>
_end == <<3>>
load_module == <<Letter>>
__start_BTF == <<2, Letter>>
__stop_BTF == <<3, Letter>>

\* Header cells of the Image and of a BTF blob.
ImageMagic == 777
BtfMagic == 888

align_up(n) == n + (n % Align)

Has(im, from, n) == from >= 0 /\ from + n <= Len(im)
Cell(im, at) == im[at + 1]
Slice(im, from, to) == SubSeq(im, from + 1, to)
ZeroBetween(im, from, to) ==
    /\ from <= to /\ to <= Len(im)
    /\ \A at \in from..(to - 1) : Cell(im, at) = 0

\* The offsets of the tokens, and of the end; -1 from the first bad one on.
TokenStarts(im, start) ==
    LET Ends(from) == {at \in from..(from + MaxToken) : at < Len(im) /\ Cell(im, at) = 0}
        next(from) == IF Ends(from) = {} \/ Cell(im, from) = 0 THEN -1 ELSE Min(Ends(from)) + 1
        s[i \in 0..TokenCount] ==
            IF i = 0 THEN start ELSE IF s[i - 1] = -1 THEN -1 ELSE next(s[i - 1])
    IN  s

\* The token table at start, if there is one whose digits are at digit.
parse_kallsyms_token_table_at(im, start, digit) ==
    LET s == TokenStarts(im, start)
        token == [i \in 0..(TokenCount - 1) |-> Slice(im, s[i], s[i + 1] - 1)]
        index == align_up(s[TokenCount])
        good ==
            /\ start % Align = 0
            /\ s[TokenCount] # -1
            /\ \A i \in DOMAIN token : Range(token[i]) \subseteq Byte
            /\ s[Digits[1]] = digit
            /\ \A c \in Self : token[c] = <<c>>
            /\ ZeroBetween(im, s[TokenCount], index)
            /\ Has(im, index, TokenCount)
            /\ \A i \in DOMAIN token : Cell(im, index + i) = s[i] - start
    IN  IF good THEN {[tokens |-> token, start |-> start, index |-> index]} ELSE {}

find_kallsyms_token_tables(im) ==
    LET digits == FoldLeft(LAMBDA done, d : done \o <<d, 0>>, <<>>, Digits)
        found == {at \in 0..(Len(im) - Len(digits)) : Slice(im, at, at + Len(digits)) = digits}
    IN  UNION {parse_kallsyms_token_table_at(im, start, digit) :
                   <<start, digit>> \in {p \in (0..Len(im)) \X found :
                       p[1] \in (p[2] - Digits[1] * (MaxToken + 1))..p[2]}}

\* The longest run of markers at start, in front of limit.
read_kallsyms_markers(im, start, limit) ==
    LET run(n) ==
            /\ start + n <= limit
            /\ Cell(im, start) = 0
            /\ \A i \in 1..(n - 1) : Cell(im, start + i) - Cell(im, start + i - 1) \in Deltas
        long == {n \in MinMarkers..(limit - start) : run(n)}
    IN  IF long = {} THEN <<>> ELSE Slice(im, start, start + Max(long))

\* Where the name at offset from begins, how long it is: a set of at most one.
NameAt(im, from, limit, uleb) ==
    LET first == Cell(im, from)
        wide == uleb /\ first >= More
        high == Cell(im, from + 1)
        at == IF wide THEN from + 2 ELSE from + 1
        length == IF wide THEN (first % More) + (high * More) ELSE first
        good ==
            /\ from < limit
            /\ wide => from + 1 < limit /\ high < More
            /\ length > 0
            /\ at + length <= limit
    IN  IF good THEN {[at |-> at, to |-> at + length]} ELSE {}

parse_kallsyms_name_spans(im, names, count, markersAt, markers, uleb) ==
    LET span[i \in 0..count] ==
            IF i = 0 THEN {[at |-> names, to |-> names]}
            ELSE UNION {NameAt(im, p.to, markersAt, uleb) :
                            p \in {q \in span[i - 1] : (i - 1) % PerMarker = 0 =>
                                q.to - names = markers[(i - 1) \div PerMarker + 1]}}
        end == (CHOOSE p \in span[count] : TRUE).to
        good ==
            /\ Len(markers) = (count + PerMarker - 1) \div PerMarker
            /\ span[count] # {}
            /\ align_up(end) = markersAt
            /\ ZeroBetween(im, end, markersAt)
    IN  IF good THEN {[i \in 1..count |-> CHOOSE p \in span[i] : TRUE]} ELSE {}

\* The names: a kind and characters. A table without the names that the
\* patch cannot do without is none.
decode_kallsyms_names(im, spans, tokens) ==
    LET text(p) == FlattenSeq([i \in 1..(p.to - p.at) |-> tokens[Cell(im, p.at + i - 1)]])
        whole == [i \in DOMAIN spans |-> text(spans[i])]
        good ==
            /\ \A i \in DOMAIN whole : Len(whole[i]) > 1 /\ Head(whole[i]) \in {T, Absolute}
            /\ \A name \in {_text, _end, load_module} : \E i \in DOMAIN whole : Tail(whole[i]) = name
    IN  IF /\ \A i \in DOMAIN spans : Range(Slice(im, spans[i].at, spans[i].to)) \subseteq DOMAIN tokens
           /\ good
        THEN {[i \in DOMAIN whole |-> [kind |-> Head(whole[i]), name |-> Tail(whole[i])]]} ELSE {}

\* num_syms is an aligned cell and a zero, somewhere before the markers; the
\* names follow it.
find_kallsyms_names(im, table) ==
    UNION {LET markers == read_kallsyms_markers(im, at, table.start)
               count(num) == Cell(im, num)
               nums == {num \in 0..(at - Last(markers)) :
                            /\ num % Align = 0
                            /\ Has(im, num, 2) /\ Cell(im, num + 1) = 0
                            /\ count(num) \in ((Len(markers) - 1) * PerMarker + 1)..(Len(markers) * PerMarker)}
           IN  IF markers = <<>> \/ at < Last(markers) THEN {}
               ELSE UNION {{[num |-> num, names |-> names, index |-> table.index] :
                        names \in UNION {decode_kallsyms_names(im, spans, table.tokens) :
                            spans \in UNION {parse_kallsyms_name_spans(im, num + Align, count(num), at, markers, uleb) :
                                uleb \in BOOLEAN}}} : num \in nums} :
               at \in {a \in 0..(table.start - MinMarkers) : a % Align = 0}}

is_arm64_kernel_address(a) == a >= 1024 /\ a % 4 = 0

\* The symbols, with the offsets and the base at the given places.
decode_kallsyms_addresses(im, names, offsetsAt, baseAt) ==
    LET count == Len(names)
        raw(i) == Cell(im, offsetsAt + i - 1)
        base == Cell(im, baseAt)
        signed(i) == IF raw(i) >= Sign THEN raw(i) - 2 * Sign ELSE raw(i)
        mostly == Cardinality({i \in 1..count : signed(i) < 0}) * 2 >= count
        addr == [i \in 1..count |->
                    IF ~mostly THEN base + raw(i)
                    ELSE IF signed(i) < 0 THEN base - 1 - signed(i) ELSE signed(i)]
        Of(name) == {i \in 1..count : names[i].name = name}
        ordinary == {i \in 1..count : names[i].kind = T /\ addr[i] # 0}
        inside == {i \in ordinary : addr[i] \in base..(base + Cell(im, 1))}
        good ==
            /\ is_arm64_kernel_address(base)
            /\ \A i \in 1..(count - 1) : addr[i] <= addr[i + 1]
            /\ \E i, j \in 1..count :
                  Of(_text) = {i} /\ Of(_end) = {j} /\ addr[i] = base /\ addr[j] - addr[i] = Cell(im, 1)
            /\ ordinary # {} /\ Cardinality(inside) * 100 >= Cardinality(ordinary) * 90
    IN  IF /\ offsetsAt >= 0 /\ offsetsAt + count <= baseAt /\ Has(im, baseAt, 1)
           /\ ZeroBetween(im, offsetsAt + count, baseAt)
           /\ good
        THEN {{<<addr[i], names[i].name>> : i \in {j \in 1..count : addr[j] # 0}}} ELSE {}

-----------------------------------------------------------------------------
(* The symbol map. *)

normalize_symbol(name) ==
    LET cut == {i \in DOMAIN name : name[i] = Suffix}
    IN  IF cut = {} THEN name ELSE SubSeq(name, 1, Min(cut) - 1)

\* Addresses of the symbols with the name, whatever their suffixes.
variants(symbols, name) == {s[1] : s \in {t \in symbols : normalize_symbol(t[2]) = normalize_symbol(name)}}

\* The one address of the name, else the one of its variants: at most one.
resolve(symbols, name) ==
    LET exact == {s[1] : s \in {t \in symbols : t[2] = name}}
    IN  IF Cardinality(exact) = 1 THEN exact
        ELSE IF Cardinality(variants(symbols, name)) = 1 THEN variants(symbols, name) ELSE {}

\* A blob is its magic, its size and that many cells more.
find_btf_candidates(im) ==
    {[at |-> at, size |-> Cell(im, at + 1)] :
        at \in {a \in 0..(Len(im) - 2) : Cell(im, a) = BtfMagic /\ Has(im, a, Cell(im, a + 1))}}

validate_kallsyms_btf_boundaries(symbols, btf) ==
    \E base \in resolve(symbols, _text), from \in resolve(symbols, __start_BTF),
       to \in resolve(symbols, __stop_BTF) :
        from - base = btf.at /\ to - from = btf.size

-----------------------------------------------------------------------------
(* What the kernel's build writes. A symbol is [addr, kind, name]. *)

\* Token 0 is "T2".
Encoded(s) == IF s.kind = T /\ s.name[1] = 2 THEN <<0>> \o Tail(s.name) ELSE <<s.kind>> \o s.name

Padded(cells) == IF Len(cells) % Align = 0 THEN cells ELSE Append(cells, 0)

\* A length of More and above takes two bytes in the newer kernels.
WithLength(code, uleb) ==
    (IF uleb /\ Len(code) >= More THEN <<More + (Len(code) % More), Len(code) \div More>> ELSE <<Len(code)>>) \o code

Names(list, uleb) == FlattenSeq([i \in DOMAIN list |-> WithLength(Encoded(list[i]), uleb)])

Markers(list, uleb) ==
    [k \in 1..((Len(list) + PerMarker - 1) \div PerMarker) |->
        Len(Names(SubSeq(list, 1, (k - 1) * PerMarker), uleb))]

TokenTable == <<1, 2, 0, 1, 0, 2, 0, 3, 0, 4, 0, 5, 0, 6, 0, 3, 2, 0>>
TokenIndex == <<0, 3, 5, 7, 9, 11, 13, 15>>

\* With percpu the absolute addresses are kept as they are, and the others
\* as negative numbers that count down from -1 at the base.
Offsets(list, base, percpu) ==
    [i \in DOMAIN list |->
        IF ~percpu THEN list[i].addr - base
        ELSE IF list[i].addr < base THEN list[i].addr
        ELSE 2 * Sign - 1 - (list[i].addr - base)]

\* The tables, of a list that is sorted by address.
Table(list, base, old, uleb, percpu) ==
    LET names == <<Len(list), 0>> \o Padded(Names(list, uleb)) \o Padded(Markers(list, uleb))
                 \o Padded(TokenTable) \o TokenIndex
        addresses == Padded(Offsets(list, base, percpu)) \o <<base, 0>>
    IN  IF old THEN addresses \o names ELSE names \o addresses

SymbolsOf(list) == {<<s.addr, s.name>> : s \in {t \in Range(list) : t.addr # 0}}

-----------------------------------------------------------------------------
\* kernel is one of the Images of the instance.
KallsymsInit == kstep = "header" /\ tables = {} /\ candidates = {} /\ recovered = {}

find_tables ==
    /\ kstep = "header"
    /\ IF Cell(kernel.image, 0) = ImageMagic /\ Cell(kernel.image, 1) # 0
       THEN kstep' = "names" /\ tables' = find_kallsyms_token_tables(kernel.image)
       ELSE kstep' = "refused" /\ UNCHANGED tables
    /\ UNCHANGED <<kernel, candidates, recovered>>

\* Both layouts are tried for each table of names.
decode_tables ==
    /\ kstep = "names"
    /\ candidates' = UNION {
           LET count == Len(t.names)
               oldBase == t.num - Align
               new == t.index + TokenCount
               Of(layout, where, base) ==
                   {[layout |-> layout, num |-> t.num, symbols |-> s] :
                        s \in decode_kallsyms_addresses(kernel.image, t.names, where, base)}
           IN  Of("pre-6.4", oldBase - align_up(count), oldBase) \cup Of("6.4+", new, align_up(new + count))
           : t \in UNION {find_kallsyms_names(kernel.image, table) : table \in tables}}
    /\ kstep' = "match"
    /\ UNCHANGED <<kernel, tables, recovered>>

\* Mutant: several tables are no reason to refuse.
AcceptsAny ==
    /\ kstep = "match" /\ candidates # {}
    /\ kstep' = "done"
    /\ recovered' = (CHOOSE c \in candidates : TRUE).symbols
    /\ UNCHANGED <<kernel, tables, candidates>>

\* The only table whose symbols delimit a BTF blob, or the only one at all.
recover_arm64_kernel_metadata ==
    LET matches == {m \in candidates \X find_btf_candidates(kernel.image) :
                        validate_kallsyms_btf_boundaries(m[1].symbols, m[2])}
        chosen == IF matches = {} THEN candidates ELSE {m[1] : m \in matches}
    IN  /\ kstep = "match"
        /\ IF Cardinality(matches) <= 1 /\ Cardinality(chosen) = 1
           THEN kstep' = "done" /\ recovered' = (CHOOSE c \in chosen : TRUE).symbols
           ELSE kstep' = "refused" /\ UNCHANGED recovered
        /\ UNCHANGED <<kernel, tables, candidates>>

KallsymsNext == find_tables \/ decode_tables \/ recover_arm64_kernel_metadata

-----------------------------------------------------------------------------
\* What is recovered is the kernel's own symbol map, with all of its symbols
\* at their addresses, whatever else the Image holds; and an Image with no
\* other table is not refused.
SymbolsExact ==
    /\ kstep = "done" => recovered = kernel.symbols
    /\ kstep = "refused" => kernel.other
=============================================================================
