------------------------------- MODULE Ziplist -------------------------------
(***************************************************************************)
(* The ziplist (ziplist.c), a list in one block of memory: every entry     *)
(* begins with the length of the one before it, in one byte or in five.    *)
(* Sizes are those of the code; entries are named by their place and       *)
(* pointers by their offset.                                               *)
(***************************************************************************)
EXTENDS Integers, Sequences, FiniteSets, SequencesExt, FiniteSetsExt

CONSTANTS Value,      \* [int, n]: an integer, or a string by its length
          Uint16Max,  \* the length from which the header does not tell it
          MaxLen      \* bound on the entries

VARIABLES zl,  \* [e: entries, bytes, tail: offset of the last one, len]
          ref  \* the list it should be

vars == <<zl, ref>>

BIG_PREVLEN == 254
HEADER_SIZE == 10

----------------------------------------------------------------------------
(* Entries                                                                 *)

zipTryEncoding(n) ==
    IF n \in 0..12 THEN "imm" ELSE IF n \in -128..127 THEN "8" ELSE IF n \in -32768..32767 THEN "16"
    ELSE IF n \in -8388608..8388607 THEN "24" ELSE "32"

Encoding(v) == IF v.int THEN zipTryEncoding(v.n) ELSE "str"
zipIntSize(enc) == CASE enc = "imm" -> 0 [] enc = "8" -> 1 [] enc = "16" -> 2 [] enc = "24" -> 3 [] enc = "32" -> 4
zipStoreEntryEncoding(v) == IF v.int \/ v.n <= 63 THEN 1 ELSE IF v.n <= 16383 THEN 2 ELSE 5
zipStorePrevEntryLength(n) == IF n < BIG_PREVLEN THEN 1 ELSE 5

Modulus(enc) == CASE enc = "8" -> 256 [] enc = "16" -> 65536 [] enc = "24" -> 16777216
\* The bytes of the integer as a number; the smallest ones are in the encoding itself.
zipSaveInteger(n, enc) == IF enc \in {"imm", "32"} THEN n ELSE n % Modulus(enc)
zipLoadInteger(d, enc) == IF enc \in {"imm", "32"} \/ d < Modulus(enc) \div 2 THEN d ELSE d - Modulus(enc)

NewEntry(prev, v) ==
    [prev |-> prev, psz |-> zipStorePrevEntryLength(prev), enc |-> Encoding(v),
     body |-> zipStoreEntryEncoding(v) + (IF v.int THEN zipIntSize(Encoding(v)) ELSE v.n),
     data |-> IF v.int THEN zipSaveInteger(v.n, Encoding(v)) ELSE v.n]

zipRawEntryLength(x) == x.psz + x.body
ziplistGet(x) == [int |-> x.enc # "str", n |-> IF x.enc = "str" THEN x.data ELSE zipLoadInteger(x.data, x.enc)]
zipPrevLenByteDiff(x, n) == zipStorePrevEntryLength(n) - x.psz

----------------------------------------------------------------------------
(* The list                                                                *)

ziplistNew == [e |-> <<>>, bytes |-> HEADER_SIZE + 1, tail |-> HEADER_SIZE, len |-> 0]

Total(es) == FoldLeft(LAMBDA a, x : a + zipRawEntryLength(x), 0, es)
Offset(z, i) == HEADER_SIZE + Total(SubSeq(z.e, 1, i - 1))
\* The entry at an offset; the end comes after the last.
At(z, off) == CHOOSE i \in 1..Len(z.e) + 1 : Offset(z, i) = off

IncrLength(n, incr) == IF n < Uint16Max THEN n + incr ELSE n

\* A bug for comparison: the entry after the one that has grown is not looked at.
CascadeOnce(z, i) ==
    LET raw == zipRawEntryLength(z.e[i])
        next == z.e[i + 1]
        extra == zipStorePrevEntryLength(raw) - next.psz
    IN IF i >= Len(z.e) THEN z ELSE IF next.prev = raw THEN z
       ELSE IF extra > 0
       THEN [z EXCEPT !.e[i + 1].prev = raw, !.e[i + 1].psz = 5, !.bytes = @ + extra,
                      !.tail = IF @ # Offset(z, i + 1) THEN @ + extra ELSE @]
       ELSE [z EXCEPT !.e[i + 1].prev = raw]

\* From the entry i on: the next one records its length and may grow by that; it never shrinks.
RECURSIVE Cascade(_, _)
Cascade(z, i) ==
    LET raw == zipRawEntryLength(z.e[i])
        next == z.e[i + 1]
        extra == zipStorePrevEntryLength(raw) - next.psz
    IN IF i >= Len(z.e) THEN z ELSE IF next.prev = raw THEN z
       ELSE IF extra > 0
       THEN Cascade([z EXCEPT !.e[i + 1].prev = raw, !.e[i + 1].psz = 5, !.bytes = @ + extra,
                              !.tail = IF @ # Offset(z, i + 1) THEN @ + extra ELSE @], i + 1)
       ELSE [z EXCEPT !.e[i + 1].prev = raw]

ziplistCascadeUpdate(z, i) == Cascade(z, i)

\* Entries i, ..., i + num - 1.
ziplistDelete(z, i, num) ==
    LET k == Min({num, Len(z.e) - i + 1})
        first == z.e[i]
        gone == Total(SubSeq(z.e, i, i + k - 1))
        last == i + k = Len(z.e) + 1
        diff == IF last THEN 0 ELSE zipPrevLenByteDiff(z.e[i + k], first.prev)
        head == SubSeq(z.e, 1, i - 1)
        rest == IF last THEN <<>> ELSE <<[z.e[i + k] EXCEPT !.prev = first.prev, !.psz = @ + diff]>> \o SubSeq(z.e, i + k + 1, Len(z.e))
        cut == [e |-> head \o rest, bytes |-> z.bytes - gone + diff, len |-> IncrLength(z.len, -k),
                tail |-> IF last THEN Offset(z, i) - first.prev
                         ELSE z.tail - gone + IF i + k < Len(z.e) THEN diff ELSE 0]
    IN IF k = 0 THEN z ELSE IF diff # 0 THEN ziplistCascadeUpdate(cut, i) ELSE cut

\* In front of the entry i.  The next one keeps its five bytes when the list would shrink
\* instead of grow.
ziplistInsert(z, i, v) ==
    LET atEnd == i > Len(z.e)
        ptail == At(z, z.tail)
        prev == IF ~atEnd THEN z.e[i].prev ELSE IF ptail > Len(z.e) THEN 0 ELSE zipRawEntryLength(z.e[ptail])
        new == NewEntry(prev, v)
        reqlen == zipRawEntryLength(new)
        diff0 == IF atEnd THEN 0 ELSE zipPrevLenByteDiff(z.e[i], reqlen)
        diff == IF diff0 = -4 /\ reqlen < 4 THEN 0 ELSE diff0
        head == SubSeq(z.e, 1, i - 1)
        rest == IF atEnd THEN <<>> ELSE <<[z.e[i] EXCEPT !.prev = reqlen, !.psz = @ + diff]>> \o SubSeq(z.e, i + 1, Len(z.e))
        put == [e |-> head \o <<new>> \o rest, bytes |-> z.bytes + reqlen + diff, len |-> z.len,
                tail |-> IF atEnd THEN Offset(z, i) ELSE z.tail + reqlen + IF i < Len(z.e) THEN diff ELSE 0]
        done == IF diff # 0 THEN ziplistCascadeUpdate(put, i + 1) ELSE put
    IN [done EXCEPT !.len = IncrLength(@, 1)]

ziplistPush(z, v, head) == ziplistInsert(z, IF head THEN 1 ELSE Len(z.e) + 1, v)

\* b after a; the lengths are updated from the last entry of a on.
ziplistMerge(a, b) ==
    ziplistCascadeUpdate([e |-> a.e \o b.e, bytes |-> a.bytes + b.bytes - HEADER_SIZE - 1, len |-> Min({a.len + b.len, Uint16Max}),
                          tail |-> a.bytes - 1 + b.tail - HEADER_SIZE],
                         IF a.e = <<>> THEN 1 ELSE Len(a.e))

\* n entries back from the entry i, by the lengths recorded.
RECURSIVE Back(_, _, _)
Back(z, i, n) ==
    IF n = 0 THEN i ELSE IF z.e[i].prev = 0 THEN 0 ELSE Back(z, At(z, Offset(z, i) - z.e[i].prev), n - 1)

\* The entry with an index, 0 if there is none.
ziplistIndex(z, index) ==
    IF index >= 0 THEN IF index < Len(z.e) THEN index + 1 ELSE 0
    ELSE IF At(z, z.tail) > Len(z.e) THEN 0 ELSE Back(z, At(z, z.tail), -index - 1)

ziplistNext(z, i) == IF i > Len(z.e) \/ i = Len(z.e) THEN 0 ELSE i + 1
ziplistPrev(z, i) ==
    IF i > Len(z.e) THEN IF At(z, z.tail) > Len(z.e) THEN 0 ELSE At(z, z.tail)
    ELSE IF i = 1 THEN 0 ELSE At(z, Offset(z, i) - z.e[i].prev)

ziplistDeleteRange(z, index, num) ==
    LET i == ziplistIndex(z, index) IN IF i = 0 THEN z ELSE ziplistDelete(z, i, num)

\* Strings are compared as strings; an integer only with what is encoded as an integer.
ziplistCompare(x, v) ==
    IF x.enc = "str" THEN ~v.int /\ x.data = v.n ELSE v.int /\ zipLoadInteger(x.data, x.enc) = v.n

\* The first of the entries i, i + skip + 1, ... that equals v.
RECURSIVE ziplistFind(_, _, _, _)
ziplistFind(z, i, v, skip) ==
    IF i > Len(z.e) THEN 0 ELSE IF ziplistCompare(z.e[i], v) THEN i ELSE ziplistFind(z, i + skip + 1, v, skip)

ziplistLen(z) == IF z.len < Uint16Max THEN z.len ELSE Len(z.e)

----------------------------------------------------------------------------
(* Its users                                                               *)

Init == zl = ziplistNew /\ ref = <<>>

Insert == \E i \in 1..Len(ref) + 1, v \in Value :
    Len(ref) < MaxLen /\ zl' = ziplistInsert(zl, i, v) /\ ref' = InsertAt(ref, i, v)
Push == \E v \in Value, head \in BOOLEAN :
    Len(ref) < MaxLen /\ zl' = ziplistPush(zl, v, head) /\ ref' = IF head THEN <<v>> \o ref ELSE Append(ref, v)
Delete == \E i \in 1..Len(ref) : zl' = ziplistDelete(zl, i, 1) /\ ref' = RemoveAt(ref, i)
DeleteRange == \E i \in 0..Len(ref), n \in 1..MaxLen, back \in BOOLEAN :
    /\ zl' = ziplistDeleteRange(zl, IF back THEN i - Len(ref) ELSE i, n)
    /\ ref' = IF back /\ i = Len(ref) THEN SubSeq(ref, n + 1, Len(ref)) ELSE SubSeq(ref, 1, i) \o SubSeq(ref, i + n + 1, Len(ref))

\* Two nodes of a quicklist are merged; none of them is empty.
Filled(vs) == FoldLeft(LAMBDA z, v : ziplistPush(z, v, FALSE), ziplistNew, vs)
Merge == \E v \in Value, w \in Value, first \in BOOLEAN : \E other \in {<<v>>, <<v, w>>} :
    /\ ref # <<>> /\ Len(ref) + Len(other) <= MaxLen
    /\ zl' = IF first THEN ziplistMerge(zl, Filled(other)) ELSE ziplistMerge(Filled(other), zl)
    /\ ref' = IF first THEN ref \o other ELSE other \o ref

\* The count is written to the header once it fits again.
UpdateLen == zl.len = Uint16Max /\ Len(zl.e) < Uint16Max /\ zl' = [zl EXCEPT !.len = Len(zl.e)] /\ UNCHANGED ref

Next == Insert \/ Push \/ Delete \/ DeleteRange \/ Merge \/ UpdateLen
Spec == Init /\ [][Next]_vars
----------------------------------------------------------------------------
(* Properties                                                              *)

\* Every entry records the length of the one before it, in a field that can hold it, and the
\* header the bytes in use and the offset of the last entry.
LayoutIsRight ==
    /\ \A i \in DOMAIN zl.e : /\ zl.e[i].prev = (IF i = 1 THEN 0 ELSE zipRawEntryLength(zl.e[i - 1]))
                             /\ zl.e[i].psz >= zipStorePrevEntryLength(zl.e[i].prev)
    /\ zl.bytes = Offset(zl, Len(zl.e) + 1) + 1
    /\ zl.tail = IF zl.e = <<>> THEN HEADER_SIZE ELSE Offset(zl, Len(zl.e))

\* Indices from both ends, and steps in both directions, reach the values that were stored.
ContentIsRight ==
    /\ \A k \in -MaxLen - 1..MaxLen :
        LET i == ziplistIndex(zl, k)
            at == IF k < 0 THEN Len(ref) + k + 1 ELSE k + 1
        IN IF at \in DOMAIN ref THEN i # 0 /\ ziplistGet(zl.e[i]) = ref[at] ELSE i = 0
    /\ \A i \in 1..Len(ref) + 1 : ziplistPrev(zl, i) = i - 1 /\ ziplistNext(zl, i) = IF i < Len(ref) THEN i + 1 ELSE 0

\* The length is right whether the header tells it or it is counted.
LengthIsRight == ziplistLen(zl) = Len(ref)

\* A key is found at the first of the places it can be at: all of them in a list, every second
\* one in a hash.
FindIsRight ==
    \A v \in Value, skip \in {0, 1} :
    LET places == {i \in DOMAIN ref : ref[i] = v /\ (i - 1) % (skip + 1) = 0}
    IN ziplistFind(zl, 1, v, skip) = IF places = {} THEN 0 ELSE Min(places)
=============================================================================
