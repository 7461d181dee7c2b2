------------------------------- MODULE Intset -------------------------------
(***************************************************************************)
(* The set of integers in one block of memory (intset.c), sorted, all in   *)
(* the width that the widest one needs.  A cell of the memory holds one    *)
(* part of a number, <<the number, which part, of how many>>, so that      *)
(* moving numbers over each other shows.                                   *)
(***************************************************************************)
EXTENDS Integers, Sequences, FiniteSets, SequencesExt, FiniteSetsExt

CONSTANTS Value,   \* the integers
          Lim16,   \* widths one and two hold the numbers from
          Lim32,   \*   -Lim to Lim - 1
          MaxLen   \* bound on the set

VARIABLES is,  \* [mem: cells, enc: cells of a number, length]
          ref  \* the set it should be

vars == <<is, ref>>

Garbage == 100000

intsetValueEncoding_(v) == IF v \notin -Lim32..Lim32 - 1 THEN 4 ELSE IF v \notin -Lim16..Lim16 - 1 THEN 2 ELSE 1

intsetGetEncoded_(s, pos, enc) ==
    LET v == s.mem[pos * enc + 1][1]
    IN IF \A k \in 1..enc : s.mem[pos * enc + k] = <<v, k, enc>> THEN v ELSE Garbage
intsetGet_(s, pos) == intsetGetEncoded_(s, pos, s.enc)

intsetSet_(s, pos, v) ==
    [s EXCEPT !.mem = SubSeq([c \in DOMAIN @ |-> IF c \in pos * s.enc + 1..pos * s.enc + s.enc THEN <<v, c - pos * s.enc, s.enc>> ELSE @[c]],
                             1, Len(@))]

intsetNew == [mem |-> <<>>, enc |-> 1, length |-> 0]

intsetResize(s, len) ==
    [s EXCEPT !.mem = SubSeq([c \in 1..len * s.enc |-> IF c <= Len(@) THEN @[c] ELSE <<Garbage, 0, 0>>], 1, len * s.enc)]

RECURSIVE Bisect(_, _, _, _)
Bisect(s, v, min, max) ==
    LET mid == (min + max) \div 2
    IN IF max < min THEN [found |-> FALSE, pos |-> min]
       ELSE IF v > intsetGet_(s, mid) THEN Bisect(s, v, mid + 1, max)
       ELSE IF v < intsetGet_(s, mid) THEN Bisect(s, v, min, mid - 1)
       ELSE [found |-> TRUE, pos |-> mid]

\* The place of the number, or where it would be.
intsetSearch(s, v) ==
    IF s.length = 0 THEN [found |-> FALSE, pos |-> 0]
    ELSE IF v > intsetGet_(s, s.length - 1) THEN [found |-> FALSE, pos |-> s.length]
    ELSE IF v < intsetGet_(s, 0) THEN [found |-> FALSE, pos |-> 0]
    ELSE Bisect(s, v, 0, s.length - 1)

\* From the last to the first, in place.
Widen(s, curenc, prepend, n) ==
    FoldLeft(LAMBDA t, k : intsetSet_(t, k + prepend, intsetGetEncoded_(t, k, curenc)), s, [k \in 1..n |-> n - k])

\* A number that needs more width comes before or behind all others.
intsetUpgradeAndAdd(s, v) ==
    LET wide == intsetResize([s EXCEPT !.enc = intsetValueEncoding_(v)], s.length + 1)
        moved == Widen(wide, s.enc, IF v < 0 THEN 1 ELSE 0, s.length)
    IN [intsetSet_(moved, IF v < 0 THEN 0 ELSE s.length, v) EXCEPT !.length = @ + 1]

\* Everything from one place on is copied to another.
intsetMoveTail(s, from, to) ==
    LET n == (s.length - from) * s.enc
    IN [s EXCEPT !.mem = SubSeq([c \in DOMAIN @ |-> IF c \in to * s.enc + 1..to * s.enc + n THEN @[c + (from - to) * s.enc] ELSE @[c]],
                                1, Len(@))]

intsetAdd(s, v) ==
    LET at == intsetSearch(s, v)
        room == intsetResize(s, s.length + 1)
        moved == IF at.pos < s.length THEN intsetMoveTail(room, at.pos, at.pos + 1) ELSE room
    IN IF intsetValueEncoding_(v) > s.enc THEN intsetUpgradeAndAdd(s, v)
       ELSE IF at.found THEN s
       ELSE [intsetSet_(moved, at.pos, v) EXCEPT !.length = @ + 1]

intsetFind(s, v) == intsetValueEncoding_(v) <= s.enc /\ intsetSearch(s, v).found

intsetRemove(s, v) ==
    LET pos == intsetSearch(s, v).pos
        moved == IF pos < s.length - 1 THEN intsetMoveTail(s, pos + 1, pos) ELSE s
    IN IF ~intsetFind(s, v) THEN s ELSE [intsetResize(moved, s.length - 1) EXCEPT !.length = @ - 1]

\* intsetGet() of every place; intsetRandom() picks one of them.
Members(s) == {intsetGet_(s, pos) : pos \in 0..s.length - 1}
intsetBlobLen(s) == s.length * s.enc

Init == is = intsetNew /\ ref = {}
Add == \E v \in Value : Cardinality(ref \union {v}) <= MaxLen /\ is' = intsetAdd(is, v) /\ ref' = ref \union {v}
Remove1 == \E v \in Value : is' = intsetRemove(is, v) /\ ref' = ref \ {v}
Next == Add \/ Remove1
Spec == Init /\ [][Next]_vars

\* The memory holds the set, sorted and without gaps, in numbers of one width.
MemoryIsTheSet ==
    /\ Members(is) = ref /\ is.length = Cardinality(ref) /\ Len(is.mem) = intsetBlobLen(is)
    /\ \A i, j \in 0..is.length - 1 : i < j => intsetGet_(is, i) < intsetGet_(is, j)

\* A number is found if and only if it is a member.
FindIsRight == \A v \in Value : intsetFind(is, v) <=> v \in ref
=============================================================================
