------------------------------ MODULE Listpack ------------------------------
(***************************************************************************)
(* The listpack (listpack.c), the list in which streams keep their         *)
(* entries: every element ends with its own length, written so that it can *)
(* be read from the right.  Elements are named by their place and pointers *)
(* by their offset.                                                        *)
(***************************************************************************)
EXTENDS Integers, Sequences, FiniteSets, SequencesExt, FiniteSetsExt

CONSTANTS Value,     \* [int, n]: an integer, or a string by its length
          Unknown,   \* LP_HDR_NUMELE_UNKNOWN: the header does not tell the length
          MaxBytes,  \* UINT32_MAX: a larger listpack is refused
          MaxLen     \* bound on the elements

VARIABLES lp,  \* [e: elements [enc, size, data, back], bytes, num]
          ref  \* the list it should be

vars == <<lp, ref>>

HDR_SIZE == 6
Bits == [i13 |-> 8192, i16 |-> 65536, i24 |-> 16777216]

----------------------------------------------------------------------------
(* Elements                                                                *)

IntType(n) == IF n \in 0..127 THEN "u7" ELSE IF n \in -4096..4095 THEN "i13" ELSE IF n \in -32768..32767 THEN "i16"
              ELSE IF n \in -8388608..8388607 THEN "i24" ELSE "i32"
IntSize == [u7 |-> 1, i13 |-> 2, i16 |-> 3, i24 |-> 4, i32 |-> 5]

\* The encoding, its size, and the number that is written: negative ones from the top.
lpEncodeGetType(v) ==
    LET t == IntType(v.n)
    IN IF v.int
       THEN [enc |-> t, size |-> IntSize[t], data |-> IF v.n < 0 /\ t \in DOMAIN Bits THEN Bits[t] + v.n ELSE v.n]
       ELSE [enc |-> "str", size |-> v.n + (IF v.n < 64 THEN 1 ELSE IF v.n < 4096 THEN 2 ELSE 5), data |-> v.n]

lpGet(x) ==
    [int |-> x.enc # "str",
     n |-> IF x.enc \in DOMAIN Bits /\ x.data >= Bits[x.enc] \div 2 THEN -(Bits[x.enc] - 1 - x.data) - 1 ELSE x.data]

\* Seven bits a byte, the lowest ones last; a mark says that there are more to the left.
RECURSIVE Base128(_, _)
Base128(n, k) == IF k = 1 THEN <<[v |-> n, more |-> FALSE]>> ELSE Append(Base128(n \div 128, k - 1), [v |-> n % 128, more |-> TRUE])
BacklenSize(n) == IF n <= 127 THEN 1 ELSE IF n < 16383 THEN 2 ELSE IF n < 2097151 THEN 3 ELSE IF n < 268435455 THEN 4 ELSE 5
lpEncodeBacklen(n) == Base128(n, BacklenSize(n))

RECURSIVE lpDecodeBacklen(_)
lpDecodeBacklen(b) == Last(b).v + IF Last(b).more THEN 128 * lpDecodeBacklen(Front(b)) ELSE 0

Element(v) == lpEncodeGetType(v) @@ [back |-> lpEncodeBacklen(lpEncodeGetType(v).size)]

\* lpCurrentEncodedSize() and the length behind it.
lpSkip(x) == x.size + BacklenSize(x.size)

----------------------------------------------------------------------------
(* The list                                                                *)

lpNew == [e |-> <<>>, bytes |-> HDR_SIZE + 1, num |-> 0]

Offset(l, i) == HDR_SIZE + FoldLeft(LAMBDA a, x : a + lpSkip(x), 0, SubSeq(l.e, 1, i - 1))
At(l, off) == CHOOSE i \in 1..Len(l.e) + 1 : Offset(l, i) = off

lpFirst(l) == IF l.e = <<>> THEN 0 ELSE 1
lpNext(l, i) == IF i + 1 > Len(l.e) THEN 0 ELSE i + 1

\* The byte in front of the element, or of the end, is the last one of a length.
lpPrev(l, i) ==
    IF Offset(l, i) = HDR_SIZE THEN 0
    ELSE LET n == lpDecodeBacklen(l.e[i - 1].back) IN At(l, Offset(l, i) - n - BacklenSize(n))
lpLast(l) == lpPrev(l, At(l, l.bytes - 1))

\* The header has two bytes for it.
Count(n, incr) == IF n # Unknown THEN (n + incr) % (Unknown + 1) ELSE n

\* In front of the element i, behind it, or in its place, where no value deletes it.  Returns
\* the new list and where the element is; an empty sequence when it would be too large.
lpInsert(l, vs, i, where) ==
    LET at == IF where = "after" THEN i + 1 ELSE i
        replace == where = "replace" \/ vs = <<>>
        new == [k \in DOMAIN vs |-> Element(vs[k])]
        grow == IF vs = <<>> THEN 0 ELSE new[1].size + Len(new[1].back)
        old == IF replace THEN lpSkip(l.e[at]) ELSE 0
        rest == SubSeq(l.e, IF replace THEN at + 1 ELSE at, Len(l.e))
    IN IF l.bytes + grow - old > MaxBytes THEN <<>>
       ELSE <<[e |-> SubSeq(l.e, 1, at - 1) \o new \o rest, bytes |-> l.bytes + grow - old,
               num |-> IF replace /\ vs # <<>> THEN l.num ELSE Count(l.num, IF vs = <<>> THEN -1 ELSE 1)],
              IF vs = <<>> /\ rest = <<>> THEN 0 ELSE at>>

lpAppend(l, v) == lpInsert(l, <<v>>, Len(l.e) + 1, "before")
lpDelete(l, i) == lpInsert(l, <<>>, i, "replace")

RECURSIVE Forward(_, _, _), Backward(_, _, _)
Forward(l, i, n) == IF i = 0 \/ n = 0 THEN i ELSE Forward(l, lpNext(l, i), n - 1)
Backward(l, i, n) == IF i = 0 \/ n = 0 THEN i ELSE Backward(l, lpPrev(l, i), n - 1)

\* From the end that is nearer, when the length is known.
lpSeek(l, index) ==
    LET known == l.num # Unknown
        k == IF known /\ index < 0 THEN l.num + index ELSE index
        back == IF known THEN k > l.num \div 2 ELSE k < 0
    IN IF known /\ (k < 0 \/ k >= l.num) THEN 0
       ELSE IF back THEN Backward(l, lpLast(l), -(IF known THEN k - l.num ELSE k) - 1)
       ELSE Forward(l, lpFirst(l), k)

lpLength(l) == IF l.num # Unknown THEN l.num ELSE Len(l.e)

----------------------------------------------------------------------------
(* Its users                                                               *)

Init == lp = lpNew /\ ref = <<>>

Becomes(res, r) == IF res = <<>> THEN UNCHANGED vars ELSE lp' = res[1] /\ ref' = r

Append1 == \E v \in Value : Len(ref) < MaxLen /\ Becomes(lpAppend(lp, v), Append(ref, v))
Insert == \E v \in Value, i \in 1..Len(ref), where \in {"before", "after"} :
    Len(ref) < MaxLen /\ Becomes(lpInsert(lp, <<v>>, i, where), InsertAt(ref, IF where = "after" THEN i + 1 ELSE i, v))
Replace == \E v \in Value, i \in 1..Len(ref) : Becomes(lpInsert(lp, <<v>>, i, "replace"), [ref EXCEPT ![i] = v])
Delete == \E i \in 1..Len(ref) : Becomes(lpDelete(lp, i), RemoveAt(ref, i))
\* lpLength() writes the length to the header once it fits again.
UpdateNum == lp.num = Unknown /\ Len(lp.e) < Unknown /\ lp' = [lp EXCEPT !.num = Len(lp.e)] /\ UNCHANGED ref

Next == Append1 \/ Insert \/ Replace \/ Delete \/ UpdateNum
Spec == Init /\ [][Next]_vars

----------------------------------------------------------------------------
(* Properties                                                              *)

\* The values that were stored are found by their index, from both ends, whether the length is
\* known or not; and the header tells the bytes in use.
SeekIsRight ==
    /\ \A k \in -MaxLen - 1..MaxLen :
        LET i == lpSeek(lp, k)
            at == IF k < 0 THEN Len(ref) + k + 1 ELSE k + 1
        IN IF at \in DOMAIN ref THEN i # 0 /\ lpGet(lp.e[i]) = ref[at] ELSE i = 0
    /\ lp.bytes = Offset(lp, Len(lp.e) + 1) + 1 /\ lp.bytes <= MaxBytes

\* The way back meets the elements of the way there.
BackIsRight == \A i \in 1..Len(lp.e) + 1 : lpDecodeBacklen(lpEncodeBacklen(Offset(lp, i))) = Offset(lp, i) /\ lpPrev(lp, i) = i - 1

\* The length is right whether the header tells it or it is counted.
LengthIsRight == lpLength(lp) = Len(ref)
=============================================================================
