------------------------------ MODULE Quicklist -----------------------------
(***************************************************************************)
(* The quicklist (quicklist.c), the encoding of Redis lists: a list of     *)
(* ziplists of limited size, of which those away from the ends are kept    *)
(* compressed.  The operations are those of the list commands.             *)
(***************************************************************************)
EXTENDS Integers, Sequences, FiniteSets, SequencesExt, FiniteSetsExt

CONSTANTS Value, Size(_),  \* the values and the bytes they take
          Fill,            \* entries of a ziplist, or, negative, its bytes
          Compress,        \* nodes at both ends that are not compressed; 0: none is
          MinCompress,     \* MIN_COMPRESS_BYTES: smaller ziplists are left alone
          MaxLen,          \* bound on the list
          Commands         \* the commands clients use

VARIABLES q,    \* nodes [zl, count, raw, re: recompress, cur: an iterator stands here] and the count of all
          ref,  \* the list it should be
          bad   \* what went wrong: nothing, or memory misread

vars == <<q, ref, bad>>

Bytes(zl) == FoldLeft(LAMBDA a, x : a + Size(x), 0, zl)
quicklistCreateNode(zl) == [zl |-> zl, count |-> Len(zl), raw |-> TRUE, re |-> FALSE, cur |-> FALSE]
quicklistCreate == [n |-> <<>>, count |-> 0]

----------------------------------------------------------------------------
(* Compression                                                             *)

quicklistDecompressNode(l, i) == [l EXCEPT !.n[i].raw = TRUE]
quicklistDecompressNodeForUse(l, i) == IF l.n[i].raw THEN l ELSE [l EXCEPT !.n[i].raw = TRUE, !.n[i].re = TRUE]

\* Nothing happens to a ziplist that is too small.
quicklistCompressNode(l, i) ==
    IF i = 0 \/ ~l.n[i].raw \/ Bytes(l.n[i].zl) < MinCompress THEN l
    ELSE [l EXCEPT !.n[i].raw = FALSE, !.n[i].re = FALSE]

quicklistRecompressOnly(l, i) == IF l.n[i].re THEN quicklistCompressNode(l, i) ELSE l

\* __quicklistCompress(): from both ends towards the middle, as deep as configured.
CompressToDepth(l, len, i) ==
    LET n == Len(l.n)
        meet == {d \in 1..Compress : d = n + 1 - d}
        rounds == 1..IF meet = {} THEN Compress ELSE Min(meet)
        ends == rounds \union {n + 1 - d : d \in rounds}
        open == [l EXCEPT !.n = SubSeq([k \in 1..n |-> IF k \in ends THEN [l.n[k] EXCEPT !.raw = TRUE] ELSE l.n[k]], 1, n)]
        done == IF i \in ends THEN open ELSE quicklistCompressNode(open, i)
    IN IF Compress = 0 \/ len < 2 * Compress THEN l
       ELSE IF meet # {} THEN open
       ELSE IF Compress >= 2 THEN quicklistCompressNode(quicklistCompressNode(done, Compress + 1), n - Compress)
       ELSE done

\* len is the length the quicklist records at this moment.
quicklistCompress(l, len, i) == IF l.n[i].re THEN quicklistCompressNode(l, i) ELSE CompressToDepth(l, len, i)

----------------------------------------------------------------------------
(* Nodes                                                                   *)

\* After the node i, or before it.
quicklistInsertNode(l, i, node, after) ==
    LET at == IF after THEN i + 1 ELSE i
        old == IF after THEN i ELSE i + 1
    IN IF l.n = <<>> THEN [l EXCEPT !.n = <<node>>]
       ELSE quicklistCompress([l EXCEPT !.n = InsertAt(@, at, node)], Len(l.n), old)

\* The length is reduced only after the compression.
quicklistDelNode(l, i) == CompressToDepth([n |-> RemoveAt(l.n, i), count |-> l.count - l.n[i].count], Len(l.n), 0)

quicklistNodeAllowInsert(node, v) ==
    IF Fill < 0 THEN Bytes(node.zl) + Size(v) <= -Fill ELSE node.count < Fill

quicklistNodeAllowMerge(a, b) ==
    IF Fill < 0 THEN Bytes(a.zl) + Bytes(b.zl) <= -Fill ELSE a.count + b.count <= Fill

Allows(l, i, v) == i \in DOMAIN l.n /\ quicklistNodeAllowInsert(l.n[i], v)
SetNode(l, i, zl) == [l EXCEPT !.n[i].zl = zl, !.n[i].count = Len(zl)]

quicklistPushHead(l, v) ==
    LET t == IF Allows(l, 1, v) THEN SetNode(l, 1, <<v>> \o l.n[1].zl)
             ELSE quicklistInsertNode(l, 1, quicklistCreateNode(<<v>>), FALSE)
    IN [t EXCEPT !.count = @ + 1]

quicklistPushTail(l, v) ==
    LET n == Len(l.n)
        t == IF Allows(l, n, v) THEN SetNode(l, n, Append(l.n[n].zl, v))
             ELSE quicklistInsertNode(l, n, quicklistCreateNode(<<v>>), TRUE)
    IN [t EXCEPT !.count = @ + 1]

\* Entry p of node i; the node goes with its last entry.
quicklistDelIndex(l, i, p) ==
    LET t == SetNode(l, i, RemoveAt(l.n[i].zl, p))
    IN [IF t.n[i].count = 0 THEN quicklistDelNode(t, i) ELSE t EXCEPT !.count = @ - 1]

Before(l, i) == FoldLeft(LAMBDA a, x : a + x.count, 0, SubSeq(l.n, 1, i - 1))

\* The node and the offset of an index; offsets are negative when counted from the tail.
quicklistIndex(l, idx) ==
    LET index == IF idx < 0 THEN l.count + idx ELSE idx
        i == CHOOSE j \in DOMAIN l.n : Before(l, j) <= index /\ index < Before(l, j + 1)
    IN IF index < 0 \/ index >= l.count THEN [found |-> FALSE, l |-> l, i |-> 0, off |-> 0]
       ELSE [found |-> TRUE, l |-> quicklistDecompressNodeForUse(l, i), i |-> i,
             off |-> index - Before(l, i) - IF idx < 0 THEN l.n[i].count ELSE 0]

\* The position in the ziplist of an offset.
Pos(node, off) == IF off < 0 THEN Len(node.zl) + off + 1 ELSE off + 1

quicklistReplaceAtIndex(l, idx, v) ==
    LET e == quicklistIndex(l, idx)
    IN IF ~e.found THEN l
       ELSE quicklistCompress([e.l EXCEPT !.n[e.i].zl[Pos(e.l.n[e.i], e.off)] = v], Len(l.n), e.i)

\* Nodes i and i + 1 become one, the longer of the two.
quicklistZiplistMerge(l, i) ==
    LET t == quicklistDecompressNode(quicklistDecompressNode(l, i), i + 1)
        zl == l.n[i].zl \o l.n[i + 1].zl
        first == Len(l.n[i].zl) >= Len(l.n[i + 1].zl)
        kept == SetNode(t, IF first THEN i ELSE i + 1, zl)
        gone == quicklistDelNode([kept EXCEPT !.n[IF first THEN i + 1 ELSE i].count = 0], IF first THEN i + 1 ELSE i)
    IN quicklistCompress(gone, Len(gone.n), i)

MayMerge(l, i) == i \in DOMAIN l.n /\ i + 1 \in DOMAIN l.n /\ quicklistNodeAllowMerge(l.n[i], l.n[i + 1])
MergeAt(l, i) == IF MayMerge(l, i) THEN quicklistZiplistMerge(l, i) ELSE l

\* Around the node i: the two before, the two after, and then with its neighbours.
quicklistMergeNodes(l, i) ==
    LET a == MergeAt(l, i - 2)
        ia == IF MayMerge(l, i - 2) THEN i - 1 ELSE i
        b == MergeAt(a, ia + 1)
        c == MergeAt(b, ia - 1)
        ic == IF MayMerge(b, ia - 1) THEN ia - 1 ELSE ia
    IN MergeAt(c, ic)

\* The node keeps one part and the new one gets the other.
quicklistSplitNode(node, off, after) ==
    IF after THEN <<SubSeq(node.zl, 1, off + 1), SubSeq(node.zl, off + 2, Len(node.zl))>>
    ELSE <<SubSeq(node.zl, off + 1, Len(node.zl)), SubSeq(node.zl, 1, off)>>

\* A bug for comparison: the halves of a split are put in the wrong order.
InsertSwapped(l, i, off, v, after) ==
    LET node == l.n[i]
        at == IF after THEN off + 2 ELSE off + 1
        use == quicklistDecompressNodeForUse(l, i)
        parts == quicklistSplitNode(node, off, after)
    IN [IF Allows(l, i, v) THEN quicklistRecompressOnly(SetNode(use, i, InsertAt(node.zl, at, v)), i)
        ELSE quicklistInsertNode(SetNode(use, i, parts[1]), i,
                 quicklistCreateNode(IF after THEN Append(parts[2], v) ELSE <<v>> \o parts[2]), after)
        EXCEPT !.count = @ + 1]

\* Next to the entry at the offset of node i: there if it has room, else in the neighbour, in
\* a new node, or between the halves of the node.  at_tail never holds: the offset is less
\* than the count.
quicklistInsert(l, i, off, v, after) ==
    LET node == l.n[i]
        at == IF after THEN off + 2 ELSE off + 1
        use == quicklistDecompressNodeForUse(l, i)
        atTail == after /\ off = node.count
        atHead == ~after /\ off = 0
        prev == quicklistDecompressNodeForUse(l, i - 1)
        next == quicklistDecompressNodeForUse(l, i + 1)
        parts == quicklistSplitNode(node, off, after)
        split == quicklistInsertNode(SetNode(use, i, parts[1]), i,
                     quicklistCreateNode(IF after THEN <<v>> \o parts[2] ELSE Append(parts[2], v)), after)
    IN [IF Allows(l, i, v) THEN quicklistRecompressOnly(SetNode(use, i, InsertAt(node.zl, at, v)), i)
        ELSE IF atTail /\ i < Len(l.n) /\ Allows(l, i + 1, v)
        THEN quicklistRecompressOnly(SetNode(next, i + 1, <<v>> \o l.n[i + 1].zl), i + 1)
        ELSE IF atHead /\ i > 1 /\ Allows(l, i - 1, v)
        THEN quicklistRecompressOnly(SetNode(prev, i - 1, Append(l.n[i - 1].zl, v)), i - 1)
        ELSE IF (atTail /\ i < Len(l.n)) \/ (atHead /\ i > 1)
        THEN quicklistInsertNode(l, i, quicklistCreateNode(<<v>>), after)
        ELSE quicklistMergeNodes(split, IF after THEN i ELSE i + 1)
        EXCEPT !.count = @ + 1]

\* Deletes the extent from the offset of node i on.
RECURSIVE DelFrom(_, _, _, _)
DelFrom(l, i, off, extent) ==
    LET node == l.n[i]
        del == IF off >= 0 /\ extent >= node.count THEN node.count - off
               ELSE IF off < 0 THEN Min({-off, extent}) ELSE extent
        p == Pos(node, off)
        zl == SubSeq(node.zl, 1, p - 1) \o SubSeq(node.zl, p + del, Len(node.zl))
        cut == [quicklistDecompressNodeForUse(l, i) EXCEPT !.n[i].zl = zl, !.n[i].count = @ - del, !.count = @ - del]
        whole == off = 0 /\ extent >= node.count
    IN IF extent = 0 THEN l
       ELSE IF whole THEN DelFrom(quicklistDelNode(l, i), i, 0, extent - del)
       ELSE IF cut.n[i].count = 0 THEN DelFrom(quicklistDelNode(cut, i), i, 0, extent - del)
       ELSE DelFrom(quicklistRecompressOnly(cut, i), i + 1, 0, extent - del)

quicklistDelRange(l, start, count) ==
    LET extent == IF start >= 0 THEN Min({count, l.count - start}) ELSE Min({count, -start})
        e == quicklistIndex(l, start)
    IN IF count <= 0 \/ ~e.found THEN l ELSE DelFrom(e.l, e.i, e.off, extent)

----------------------------------------------------------------------------
(* Iterators: the current node is marked in the list                       *)

Mark(l, i) == [l EXCEPT !.n = SubSeq([k \in DOMAIN l.n |-> [l.n[k] EXCEPT !.cur = (k = i)]], 1, Len(l.n))]
Marked(l) == {i \in DOMAIN l.n : l.n[i].cur}

quicklistGetIteratorAtIdx(l, idx, dir) ==
    LET e == quicklistIndex(l, idx) IN [l |-> Mark(e.l, e.i), off |-> e.off, zi |-> FALSE, dir |-> dir]

\* On to the next entry; zi tells whether there is one.
RECURSIVE quicklistNext(_)
quicklistNext(it) ==
    LET i == CHOOSE k \in Marked(it.l) : TRUE
        l == IF it.zi THEN it.l ELSE quicklistDecompressNodeForUse(it.l, i)
        off == IF it.zi THEN it.off + it.dir ELSE it.off
        left == IF it.dir = 1 /\ it.off < 0 THEN off = 0 ELSE IF it.dir = -1 /\ it.off >= 0 THEN off = -1 ELSE FALSE
        on == i + it.dir
        packed == quicklistCompress(l, Len(l.n), i)
    IN IF Marked(it.l) = {} THEN [it EXCEPT !.zi = FALSE]
       ELSE IF ~left /\ Pos(l.n[i], off) \in DOMAIN l.n[i].zl THEN [it EXCEPT !.l = l, !.off = off, !.zi = TRUE]
       ELSE quicklistNext([it EXCEPT !.l = Mark(packed, IF on \in DOMAIN l.n THEN on ELSE 0), !.zi = FALSE,
                                     !.off = IF it.dir = 1 THEN 0 ELSE -1])

Here(it) == CHOOSE i \in Marked(it.l) : TRUE
ValueAt(it) == it.l.n[Here(it)].zl[Pos(it.l.n[Here(it)], it.off)]

\* Deletes the entry the iterator stands on.
quicklistDelEntry(it) ==
    LET i == Here(it)
        t == quicklistDelIndex(it.l, i, Pos(it.l.n[i], it.off))
        gone == Marked(t) = {}
        to == IF it.dir = 1 THEN i ELSE i - 1
    IN IF gone THEN [it EXCEPT !.l = Mark(t, IF to \in DOMAIN t.n THEN to ELSE 0), !.off = IF it.dir = 1 THEN 0 ELSE -1, !.zi = FALSE]
       ELSE [it EXCEPT !.l = t, !.zi = FALSE]

quicklistReleaseIterator(it) == IF Marked(it.l) = {} THEN it.l ELSE Mark(quicklistCompress(it.l, Len(it.l.n), Here(it)), 0)

----------------------------------------------------------------------------
(* The commands of lists                                                   *)

\* Reads and writes of a compressed node as if it were a ziplist.
Misread(nodes) == \E i \in nodes : i \in DOMAIN q.n /\ ~q.n[i].raw
Becomes(l, r) == q' = l /\ ref' = r /\ UNCHANGED bad
Uses(c) == c \in Commands /\ bad = "nothing"

Push(v) ==
    /\ Uses("PUSH") /\ Len(ref) < MaxLen
    /\ \/ Misread({1} \cap {i \in DOMAIN q.n : Allows(q, i, v)}) /\ bad' = "misread" /\ UNCHANGED <<q, ref>>
       \/ ~Misread({1} \cap {i \in DOMAIN q.n : Allows(q, i, v)}) /\ Becomes(quicklistPushHead(q, v), <<v>> \o ref)
       \/ ~Misread({Len(q.n)} \cap {i \in DOMAIN q.n : Allows(q, i, v)}) /\ Becomes(quicklistPushTail(q, v), Append(ref, v))

quicklistPop ==
    /\ Uses("POP") /\ ref # <<>>
    /\ \/ Misread({1}) /\ bad' = "misread" /\ UNCHANGED <<q, ref>>
       \/ ~Misread({1}) /\ Becomes(quicklistDelIndex(q, 1, 1), Tail(ref))
       \/ ~Misread({Len(q.n)}) /\ Becomes(quicklistDelIndex(q, Len(q.n), Len(q.n[Len(q.n)].zl)), Front(ref))

LSET == \E k \in -Len(ref)..Len(ref) - 1, v \in Value :
    /\ Uses("LSET")
    /\ Becomes(quicklistReplaceAtIndex(q, k, v), [ref EXCEPT ![IF k < 0 THEN Len(ref) + k + 1 ELSE k + 1] = v])

\* The node is not compressed again.
LINDEX == \E k \in 0..Len(ref) - 1 : Uses("LINDEX") /\ Becomes(quicklistIndex(q, k).l, ref)

RECURSIVE Seek(_, _)
Seek(it, v) == LET n == quicklistNext(it) IN IF ~n.zi \/ ValueAt(n) = v THEN n ELSE Seek(n, v)

\* The pivot is looked for with an iterator, which is released after the insertion.
LINSERT == \E pivot \in Value, v \in Value, after \in BOOLEAN :
    /\ Uses("LINSERT") /\ Len(ref) \in 1..MaxLen - 1
    /\ \E it \in {Seek(quicklistGetIteratorAtIdx(q, 0, 1), pivot)} :
         IF ~it.zi THEN Becomes(quicklistReleaseIterator(it), ref)
         ELSE \E l \in {quicklistInsert(it.l, Here(it), it.off, v, after)} :
              /\ q' = quicklistReleaseIterator([it EXCEPT !.l = l])
              /\ bad' = IF Marked(l) = {} THEN "dangling" ELSE bad
              /\ ref' = LET p == SelectInSeq(ref, LAMBDA x : x = pivot) IN InsertAt(ref, IF after THEN p + 1 ELSE p, v)

RECURSIVE Lrem(_, _, _)
Lrem(it, v, n) ==
    LET s == Seek(it, v)
    IN IF ~s.zi \/ n = 0 THEN IF n = 0 THEN it ELSE s ELSE Lrem(quicklistDelEntry(s), v, n - 1)

\* The first n equal ones, or the last ones.
Left(r, v, n, dir) ==
    LET all == {i \in DOMAIN r : r[i] = v}
        gone == {i \in all : Cardinality({j \in all : IF dir = 1 THEN j <= i ELSE j >= i}) <= n}
        keep == SetToSortSeq(DOMAIN r \ gone, <)
    IN [i \in DOMAIN keep |-> r[keep[i]]]

LREM == \E v \in Value, n \in {1, MaxLen}, dir \in {1, -1} :
    /\ Uses("LREM") /\ ref # <<>>
    /\ Becomes(quicklistReleaseIterator(Lrem(quicklistGetIteratorAtIdx(q, IF dir = 1 THEN 0 ELSE -1, dir), v, n)), Left(ref, v, n, dir))

LTRIM == \E a \in 0..MaxLen, b \in 0..MaxLen :
    /\ Uses("LTRIM") /\ a + b <= Len(ref)
    /\ Becomes(quicklistDelRange(quicklistDelRange(q, 0, a), -b, b), SubSeq(ref, a + 1, Len(ref) - b))

RECURSIVE Walked(_, _)
Walked(it, n) == IF n = 0 THEN it ELSE Walked(quicklistNext(it), n - 1)

\* LRANGE reads n entries from an index on.
LRANGE == \E k \in 0..Len(ref) - 1 : \E n \in 1..Len(ref) - k :
    Uses("LRANGE") /\ Becomes(quicklistReleaseIterator(Walked(quicklistGetIteratorAtIdx(q, k, 1), n)), ref)

\* rdbLoadObject() appends ziplists of another server, which are larger.
Load == \E a \in Value, b \in Value, c \in Value :
    /\ Uses("LOAD") /\ ref = <<>>
    /\ Becomes([n |-> <<quicklistCreateNode(<<a, b, c>>), quicklistCreateNode(<<c>>)>>, count |-> 4], <<a, b, c, c>>)

Init == q = quicklistCreate /\ ref = <<>> /\ bad = "nothing"
Next == (\E v \in Value : Push(v)) \/ quicklistPop \/ LSET \/ LINDEX \/ LINSERT \/ LREM \/ LTRIM \/ LRANGE \/ Load
Spec == Init /\ [][Next]_vars

----------------------------------------------------------------------------
(* Properties                                                              *)

\* The nodes hold the list, whatever was split, merged and compressed, the counts are right
\* and no node is empty.
ListIsRight ==
    bad = "nothing" =>
    /\ FlattenSeq([i \in DOMAIN q.n |-> q.n[i].zl]) = ref
    /\ q.count = Len(ref) /\ \A i \in DOMAIN q.n : q.n[i].count = Len(q.n[i].zl) /\ q.n[i].zl # <<>>

Places(l, dir, from) ==
    LET step[k \in 1..MaxLen] == quicklistNext(IF k = 1 THEN quicklistGetIteratorAtIdx(l, from, dir) ELSE step[k - 1])
    IN [k \in 1..l.count |-> IF step[k].zi THEN ValueAt(step[k]) ELSE 0]

\* Iterators in both directions meet every entry once, in order.
IteratorsMeetAll ==
    bad = "nothing" /\ ref # <<>> => Places(q, 1, 0) = ref /\ Places(q, -1, -1) = Reverse(ref)

\* No node closer to an end than the configured depth is compressed.
DepthIsKept == Compress > 0 => \A i \in DOMAIN q.n : i <= Compress \/ i > Len(q.n) - Compress => q.n[i].raw

\* A ziplist holds no more than configured.
NodesAreSmall == \A i \in DOMAIN q.n : IF Fill < 0 THEN Len(q.n[i].zl) > 1 => Bytes(q.n[i].zl) <= -Fill ELSE Len(q.n[i].zl) <= Fill

=============================================================================
