----------------------------- MODULE SortedSet ------------------------------
(***************************************************************************)
(* Sorted sets in their two encodings (t_zset.c): a ziplist of elements    *)
(* and scores in order, or a skiplist with spans next to a dictionary.     *)
(* Elements are numbers in the order of their strings; the levels of the   *)
(* nodes of the skiplist are random.                                       *)
(***************************************************************************)
EXTENDS Integers, Sequences, FiniteSets, SequencesExt

CONSTANTS N,          \* elements 1..N
          Score, MaxLevel,
          MaxZiplist  \* zset_max_ziplist_entries

VARIABLES v,    \* the encoding, the ziplist, the skiplist and the dictionary
          ref   \* what the sorted set should contain: element -> score

vars == <<v, ref>>

Null == -1
Header == 0
Elem == 1..N
Level == 1..MaxLevel
Node == {Header} \union Elem
Empty == <<>>
Put(f, e, s) == [x \in DOMAIN f \union {e} |-> IF x = e THEN s ELSE f[x]]
Without(f, X) == [x \in DOMAIN f \ X |-> f[x]]

----------------------------------------------------------------------------
(* The skiplist                                                            *)

zslCreate == [level |-> 1, length |-> 0, tail |-> Null, score |-> Empty,
              fwd |-> [x \in Node |-> [i \in Level |-> Null]], span |-> [x \in Node |-> [i \in Level |-> 0]],
              back |-> [x \in Node |-> Null]]

\* Walks along level i while the next node belongs to B, counting the spans.
RECURSIVE Walk(_, _, _, _)
Walk(z, at, i, B) ==
    LET next == z.fwd[at[1]][i]
    IN IF next # Null /\ next \in B THEN Walk(z, <<next, at[2] + z.span[at[1]][i]>>, i, B) ELSE at

\* update[] and rank[]: the last node of B on every level, reached from the level above.
Path(z, B) == LET p[i \in 1..z.level] == Walk(z, IF i = z.level THEN <<Header, 0>> ELSE p[i + 1], i, B) IN p

Precedes(z, s, e) == {x \in DOMAIN z.score : z.score[x] < s \/ (z.score[x] = s /\ x < e)}

\* A bug for comparison: spans of the levels above the new node are not increased.
LinkLow(z, s, e, level, p) ==
    LET at(i) == IF i <= z.level THEN p[i] ELSE <<Header, 0>>
        old(i) == IF i <= z.level THEN z.span[p[i][1]][i] ELSE z.length
        next == z.fwd[p[1][1]][1]
    IN [z EXCEPT !.level = IF level > @ THEN level ELSE @, !.length = @ + 1, !.score = Put(@, e, s),
          !.fwd = [x \in Node |-> [i \in Level |->
                     IF i > level THEN z.fwd[x][i] ELSE IF x = e THEN z.fwd[at(i)[1]][i] ELSE IF x = at(i)[1] THEN e ELSE z.fwd[x][i]]],
          !.span = [x \in Node |-> [i \in Level |->
                     IF i > level THEN z.span[x][i]
                     ELSE IF x = e THEN old(i) - (p[1][2] - at(i)[2])
                     ELSE IF x = at(i)[1] THEN p[1][2] - at(i)[2] + 1 ELSE z.span[x][i]]],
          !.back = [x \in Node |-> IF x = e THEN IF p[1][1] = Header THEN Null ELSE p[1][1]
                                   ELSE IF x = next THEN e ELSE z.back[x]],
          !.tail = IF next = Null THEN e ELSE @]

\* Links a new node of the level behind the nodes of the path.
Link(z, s, e, level, p) ==
    LET at(i) == IF i <= z.level THEN p[i] ELSE <<Header, 0>>
        old(i) == IF i <= z.level THEN z.span[p[i][1]][i] ELSE z.length
        next == z.fwd[p[1][1]][1]
    IN [z EXCEPT !.level = IF level > @ THEN level ELSE @, !.length = @ + 1, !.score = Put(@, e, s),
          !.fwd = [x \in Node |-> [i \in Level |->
                     IF i > level THEN z.fwd[x][i] ELSE IF x = e THEN z.fwd[at(i)[1]][i] ELSE IF x = at(i)[1] THEN e ELSE z.fwd[x][i]]],
          !.span = [x \in Node |-> [i \in Level |->
                     IF i > level THEN IF i <= z.level /\ x = p[i][1] THEN z.span[x][i] + 1 ELSE z.span[x][i]
                     ELSE IF x = e THEN old(i) - (p[1][2] - at(i)[2])
                     ELSE IF x = at(i)[1] THEN p[1][2] - at(i)[2] + 1 ELSE z.span[x][i]]],
          !.back = [x \in Node |-> IF x = e THEN IF p[1][1] = Header THEN Null ELSE p[1][1]
                                   ELSE IF x = next THEN e ELSE z.back[x]],
          !.tail = IF next = Null THEN e ELSE @]

zslInsert(z, s, e, level) == Link(z, s, e, level, Path(z, Precedes(z, s, e)))

\* u[i] is the node before x on level i.  What x pointed to is freed with it.
zslDeleteNode(z, x, u) ==
    LET fwd == [y \in Node |-> [i \in Level |-> IF y = x THEN Null
                   ELSE IF i <= z.level /\ y = u[i] /\ z.fwd[y][i] = x THEN z.fwd[x][i] ELSE z.fwd[y][i]]]
        top == {i \in 2..z.level : fwd[Header][i] # Null}
    IN [z EXCEPT !.fwd = fwd, !.length = @ - 1, !.score = Without(@, {x}),
          !.span = [y \in Node |-> [i \in Level |->
                     IF y = x THEN 0
                     ELSE IF i > z.level \/ y # u[i] THEN z.span[y][i]
                     ELSE IF z.fwd[y][i] = x THEN z.span[y][i] + z.span[x][i] - 1 ELSE z.span[y][i] - 1]],
          !.back = [y \in Node |-> IF y = x THEN Null ELSE IF y = z.fwd[x][1] THEN z.back[x] ELSE z.back[y]],
          !.tail = IF z.fwd[x][1] = Null THEN z.back[x] ELSE @,
          !.level = IF top = {} THEN 1 ELSE CHOOSE i \in top : \A j \in top : j <= i]

Nodes(p) == [i \in DOMAIN p |-> p[i][1]]

zslDelete(z, s, e) == zslDeleteNode(z, e, Nodes(Path(z, Precedes(z, s, e))))

\* The node is kept where it is if it certainly stays there.
zslUpdateScore(z, s, e, new, level) ==
    IF (z.back[e] = Null \/ z.score[z.back[e]] < new) /\ (z.fwd[e][1] = Null \/ z.score[z.fwd[e][1]] > new)
    THEN [z EXCEPT !.score[e] = new]
    ELSE zslInsert(zslDelete(z, s, e), new, e, level)

\* Deletes the nodes after the path while they belong to D.
RECURSIVE DeleteWhile(_, _, _)
DeleteWhile(z, u, D) ==
    LET x == z.fwd[u[1]][1]
    IN IF x # Null /\ x \in D THEN DeleteWhile(zslDeleteNode(z, x, u), u, D) ELSE z

\* A range of scores or elements: [min, minex, max, maxex].
GteMin(x, r) == IF r.minex THEN x > r.min ELSE x >= r.min
LteMax(x, r) == IF r.maxex THEN x < r.max ELSE x <= r.max
EmptyRange(r) == r.min > r.max \/ (r.min = r.max /\ (r.minex \/ r.maxex))

zslDeleteRangeByScore(z, r) ==
    DeleteWhile(z, Nodes(Path(z, {x \in DOMAIN z.score : ~GteMin(z.score[x], r)})), {x \in DOMAIN z.score : LteMax(z.score[x], r)})

zslDeleteRangeByLex(z, r) ==
    DeleteWhile(z, Nodes(Path(z, {x \in DOMAIN z.score : ~GteMin(x, r)})), {x \in DOMAIN z.score : LteMax(x, r)})

\* Walks along level i while the rank stays below the limit.
RECURSIVE RankWalk(_, _, _, _)
RankWalk(z, at, i, limit) ==
    LET next == z.fwd[at[1]][i]
    IN IF next # Null /\ at[2] + z.span[at[1]][i] < limit
       THEN RankWalk(z, <<next, at[2] + z.span[at[1]][i]>>, i, limit) ELSE at

RankPath(z, limit) == LET p[i \in 1..z.level] == RankWalk(z, IF i = z.level THEN <<Header, 0>> ELSE p[i + 1], i, limit) IN p

RECURSIVE DeleteCount(_, _, _)
DeleteCount(z, u, n) ==
    IF n = 0 \/ z.fwd[u[1]][1] = Null THEN z ELSE DeleteCount(zslDeleteNode(z, z.fwd[u[1]][1], u), u, n - 1)

\* From rank start to rank end, counted from 1.
zslDeleteRangeByRank(z, start, end) == DeleteCount(z, Nodes(RankPath(z, start)), end - RankPath(z, start)[1][2])

\* The rank on the first level the walk meets the element.
zslGetRank(z, s, e) ==
    LET p == Path(z, Precedes(z, s, e) \union {e})
        met == {i \in DOMAIN p : p[i][1] = e}
    IN IF met = {} THEN 0 ELSE p[CHOOSE i \in met : \A j \in met : j <= i][2]

zslGetElementByRank(z, rank) ==
    LET p == RankPath(z, rank + 1)
        met == {i \in DOMAIN p : p[i][2] = rank}
    IN IF met = {} THEN Null ELSE p[CHOOSE i \in met : \A j \in met : j <= i][1]

zslIsInRange(z, r) == /\ ~EmptyRange(r) /\ z.tail # Null /\ GteMin(z.score[z.tail], r)
                      /\ LteMax(z.score[z.fwd[Header][1]], r)

zslFirstInRange(z, r) ==
    LET x == z.fwd[Path(z, {y \in DOMAIN z.score : ~GteMin(z.score[y], r)})[1][1]][1]
    IN IF ~zslIsInRange(z, r) \/ ~LteMax(z.score[x], r) THEN Null ELSE x

zslLastInRange(z, r) ==
    LET x == Path(z, {y \in DOMAIN z.score : LteMax(z.score[y], r)})[1][1]
    IN IF ~zslIsInRange(z, r) \/ ~GteMin(z.score[x], r) THEN Null ELSE x

\* By elements: the same walks, with the element in the place of the score.
ByName(z) == [z EXCEPT !.score = [x \in DOMAIN @ |-> x]]
zslFirstInLexRange(z, r) == zslFirstInRange(ByName(z), r)
zslLastInLexRange(z, r) == zslLastInRange(ByName(z), r)

----------------------------------------------------------------------------
(* The ziplist: a sequence of <<element, score>>                           *)

zzlInsert(l, e, s) ==
    LET p == SelectInSeq(l, LAMBDA x : x[2] > s \/ (x[2] = s /\ x[1] > e))
    IN IF p = 0 THEN Append(l, <<e, s>>) ELSE InsertAt(l, p, <<e, s>>)

zzlFind(l, e) == SelectInSeq(l, LAMBDA x : x[1] = e)
zzlDelete(l, e) == SelectSeq(l, LAMBDA x : x[1] # e)

zzlIsInRange(l, r) == ~EmptyRange(r) /\ l # <<>> /\ GteMin(Last(l)[2], r) /\ LteMax(Head(l)[2], r)

\* Positions; 0 for none.
zzlFirstInRange(l, r) ==
    LET p == SelectInSeq(l, LAMBDA x : GteMin(x[2], r))
    IN IF ~zzlIsInRange(l, r) \/ ~LteMax(l[p][2], r) THEN 0 ELSE p

zzlLastInRange(l, r) ==
    LET p == SelectLastInSeq(l, LAMBDA x : LteMax(x[2], r))
    IN IF ~zzlIsInRange(l, r) \/ ~GteMin(l[p][2], r) THEN 0 ELSE p

ZipByName(l) == [i \in DOMAIN l |-> <<l[i][1], l[i][1]>>]
zzlFirstInLexRange(l, r) == zzlFirstInRange(ZipByName(l), r)

\* The entries from position p on that In holds for are deleted, up to the first it does not.
CutWhile(l, p, In(_)) ==
    LET stop == SelectInSeq(SubSeq(l, p, Len(l)), LAMBDA x : ~In(x))
    IN SubSeq(l, 1, p - 1) \o IF stop = 0 THEN <<>> ELSE SubSeq(l, p + stop - 1, Len(l))

zzlDeleteRangeByScore(l, r) ==
    LET p == zzlFirstInRange(l, r)
    IN IF p = 0 THEN l ELSE CutWhile(l, p, LAMBDA x : LteMax(x[2], r))

zzlDeleteRangeByLex(l, r) ==
    LET p == zzlFirstInLexRange(l, r)
    IN IF p = 0 THEN l ELSE CutWhile(l, p, LAMBDA x : LteMax(x[1], r))

zzlDeleteRangeByRank(l, start, end) == SubSeq(l, 1, start - 1) \o SubSeq(l, end + 1, Len(l))

----------------------------------------------------------------------------
(* Sorted sets of either encoding                                          *)

IsZip(o) == o.enc = "ziplist"
zsetLength(o) == IF IsZip(o) THEN Len(o.zl) ELSE o.z.length

\* Levels: a level for every node that is created.
zsetConvert(o, enc, levels) ==
    IF o.enc = enc THEN o
    ELSE IF IsZip(o) THEN
         [enc |-> enc, zl |-> <<>>, dict |-> FoldLeft(LAMBDA d, x : Put(d, x[1], x[2]), Empty, o.zl),
          z |-> FoldLeft(LAMBDA z, x : zslInsert(z, x[2], x[1], levels[x[1]]), zslCreate, o.zl)]
    ELSE LET order[x \in Node \union {Null}] == IF x = Null THEN <<>> ELSE <<<<x, o.z.score[x]>>>> \o order[o.z.fwd[x][1]]
         IN [enc |-> enc, zl |-> order[o.z.fwd[Header][1]], z |-> zslCreate, dict |-> Empty]

zsetScore(o, e) == IF IsZip(o) THEN IF zzlFind(o.zl, e) = 0 THEN Null ELSE o.zl[zzlFind(o.zl, e)][2]
                   ELSE IF e \in DOMAIN o.dict THEN o.dict[e] ELSE Null

zsetAdd(o, s, e, levels) ==
    LET zip(l) == IF Len(l) > MaxZiplist THEN zsetConvert([o EXCEPT !.zl = l], "skiplist", levels) ELSE [o EXCEPT !.zl = l]
    IN IF zsetScore(o, e) = s THEN o
       ELSE IF IsZip(o) THEN IF zzlFind(o.zl, e) # 0 THEN [o EXCEPT !.zl = zzlInsert(zzlDelete(@, e), e, s)]
                             ELSE zip(zzlInsert(o.zl, e, s))
       ELSE IF e \in DOMAIN o.dict
            THEN [o EXCEPT !.z = zslUpdateScore(@, o.dict[e], e, s, levels[e]), !.dict[e] = s]
       ELSE [o EXCEPT !.z = zslInsert(@, s, e, levels[e]), !.dict = Put(@, e, s)]

zsetDel(o, e) ==
    IF IsZip(o) THEN [o EXCEPT !.zl = zzlDelete(@, e)]
    ELSE IF e \in DOMAIN o.dict THEN [o EXCEPT !.z = zslDelete(@, o.dict[e], e), !.dict = Without(@, {e})]
    ELSE o

\* A deleted node leaves the dictionary too.
DeleteRange(o, z) == [o EXCEPT !.z = z, !.dict = Without(@, DOMAIN o.z.score \ DOMAIN z.score)]

zsetRank(o, e, reverse) ==
    LET rank == IF IsZip(o) THEN zzlFind(o.zl, e) ELSE zslGetRank(o.z, o.dict[e], e)
    IN IF zsetScore(o, e) = Null THEN Null ELSE IF reverse THEN zsetLength(o) - rank ELSE rank - 1

\* The nodes from x on, at most n of them, while In holds.
RECURSIVE Follow(_, _, _, _, _)
Follow(z, x, reverse, n, In) ==
    IF x = Null \/ n = 0 \/ x \notin In THEN <<>>
    ELSE <<x>> \o Follow(z, IF reverse THEN z.back[x] ELSE z.fwd[x][1], reverse, n - 1, In)

\* Indexes count from 0, or from the end when negative.
zrangeGenericCommand(o, first, last, reverse) ==
    LET n == zsetLength(o)
        start == IF first < 0 THEN IF n + first < 0 THEN 0 ELSE n + first ELSE first
        stop == IF last < 0 THEN n + last ELSE last
        end == IF stop >= n THEN n - 1 ELSE stop
        from == IF reverse THEN IF start > 0 THEN zslGetElementByRank(o.z, n - start) ELSE o.z.tail
                ELSE IF start > 0 THEN zslGetElementByRank(o.z, start + 1) ELSE o.z.fwd[Header][1]
    IN IF start > stop \/ start >= n THEN <<>>
       ELSE IF IsZip(o) THEN [i \in 1..end - start + 1 |-> o.zl[IF reverse THEN n - start - i + 1 ELSE start + i][1]]
       ELSE Follow(o.z, from, reverse, end - start + 1, Elem)

\* LIMIT offset n (n < 0: all): the first ones are skipped without a look at their score.
genericZrangebyscoreCommand(o, r, reverse, offset, n) ==
    LET inside(s) == IF reverse THEN GteMin(s, r) ELSE LteMax(s, r)
        all == IF reverse THEN zzlLastInRange(o.zl, r) ELSE zzlFirstInRange(o.zl, r)
        found == IF reverse THEN zslLastInRange(o.z, r) ELSE zslFirstInRange(o.z, r)
        skip[k \in 0..N, x \in Elem \union {Null}] ==
            IF k = 0 \/ x = Null THEN x ELSE skip[k - 1, IF reverse THEN o.z.back[x] ELSE o.z.fwd[x][1]]
        rest == IF reverse THEN Reverse(SubSeq(o.zl, 1, all - offset)) ELSE SubSeq(o.zl, all + offset, Len(o.zl))
        cut == SelectInSeq(rest, LAMBDA x : ~inside(x[2]))
        kept == IF cut = 0 THEN rest ELSE SubSeq(rest, 1, cut - 1)
    IN IF IsZip(o)
       THEN IF all = 0 THEN <<>> ELSE [i \in 1..(IF n < 0 \/ n > Len(kept) THEN Len(kept) ELSE n) |-> kept[i][1]]
       ELSE IF found = Null THEN <<>>
       ELSE Follow(o.z, skip[offset, found], reverse, IF n < 0 THEN N ELSE n,
                   {x \in DOMAIN o.z.score : inside(o.z.score[x])})

\* Ranks of the first and of the last element in the range.
CountBetween(z, first, last) ==
    IF first = Null THEN 0
    ELSE (z.length - (zslGetRank(z, z.score[first], first) - 1))
         - (IF last = Null THEN 0 ELSE z.length - zslGetRank(z, z.score[last], last))

zcountCommand(o, r) ==
    IF IsZip(o) THEN Len(genericZrangebyscoreCommand(o, r, FALSE, 0, -1))
    ELSE CountBetween(o.z, zslFirstInRange(o.z, r), zslLastInRange(o.z, r))

genericZrangebylexCommand(o, r, reverse, offset, n) ==
    genericZrangebyscoreCommand([o EXCEPT !.z = ByName(@), !.zl = ZipByName(@)], r, reverse, offset, n)

zlexcountCommand(o, r) ==
    IF IsZip(o) THEN Len(genericZrangebylexCommand(o, r, FALSE, 0, -1))
    ELSE CountBetween(o.z, zslFirstInLexRange(o.z, r), zslLastInLexRange(o.z, r))

----------------------------------------------------------------------------
(* Operations                                                              *)

New == [enc |-> "ziplist", zl |-> <<>>, z |-> zslCreate, dict |-> Empty]
Range_ == [min : Score, minex : BOOLEAN, max : Score, maxex : BOOLEAN]
LexRange == [min : Elem, minex : BOOLEAN, max : Elem, maxex : BOOLEAN]
Between(x, r) == GteMin(x, r) /\ LteMax(x, r)

Add == \E e \in Elem, s \in Score, levels \in [Elem -> Level] :
          /\ zsetScore(v, e) # Null \/ zsetLength(v) # MaxZiplist => \A x \in Elem \ {e} : levels[x] = 1  \* not used
          /\ v' = zsetAdd(v, s, e, levels) /\ ref' = Put(ref, e, s)

Delete == \E e \in Elem : v' = zsetDel(v, e) /\ ref' = Without(ref, {e})

RemoveByScore == \E r \in Range_ :
    /\ v' = IF IsZip(v) THEN [v EXCEPT !.zl = zzlDeleteRangeByScore(@, r)] ELSE DeleteRange(v, zslDeleteRangeByScore(v.z, r))
    /\ ref' = Without(ref, {e \in DOMAIN ref : Between(ref[e], r)})

\* Ranges of elements have a meaning when all scores are equal only.
RemoveByLex == \E r \in LexRange :
    /\ \A x, y \in DOMAIN ref : ref[x] = ref[y]
    /\ v' = IF IsZip(v) THEN [v EXCEPT !.zl = zzlDeleteRangeByLex(@, r)] ELSE DeleteRange(v, zslDeleteRangeByLex(v.z, r))
    /\ ref' = Without(ref, {e \in DOMAIN ref : Between(e, r)})

Sorted(f) == SetToSortSeq(DOMAIN f, LAMBDA x, y : f[x] < f[y] \/ (f[x] = f[y] /\ x < y))

\* zremrangeGenericCommand() brings the indexes into the bounds.
RemoveByRank == \E start \in 1..N : \E end \in start..N :
    /\ end <= zsetLength(v)
    /\ v' = IF IsZip(v) THEN [v EXCEPT !.zl = zzlDeleteRangeByRank(@, start, end)] ELSE DeleteRange(v, zslDeleteRangeByRank(v.z, start, end))
    /\ ref' = Without(ref, {Sorted(ref)[i] : i \in start..end})

\* Results of ZUNIONSTORE and loaded sorted sets are made small again.
zsetConvertToZiplistIfNeeded ==
    /\ ~IsZip(v) /\ zsetLength(v) <= MaxZiplist
    /\ v' = zsetConvert(v, "ziplist", <<>>) /\ UNCHANGED ref

Init == v = New /\ ref = Empty
Next == Add \/ Delete \/ RemoveByScore \/ RemoveByLex \/ RemoveByRank \/ zsetConvertToZiplistIfNeeded
Spec == Init /\ [][Next]_vars

----------------------------------------------------------------------------
(* Properties                                                              *)

\* Both encodings hold the elements in the order of score and name, and the dictionary,
\* the links in both directions, the tail, the length and the height of the skiplist agree.
OrderIsRight ==
    LET order == Sorted(ref)
        z == v.z
        onLevel(i) == SelectSeq(order, LAMBDA e : z.fwd[e][i] # Null \/ z.span[e][i] # 0
                                                  \/ \E x \in Node : z.fwd[x][i] = e)
    IN IF IsZip(v) THEN v.zl = [i \in DOMAIN order |-> <<order[i], ref[order[i]]>>]
       ELSE /\ v.dict = ref /\ z.score = ref /\ z.length = Len(order)
            /\ z.tail = IF order = <<>> THEN Null ELSE Last(order)
            /\ \A i \in 1..z.level :
                  LET l == <<Header>> \o onLevel(i)
                  IN \A k \in DOMAIN l : z.fwd[l[k]][i] = IF k = Len(l) THEN Null ELSE l[k + 1]
            /\ \A k \in DOMAIN order : z.back[order[k]] = IF k = 1 THEN Null ELSE order[k - 1]
            /\ z.level = 1 \/ z.fwd[Header][z.level] # Null

\* The spans, kept up to date by insertions and deletions on every level, give the rank of
\* every element and the element of every rank.
RanksAreRight ==
    LET order == Sorted(ref)
    IN \A k \in DOMAIN order :
          /\ zsetRank(v, order[k], FALSE) = k - 1 /\ zsetRank(v, order[k], TRUE) = Len(order) - k
          /\ ~IsZip(v) => zslGetElementByRank(v.z, k) = order[k]

\* Ranges by index and by score with LIMIT, forwards and backwards, and counts are those of
\* the ordered elements, in both encodings.
RangesAreRight ==
    LET order == Sorted(ref)
        picked(r) == SelectSeq(order, LAMBDA e : Between(ref[e], r))
        turned(q, reverse) == IF reverse THEN Reverse(q) ELSE q
        limited(q, offset, n) == SubSeq(q, offset + 1, IF n < 0 \/ offset + n > Len(q) THEN Len(q) ELSE offset + n)
        index(i) == IF i < 0 THEN Len(order) + i ELSE i
    IN \A reverse \in BOOLEAN :
          /\ \A r \in Range_ : \A offset \in 0..2 : \A n \in {-1, 1, 2} :
                genericZrangebyscoreCommand(v, r, reverse, offset, n) = limited(turned(picked(r), reverse), offset, n)
          /\ \A i, j \in -2..N :
                zrangeGenericCommand(v, i, j, reverse) =
                    LET q == turned(order, reverse)
                        at == {k \in DOMAIN q : k > index(i) /\ k <= index(j) + 1}
                    IN SelectSeq(q, LAMBDA e : \E k \in at : q[k] = e)
          /\ \A r \in Range_ : zcountCommand(v, r) = Len(picked(r))

\* When all scores are equal the ranges by element name are those of the ordered names,
\* forwards, backwards, limited and counted, in both encodings.
LexRangesAreRight ==
    LET picked(r) == SelectSeq(Sorted(ref), LAMBDA e : Between(e, r))
        limited(q, offset, n) == SubSeq(q, offset + 1, IF n < 0 \/ offset + n > Len(q) THEN Len(q) ELSE offset + n)
    IN (\A x, y \in DOMAIN ref : ref[x] = ref[y]) =>
          \A r \in LexRange :
             /\ zlexcountCommand(v, r) = Len(picked(r))
             /\ \A offset \in 0..1 : \A n \in {-1, 1} :
                   /\ genericZrangebylexCommand(v, r, FALSE, offset, n) = limited(picked(r), offset, n)
                   /\ genericZrangebylexCommand(v, r, TRUE, offset, n) = limited(Reverse(picked(r)), offset, n)
=============================================================================
