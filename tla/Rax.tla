--------------------------------- MODULE Rax ---------------------------------
(***************************************************************************)
(* The radix tree (rax.c) behind streams, consumer groups, the slots of    *)
(* keys and the clients table.  A node is named by the characters on the   *)
(* way to it, so pointers to nodes are sequences and the pointer in the    *)
(* parent needs no update; allocation does not fail, since zmalloc()       *)
(* stops the server.                                                       *)
(***************************************************************************)
EXTENDS Integers, Sequences, FiniteSets, SequencesExt, FiniteSetsExt

CONSTANTS Key,      \* the keys that are inserted
          Probe,    \* the strings that are looked for
          Data,     \* data of keys; NULL may be a member
          MaxSize,  \* RAX_NODE_MAX_SIZE
          MaxKeys   \* bound on the keys in the tree

VARIABLES r,   \* the tree: nodes [chars, compr, key, data], numele, numnodes
          map  \* the map it should be

vars == <<r, map>>

NULL == "NULL"
head == <<>>
raxNewNode == [chars |-> <<>>, compr |-> FALSE, key |-> FALSE, data |-> NULL]
raxNew == [nodes |-> head :> raxNewNode, numele |-> 0, numnodes |-> 1]

----------------------------------------------------------------------------
(* Walking                                                                 *)

Common(s, t) == CHOOSE n \in 0..Min({Len(s), Len(t)}) :
    SubSeq(s, 1, n) = SubSeq(t, 1, n) /\ (n < Min({Len(s), Len(t)}) => s[n + 1] # t[n + 1])

Child(t, p, c) == IF t[p].compr THEN p \o t[p].chars ELSE Append(p, c)
OneChild(h) == h.compr \/ Len(h.chars) = 1

\* From the node p: the characters that were met, the node where it ends, the position in a
\* compressed node, and the nodes on the way.
RECURSIVE WalkFrom(_, _, _, _)
WalkFrom(t, s, p, ts) ==
    LET h == t[p]
        rest == SubSeq(s, Len(p) + 1, Len(s))
        m == Common(h.chars, rest)
        stop(n) == [i |-> Len(p) + n, p |-> p, j |-> n, ts |-> ts]
    IN IF h.chars = <<>> \/ rest = <<>> THEN stop(0)
       ELSE IF h.compr /\ m # Len(h.chars) THEN stop(m)
       ELSE IF ~h.compr /\ rest[1] \notin Range(h.chars) THEN stop(0)
       ELSE WalkFrom(t, s, Child(t, p, rest[1]), Append(ts, p))

raxLowWalk(t, s) == WalkFrom(t, s, head, <<>>)

\* The node stands for the string itself and is a key.
Hit(t, s, w) == w.i = Len(s) /\ ~(t[w.p].compr /\ w.j # 0) /\ t[w.p].key

raxFind(t, s) == LET w == raxLowWalk(t, s) IN IF Hit(t, s, w) THEN <<t[w.p].data>> ELSE <<>>

----------------------------------------------------------------------------
(* Insertion                                                               *)

\* The characters stay in order.
raxAddChild(a, p, c) ==
    LET chars == a.nodes[p].chars
        pos == Cardinality({k \in DOMAIN chars : chars[k] <= c})
    IN [a EXCEPT !.nodes = (Append(p, c) :> raxNewNode) @@ [@ EXCEPT ![p].chars = InsertAt(chars, pos + 1, c)],
                 !.numnodes = @ + 1]

raxCompressNode(a, p, s) ==
    [a EXCEPT !.nodes = (p \o s :> raxNewNode) @@ [@ EXCEPT ![p].chars = s, ![p].compr = TRUE], !.numnodes = @ + 1]

raxSetData(a, p, data) ==
    [a EXCEPT !.nodes[p].key = TRUE, !.nodes[p].data = data, !.numele = IF a.nodes[p].key THEN @ ELSE @ + 1]

Piece(chars, key, data) == [chars |-> chars, compr |-> Len(chars) > 1, key |-> key, data |-> data]

\* A bug for comparison: the split node is not made a key when nothing is left before it.
SplitForgets(a, p, j) ==
    LET h == a.nodes[p]
        postfix == SubSeq(h.chars, j + 2, Len(h.chars))
        q == p \o SubSeq(h.chars, 1, j)
        split == q :> Piece(<<h.chars[j + 1]>>, FALSE, NULL)
        trimmed == IF j = 0 THEN split ELSE p :> Piece(SubSeq(h.chars, 1, j), h.key, h.data)
        tail == IF postfix = <<>> THEN split ELSE Append(q, h.chars[j + 1]) :> Piece(postfix, FALSE, NULL)
    IN [a EXCEPT !.nodes = trimmed @@ split @@ tail @@ @,
                 !.numnodes = @ + (IF j = 0 THEN 0 ELSE 1) + (IF postfix = <<>> THEN 0 ELSE 1)]

\* Algorithm 1: the key differs from the compressed node at j.  The node with the character
\* that differs takes the place of the compressed node, or follows what is left of it.
SplitAt(a, p, j) ==
    LET h == a.nodes[p]
        postfix == SubSeq(h.chars, j + 2, Len(h.chars))
        q == p \o SubSeq(h.chars, 1, j)
        split == q :> Piece(<<h.chars[j + 1]>>, j = 0 /\ h.key, IF j = 0 THEN h.data ELSE NULL)
        trimmed == IF j = 0 THEN split ELSE p :> Piece(SubSeq(h.chars, 1, j), h.key, h.data)
        tail == IF postfix = <<>> THEN split ELSE Append(q, h.chars[j + 1]) :> Piece(postfix, FALSE, NULL)
    IN [a EXCEPT !.nodes = trimmed @@ split @@ tail @@ @,
                 !.numnodes = @ + (IF j = 0 THEN 0 ELSE 1) + (IF postfix = <<>> THEN 0 ELSE 1)]

\* Algorithm 2: the key ends inside the compressed node.
CutAt(a, p, j, data) ==
    LET h == a.nodes[p]
    IN [a EXCEPT !.nodes = (p :> Piece(SubSeq(h.chars, 1, j), h.key, h.data))
                           @@ (p \o SubSeq(h.chars, 1, j) :> Piece(SubSeq(h.chars, j + 1, Len(h.chars)), TRUE, data)) @@ @,
                 !.numnodes = @ + 1, !.numele = @ + 1]

\* What is left of the key becomes nodes below p.
RECURSIVE InsertRest(_, _, _, _)
InsertRest(a, s, p, data) ==
    LET left == Len(s) - Len(p)
        run == SubSeq(s, Len(p) + 1, Len(p) + Min({left, MaxSize}))
    IN IF left = 0 THEN raxSetData(a, p, data)
       ELSE IF a.nodes[p].chars = <<>> /\ left > 1 THEN InsertRest(raxCompressNode(a, p, run), s, p \o run, data)
       ELSE InsertRest(raxAddChild(a, p, s[Len(p) + 1]), s, Append(p, s[Len(p) + 1]), data)

raxGenericInsert(a, s, data, overwrite) ==
    LET w == raxLowWalk(a.nodes, s)
        h == a.nodes[w.p]
    IN IF w.i = Len(s) /\ (~h.compr \/ w.j = 0)
       THEN IF h.key /\ ~overwrite THEN a ELSE raxSetData(a, w.p, data)
       ELSE IF h.compr /\ w.i # Len(s)
       THEN InsertRest(SplitAt(a, w.p, w.j), s, w.p \o SubSeq(h.chars, 1, w.j), data)
       ELSE IF h.compr THEN CutAt(a, w.p, w.j, data)
       ELSE InsertRest(a, s, w.p, data)

----------------------------------------------------------------------------
(* Removal                                                                 *)

Drop(a, paths) == [a EXCEPT !.nodes = [p \in DOMAIN @ \ paths |-> @[p]], !.numnodes = @ - Cardinality(paths)]

raxRemoveChild(a, p, child) ==
    [a EXCEPT !.nodes[p] = IF @.compr THEN [@ EXCEPT !.compr = FALSE, !.chars = <<>>]
                           ELSE [@ EXCEPT !.chars = SelectSeq(@, LAMBDA c : c # child[Len(p) + 1])]]

\* Frees the leaf p and the nodes above it that only led there; the stack is left at the
\* parent of the last one.
RECURSIVE Reclaim(_, _, _)
Reclaim(a, p, ts) ==
    LET up == Last(ts)
        freed == Drop(a, {p})
    IN IF up # head /\ ~a.nodes[up].key /\ OneChild(a.nodes[up]) THEN Reclaim(freed, up, Front(ts))
       ELSE [a |-> raxRemoveChild(freed, up, p), p |-> up, ts |-> Front(ts)]

\* The highest node of the chain that can be compressed.
RECURSIVE TopOf(_, _, _)
TopOf(t, p, ts) ==
    IF ts = <<>> THEN p ELSE IF t[Last(ts)].key \/ ~OneChild(t[Last(ts)]) THEN p ELSE TopOf(t, Last(ts), Front(ts))

\* The chain of nodes from p on; the first scan stops at the size a node can have, the second
\* does not.
RECURSIVE Chain(_, _, _, _)
Chain(t, p, size, limited) ==
    LET next == Child(t, p, t[p].chars[1])
    IN IF t[next].key \/ ~OneChild(t[next]) \/ (limited /\ size + Len(t[next].chars) > MaxSize) THEN <<p>>
       ELSE <<p>> \o Chain(t, next, size + Len(t[next].chars), limited)

\* The chain becomes one compressed node.
Recompress(a, top) ==
    LET size == Len(a.nodes[top].chars)
        all == Chain(a.nodes, top, size, FALSE)
        chars == FlattenSeq([k \in DOMAIN all |-> a.nodes[all[k]].chars])
    IN IF Len(Chain(a.nodes, top, size, TRUE)) = 1 THEN a
       ELSE [Drop(a, Range(Tail(all))) EXCEPT !.nodes[top] = [chars |-> chars, compr |-> TRUE, key |-> FALSE, data |-> NULL]]

raxRemove(a, s) ==
    LET w == raxLowWalk(a.nodes, s)
        h == a.nodes[w.p]
        unset == [a EXCEPT !.nodes[w.p].key = FALSE, !.nodes[w.p].data = NULL, !.numele = @ - 1]
        up == Reclaim(unset, w.p, w.ts)
    IN IF ~Hit(a.nodes, s, w) THEN a
       ELSE IF h.chars = <<>> /\ w.p = head THEN unset
       ELSE IF h.chars = <<>>
       THEN IF Len(up.a.nodes[up.p].chars) = 1 /\ ~up.a.nodes[up.p].key
            THEN Recompress(up.a, TopOf(up.a.nodes, up.p, up.ts)) ELSE up.a
       ELSE IF Len(h.chars) = 1 THEN Recompress(unset, TopOf(unset.nodes, w.p, w.ts))
       ELSE unset

\* The nodes raxRecursiveFree() releases below p.
RECURSIVE raxRecursiveFree(_, _)
raxRecursiveFree(t, p) ==
    {p} \union UNION {raxRecursiveFree(t, Child(t, p, c)) : c \in Range(t[p].chars)}

----------------------------------------------------------------------------
(* Iterators: [key, node, stack, data, eof, just: seeked and not yet read] *)

raxStart == [key |-> <<>>, node |-> head, stack |-> <<>>, data |-> NULL, eof |-> TRUE, just |-> FALSE]

DelChars(it, h) == [it EXCEPT !.key = SubSeq(@, 1, Len(@) - IF h.compr THEN Len(h.chars) ELSE 1)]
GetData(t, it) == [it EXCEPT !.data = t[it.node].data]

\* Down to the child with the k-th character.
Enter(t, it, k) ==
    LET h == t[it.node]
    IN [it EXCEPT !.stack = Append(@, it.node), !.node = Child(t, @, h.chars[k]),
                  !.key = @ \o IF h.compr THEN h.chars ELSE <<h.chars[k]>>]

\* Up to the parent, unless the node is already the one to look at.
Up(t, it, noup) ==
    LET at == IF noup THEN it ELSE [it EXCEPT !.node = Last(it.stack), !.stack = Front(@)]
    IN DelChars(at, t[at.node])

\* The places of the characters beyond the one the iterator comes from.
Beyond(t, p, noup, c, forward) ==
    LET chars == t[p].chars
    IN {k \in DOMAIN chars : /\ ~t[p].compr /\ Len(chars) > (IF noup THEN 0 ELSE 1)
                             /\ IF forward THEN chars[k] > c ELSE chars[k] < c}

RECURSIVE NextFrom(_, _, _), NextUp(_, _, _, _)
\* Down to the first child; a key on the way comes before those below it.
NextFrom(t, it, was) ==
    LET down == Enter(t, it, 1)
    IN IF t[it.node].chars = <<>> THEN NextUp(t, it, FALSE, was)
       ELSE IF t[down.node].key THEN GetData(t, down) ELSE NextFrom(t, down, was)

\* Up until there is a greater child.
NextUp(t, it, noup, was) ==
    LET up == Up(t, it, noup)
        more == Beyond(t, up.node, noup, Last(it.key), TRUE)
        side == Enter(t, up, Min(more))
    IN IF ~noup /\ it.node = head THEN [was EXCEPT !.eof = TRUE]
       ELSE IF more = {} THEN NextUp(t, up, FALSE, was)
       ELSE IF t[side.node].key THEN GetData(t, side) ELSE NextFrom(t, side, was)

raxIteratorNextStep(t, it, noup) ==
    IF it.eof THEN it ELSE IF it.just THEN [it EXCEPT !.just = FALSE]
    ELSE IF noup THEN NextUp(t, it, TRUE, it) ELSE NextFrom(t, it, it)

RECURSIVE raxSeekGreatest(_, _)
raxSeekGreatest(t, it) ==
    IF t[it.node].chars = <<>> THEN it ELSE raxSeekGreatest(t, Enter(t, it, Len(t[it.node].chars)))

\* Up until there is a smaller child, and down to the greatest key below it, or to a key on
\* the way up.
RECURSIVE PrevUp(_, _, _, _)
PrevUp(t, it, noup, was) ==
    LET up == Up(t, it, noup)
        less == Beyond(t, up.node, noup, Last(it.key), FALSE)
        to == IF less = {} THEN up ELSE raxSeekGreatest(t, Enter(t, up, Max(less)))
    IN IF ~noup /\ it.node = head THEN [was EXCEPT !.eof = TRUE]
       ELSE IF t[to.node].key THEN GetData(t, to) ELSE PrevUp(t, to, FALSE, was)

raxIteratorPrevStep(t, it, noup) ==
    IF it.eof THEN it ELSE IF it.just THEN [it EXCEPT !.just = FALSE] ELSE PrevUp(t, it, noup, it)

Step(t, it, noup, forward) == IF forward THEN raxIteratorNextStep(t, it, noup) ELSE raxIteratorPrevStep(t, it, noup)

\* The string differs inside the compressed node: its keys are all greater or all smaller.
SeekInside(t, it, s, w, gt) ==
    LET h == t[it.node]
        greater == h.chars[w.j + 1] > s[w.i + 1]
    IN IF greater # gt THEN Step(t, [it EXCEPT !.key = @ \o h.chars], TRUE, gt)
       ELSE IF gt THEN raxIteratorNextStep(t, it, FALSE) ELSE GetData(t, raxSeekGreatest(t, it))

\* No key equals the string, or an equal one is not asked for.
SeekNear(t, s, w, gt) ==
    LET h == t[w.p]
        it == [raxStart EXCEPT !.key = w.p, !.node = w.p, !.stack = w.ts, !.eof = FALSE]
        to == IF w.i # Len(s) /\ ~h.compr THEN Step(t, [it EXCEPT !.key = Append(@, s[w.i + 1])], TRUE, gt)
              ELSE IF w.i # Len(s) THEN SeekInside(t, it, s, w, gt)
              ELSE IF h.compr /\ h.key /\ w.j # 0 /\ ~gt THEN it  \* its data is not read
              ELSE Step(t, it, FALSE, gt)
    IN [to EXCEPT !.just = TRUE]

SeekTo(a, op, s) ==
    LET w == raxLowWalk(a.nodes, s)
        found == [raxStart EXCEPT !.key = s, !.node = w.p, !.stack = w.ts, !.eof = FALSE, !.just = TRUE]
    IN IF op \in {">=", "<=", "="} /\ Hit(a.nodes, s, w) THEN GetData(a.nodes, found)
       ELSE IF op = "=" THEN [found EXCEPT !.eof = TRUE]
       ELSE SeekNear(a.nodes, s, w, op \in {">", ">="})

raxSeek(a, op, s) ==
    IF a.numele = 0 THEN raxStart
    ELSE IF op = "^" THEN SeekTo(a, ">=", <<>>)
    ELSE IF op = "$" THEN GetData(a.nodes, raxSeekGreatest(a.nodes, [raxStart EXCEPT !.eof = FALSE, !.just = TRUE]))
    ELSE SeekTo(a, op, s)

raxCompare(key, op, s) ==
    LET n == Min({Len(s), Len(key)})
        same == SubSeq(key, 1, n) = SubSeq(s, 1, n)
        k == Common(key, s) + 1
    IN IF op = "=" THEN same /\ Len(s) = Len(key)
       ELSE IF same /\ op \in {">=", "<="} /\ Len(s) = Len(key) THEN TRUE
       ELSE IF op \in {"<", "<="} THEN IF same THEN Len(key) < Len(s) ELSE key[k] < s[k]
       ELSE IF same THEN Len(key) > Len(s) ELSE key[k] > s[k]

----------------------------------------------------------------------------
(* The operations of its users                                             *)

Init == r = raxNew /\ map = <<>>

raxInsert(s, d) ==
    /\ Cardinality(DOMAIN map \union {s}) <= MaxKeys
    /\ r' = raxGenericInsert(r, s, d, TRUE) /\ map' = (s :> d) @@ map

raxTryInsert(s, d) ==
    /\ Cardinality(DOMAIN map \union {s}) <= MaxKeys
    /\ r' = raxGenericInsert(r, s, d, FALSE) /\ map' = map @@ (s :> d)

Remove1(s) == r' = raxRemove(r, s) /\ map' = [k \in DOMAIN map \ {s} |-> map[k]]

Next == \E s \in Key : Remove1(s) \/ \E d \in Data : raxInsert(s, d) \/ raxTryInsert(s, d)
Spec == Init /\ [][Next]_vars

----------------------------------------------------------------------------
(* Properties                                                              *)

\* Every key is found with its data and nothing else is, and the counts of keys and nodes
\* are those of the tree, all of whose nodes are freed with it.
TreeIsTheMap ==
    /\ \A s \in Probe : raxFind(r.nodes, s) = IF s \in DOMAIN map THEN <<map[s]>> ELSE <<>>
    /\ r.numele = Cardinality(DOMAIN map) /\ r.numnodes = Cardinality(DOMAIN r.nodes)
    /\ raxRecursiveFree(r.nodes, head) = DOMAIN r.nodes

Less(s, t) == LET n == Common(s, t) IN IF n = Len(s) THEN n < Len(t) ELSE n < Len(t) /\ s[n + 1] < t[n + 1]
Meets(k, op, s) ==
    \/ op \in {"^", "$"} \/ (op \in {"=", "<=", ">="} /\ k = s)
    \/ (op \in {"<", "<="} /\ Less(k, s)) \/ (op \in {">", ">="} /\ Less(s, k))
Best(keys, op) == CHOOSE k \in keys : \A l \in keys : l = k \/ IF op \in {"<", "<=", "$"} THEN Less(l, k) ELSE Less(k, l)
Ops == {"^", "$", "=", "<", "<=", ">", ">="}
Sought(op, s) == raxIteratorNextStep(r.nodes, raxSeek(r, op, s), FALSE)

\* A seek finds the nearest key that meets the condition, and comparing with the same
\* condition agrees.
SeekIsRight ==
    \A s \in Probe, op \in Ops :
    LET keys == {k \in DOMAIN map : Meets(k, op, s)}
    IN /\ IF keys = {} THEN Sought(op, s).eof ELSE ~Sought(op, s).eof /\ Sought(op, s).key = Best(keys, op)
       /\ op \notin {"^", "$"} => \A k \in DOMAIN map : raxCompare(k, op, s) = Meets(k, op, s)

\* From wherever it was put, an iterator meets the next key in either direction, with its data.
StepsAreRight ==
    \A s \in Probe, op \in Ops, forward \in BOOLEAN :
    LET it == Sought(op, s)
        to == Step(r.nodes, it, FALSE, forward)
        keys == {k \in DOMAIN map : IF forward THEN Less(it.key, k) ELSE Less(k, it.key)}
    IN it.eof \/ IF keys = {} THEN to.eof
                 ELSE ~to.eof /\ to.key = Best(keys, IF forward THEN ">" ELSE "<") /\ to.data = map[to.key]

\* Inner nodes lead to keys: none is a leaf without being one.
NoDeadEnds == \A p \in DOMAIN r.nodes : r.nodes[p].chars = <<>> => p = head \/ r.nodes[p].key

=============================================================================
