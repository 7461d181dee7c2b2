------------------------------ MODULE Streams ------------------------------
(***************************************************************************)
(* The stream commands and consumer groups (t_stream.c) on a master and    *)
(* its replica. The value of a key is its entries and its groups; a group  *)
(* keeps its pending entries twice, in a list of its own and in one for    *)
(* each consumer. What XREADGROUP and XCLAIM do reaches the replica as     *)
(* XCLAIM and XGROUP SETID. The fields from and done of a group are for    *)
(* the properties only.                                                    *)
(***************************************************************************)
EXTENDS Keyspace, FiniteSetsExt

CONSTANTS stream_node_max_bytes, stream_node_max_entries,
          U64  \* UINT64_MAX

(***************************************************************************)
(* The entries of a stream (t_stream.c): a tree of listpacks, each named   *)
(* by the identifier of its first entry, the master entry, whose fields    *)
(* the others leave out when they are the same.  A listpack is the         *)
(* sequence of its elements:                                               *)
(*   count, deleted, num-fields, fields, 0,                                *)
(* and for every entry                                                     *)
(*   flags, ms-diff, seq-diff, [num-fields, field, value, ...] or [values],*)
(*   the number of elements of the entry before this one.                  *)
(* Fields and values are numbers; an identifier is <<ms, seq>>.  The tree  *)
(* is the sequence of its leaves (module Rax has the tree itself), and the *)
(* size of a listpack is counted in elements.                              *)
(***************************************************************************)

MinId == <<0, 0>>
MaxId == <<U64, U64>>

streamNew == [rax |-> <<>>, length |-> 0, last |-> MinId]

\* streamCompareID(), which is also the order of the encoded identifiers.
Less(a, b) == a[1] < b[1] \/ (a[1] = b[1] /\ a[2] < b[2])
LessEq(a, b) == ~Less(b, a)

streamNextID(last, now) == IF now > last[1] THEN <<now, 0>> ELSE <<last[1], (last[2] + 1) % (U64 + 1)>>

IsDeleted(flags) == flags % 2 = 1
SameFields(flags) == flags \div 2 = 1

----------------------------------------------------------------------------
(* Appending                                                               *)

Fields(pairs) == [i \in DOMAIN pairs |-> pairs[i][1]]
Values(pairs) == [i \in DOMAIN pairs |-> pairs[i][2]]
MasterFields(lp) == SubSeq(lp, 4, 3 + lp[3])

Entry(master, id, pairs, same) ==
    LET body == IF same THEN Values(pairs) ELSE <<Len(pairs)>> \o FlattenSeq(pairs)
    IN <<IF same THEN 2 ELSE 0, id[1] - master[1], id[2] - master[2]>> \o body \o <<Len(body) + 3>>

\* Whether a new listpack is begun.
NewNode(s) ==
    LET lp == Last(s.rax).lp
    IN \/ s.rax = <<>>
       \/ stream_node_max_entries # 0 /\ (stream_node_max_bytes = 0 \/ Len(lp) <= stream_node_max_bytes) /\ lp[1] > stream_node_max_entries
       \/ Len(lp) > stream_node_max_bytes

\* Returns <<>> for an identifier that is not above the last one.
streamAppendItem(s, pairs, use_id, now) ==
    LET id == IF use_id # <<>> THEN use_id[1] ELSE streamNextID(s.last, now)
        lp == Last(s.rax).lp
        fresh == <<1, 0, Len(pairs)>> \o Fields(pairs) \o <<0>> \o Entry(id, id, pairs, TRUE)
        more == [lp EXCEPT ![1] = @ + 1] \o Entry(Last(s.rax).key, id, pairs, MasterFields(lp) = Fields(pairs))
    IN IF use_id # <<>> /\ LessEq(use_id[1], s.last) THEN <<>>
       ELSE <<[rax |-> IF NewNode(s) THEN Append(s.rax, [key |-> id, lp |-> fresh]) ELSE [s.rax EXCEPT ![Len(s.rax)].lp = more],
               length |-> s.length + 1, last |-> id]>>

----------------------------------------------------------------------------
(* Iterating                                                               *)

\* raxSeek(): the last node not above the identifier, 0 when there is none.
SeekLe(s, id) == CHOOSE i \in 0..Len(s.rax) : /\ i > 0 => LessEq(s.rax[i].key, id)
                                              /\ i < Len(s.rax) => Less(id, s.rax[i + 1].key)

\* A bug for comparison: the first node is the one above the start.
StartAbove(s, start, end, rev) ==
    [start |-> start, end |-> end, rev |-> rev, at |-> 0, ele |-> 0,
     next |-> IF rev THEN (IF end = MinId \/ SeekLe(s, end) = 0 THEN Len(s.rax) ELSE SeekLe(s, end))
              ELSE SeekLe(s, start) + 1]

\* next: the node raxNext() or raxPrev() moves to; at, ele: the element that is read.
streamIteratorStart(s, start, end, rev) ==
    [start |-> start, end |-> end, rev |-> rev, at |-> 0, ele |-> 0,
     next |-> IF rev THEN (IF end = MinId \/ SeekLe(s, end) = 0 THEN Len(s.rax) ELSE SeekLe(s, end))
              ELSE IF start = MinId \/ SeekLe(s, start) = 0 THEN 1 ELSE SeekLe(s, start)]

Done(it) == [it |-> it, id |-> <<>>, pairs |-> <<>>, flags |-> 0]

\* The entry at the element, as it is read.
Read(s, it, e) ==
    LET lp == s.rax[it.at].lp
        same == SameFields(lp[e])
        n == IF same THEN lp[3] ELSE lp[e + 3]
        p == IF same THEN e + 3 ELSE e + 4
    IN [id |-> <<s.rax[it.at].key[1] + lp[e + 1], s.rax[it.at].key[2] + lp[e + 2]>>, flags |-> e, deleted |-> IsDeleted(lp[e]),
        pairs |-> [i \in 1..n |-> IF same THEN <<MasterFields(lp)[i], lp[p + i - 1]>> ELSE <<lp[p + 2 * i - 2], lp[p + 2 * i - 1]>>],
        behind |-> p + n * (IF same THEN 1 ELSE 2)]

\* The next node; forwards to the end of its master entry, backwards to its last element.
Enter(s, it) ==
    LET lp == s.rax[it.next].lp
    IN [it EXCEPT !.at = it.next, !.next = IF it.rev THEN @ - 1 ELSE @ + 1, !.ele = IF it.rev THEN Len(lp) ELSE 4 + lp[3]]

\* Over the entries that are deleted or outside of the range.  The caller reads the fields,
\* which leaves the iterator behind them.
RECURSIVE Walk(_, _)
Walk(s, it) ==
    LET lp == s.rax[it.at].lp
        leave == IF it.rev THEN lp[it.ele] = 0 ELSE it.ele + 1 > Len(lp)
        x == Read(s, it, IF it.rev THEN it.ele - lp[it.ele] ELSE it.ele + 1)
        inside == IF it.rev THEN LessEq(x.id, it.end) ELSE LessEq(it.start, x.id)
        beyond == IF it.rev THEN Less(x.id, it.start) ELSE Less(it.end, x.id)
    IN IF it.ele = 0 THEN IF it.next \in DOMAIN s.rax THEN Walk(s, Enter(s, it)) ELSE Done(it)
       ELSE IF leave THEN Walk(s, [it EXCEPT !.ele = 0])
       ELSE IF inside /\ ~x.deleted
            THEN IF beyond THEN Done(it) ELSE [it |-> [it EXCEPT !.ele = x.behind], id |-> x.id, pairs |-> x.pairs, flags |-> x.flags]
       ELSE Walk(s, [it EXCEPT !.ele = IF it.rev THEN x.flags - 1 ELSE x.behind])

\* Backwards, first to the entry before the one that was read.
streamIteratorGetID(s, it) ==
    Walk(s, IF it.rev /\ it.ele # 0 THEN [it EXCEPT !.ele = @ - s.rax[it.at].lp[@] - 1] ELSE it)

RECURSIVE Collect(_, _, _)
Collect(s, it, count) ==
    LET x == streamIteratorGetID(s, it)
    IN IF count = 0 \/ x.id = <<>> THEN <<>> ELSE <<[id |-> x.id, pairs |-> x.pairs]>> \o Collect(s, x.it, count - 1)

\* The entries from start to end; count -1 stands for all.
streamReplyWithRange(s, start, end, count, rev) == Collect(s, streamIteratorStart(s, start, end, rev), count)

----------------------------------------------------------------------------
(* Deleting                                                                *)

\* The entry is marked; the last one of a listpack takes it away.
streamIteratorRemoveEntry(s, it, flags) ==
    IF s.rax[it.at].lp[1] = 1 THEN [s EXCEPT !.length = @ - 1, !.rax = RemoveAt(@, it.at)]
    ELSE [s EXCEPT !.length = @ - 1, !.rax[it.at].lp = [@ EXCEPT ![flags] = @ + 1, ![1] = @ - 1, ![2] = @ + 1]]

\* Returns the stream and how many were deleted.
streamDeleteItem(s, id) ==
    LET x == streamIteratorGetID(s, streamIteratorStart(s, id, id, FALSE))
    IN IF x.id = <<>> THEN <<s, 0>> ELSE <<streamIteratorRemoveEntry(s, x.it, x.flags), 1>>

\* The first entries of a listpack that are not deleted yet are marked.
RECURSIVE MarkFirst(_, _, _)
MarkFirst(lp, e, n) ==
    LET skip == IF SameFields(lp[e]) THEN lp[3] ELSE 1 + 2 * lp[e + 3]
        next == e + 4 + skip
    IN IF n = 0 THEN lp
       ELSE IF IsDeleted(lp[e]) THEN MarkFirst(lp, next, n)
       ELSE MarkFirst([lp EXCEPT ![e] = @ + 1], next, n - 1)

\* Whole listpacks while enough entries are left; then, unless about so many are enough,
\* entries of the first one.
RECURSIVE streamTrimByLength(_, _, _)
streamTrimByLength(s, maxlen, approx) ==
    LET lp == Head(s.rax).lp
        n == s.length - maxlen
    IN IF s.length <= maxlen \/ s.rax = <<>> THEN s
       ELSE IF s.length - lp[1] >= maxlen
            THEN streamTrimByLength([s EXCEPT !.rax = Tail(@), !.length = @ - lp[1]], maxlen, approx)
       ELSE IF approx THEN s
       ELSE [s EXCEPT !.length = maxlen, !.rax[1].lp = MarkFirst([@ EXCEPT ![1] = @ - n, ![2] = @ + n], 5 + lp[3], n)]

----------------------------------------------------------------------------

\* XREAD: everything above the identifier, the first one being the next identifier.
ReadAbove(s, gt, count) ==
    IF s.length > 0 /\ Less(gt, s.last)
    THEN streamReplyWithRange(s, <<gt[1], (gt[2] + 1) % (U64 + 1)>>, MaxId, count, FALSE) ELSE <<>>
----------------------------------------------------------------------------
(* Commands                                                                *)

Nobody == "none"
IsStream(s, k) == TypeOf(s, k) = "stream"
Log(s, k) == Content(s, k).log
Groups(s, k) == Content(s, k).cg
StoreStream(s, k, log, cg) == dbOverwrite(s, k, <<"stream", [log |-> log, cg |-> cg]>>)
SetLog(s, k, log) == StoreStream(s, k, log, Groups(s, k))
SetGroup(s, k, g, x) == StoreStream(s, k, Log(s, k), Put(Groups(s, k), g, x))
HasGroup(s, k, g) == IsStream(s, k) /\ g \in DOMAIN Groups(s, k)

Propagate(s, argv) == [s EXCEPT !.out = Append(@, <<s.cur, argv>>)]
preventCommandPropagation(s) == [s EXCEPT !.argv = Nil]

createStreamObject == <<"stream", [log |-> streamNew, cg |-> Empty]>>
streamTypeLookupWriteOrCreate(s, k) ==
    LET t == lookupKeyWrite(s, k) IN IF dbExists(t, k) THEN t ELSE dbAdd(t, k, createStreamObject)

----------------------------------------------------------------------------
(* Entries                                                                 *)

\* The identifier and the length about which was trimmed are propagated as they came out.
xaddCommand(s, k, use, pairs, maxlen, approx) ==
    LET t == streamTypeLookupWriteOrCreate(s, k)
        res == streamAppendItem(Log(t, k), pairs, use, s.now)
        log == IF maxlen >= 0 THEN streamTrimByLength(res[1], maxlen, approx) ELSE res[1]
        argv == <<"XADD", k, <<res[1].last>>, pairs, IF approx THEN log.length ELSE maxlen, FALSE>>
    IN IF WrongType(t, k, "stream") \/ res = <<>> THEN t
       ELSE Dirty([signalModifiedKey(SetLog(t, k, log), k) EXCEPT !.argv = argv, !.ready = @ \cup {<<s.cur, k>>}], 1)

xdelCommand(s, k, ids) ==
    LET t == lookupKeyWrite(s, k)
        log == FoldLeft(LAMBDA l, id : streamDeleteItem(l, id)[1], Log(t, k), ids)
        n == Log(t, k).length - log.length
    IN IF ~IsStream(t, k) \/ n = 0 THEN t ELSE Dirty(signalModifiedKey(SetLog(t, k, log), k), n)

xtrimCommand(s, k, maxlen, approx) ==
    LET t == lookupKeyWrite(s, k)
        log == streamTrimByLength(Log(t, k), maxlen, approx)
        n == Log(t, k).length - log.length
        u == signalModifiedKey(SetLog(t, k, log), k)
    IN IF ~IsStream(t, k) \/ n = 0 THEN t
       ELSE Dirty(IF approx THEN [u EXCEPT !.argv = <<"XTRIM", k, log.length, FALSE>>] ELSE u, n)

xsetidCommand(s, k, id) ==
    LET t == lookupKeyWrite(s, k)
        top == streamReplyWithRange(Log(t, k), MinId, MaxId, 1, TRUE)[1].id
    IN IF ~IsStream(t, k) THEN t
       ELSE IF Log(t, k).length > 0 /\ Less(id, top) THEN t
       ELSE Dirty(SetLog(t, k, [Log(t, k) EXCEPT !.last = id]), 1)

----------------------------------------------------------------------------
(* Groups                                                                  *)

streamCreateCG(id) == [last |-> id, pel |-> Empty, cons |-> Empty, from |-> id, done |-> {}]
streamLookupConsumer(x, c) == IF c \in DOMAIN x.cons THEN x ELSE [x EXCEPT !.cons = Put(@, c, {})]

streamDelConsumer(x, c) ==
    IF c \notin DOMAIN x.cons THEN x
    ELSE [x EXCEPT !.pel = [i \in DOMAIN @ \ x.cons[c] |-> @[i]], !.cons = Without(@, c)]

\* arg: an identifier, or <<>> for $.
xgroupCreate(s, k, g, arg, mkstream) ==
    LET t == lookupKeyWrite(s, k)
        u == IF dbExists(t, k) THEN t ELSE dbAdd(t, k, createStreamObject)
        id == IF arg # <<>> THEN arg ELSE IF dbExists(t, k) THEN Log(t, k).last ELSE MinId
    IN IF WrongType(t, k, "stream") \/ (~dbExists(t, k) /\ ~mkstream) THEN t
       ELSE IF HasGroup(u, k, g) THEN u
       ELSE Dirty(SetGroup(u, k, g, streamCreateCG(id)), 1)

xgroupSetid(s, k, g, arg) ==
    LET t == lookupKeyWrite(s, k)
    IN IF ~HasGroup(t, k, g) THEN t
       ELSE Dirty(SetGroup(t, k, g, [Groups(t, k)[g] EXCEPT !.last = IF arg # <<>> THEN arg ELSE Log(t, k).last]), 1)

xgroupDestroy(s, k, g) ==
    LET t == lookupKeyWrite(s, k)
    IN IF ~HasGroup(t, k, g) THEN t ELSE Dirty(StoreStream(t, k, Log(t, k), Without(Groups(t, k), g)), 1)

xgroupDelconsumer(s, k, g, c) ==
    LET t == lookupKeyWrite(s, k)
    IN IF ~HasGroup(t, k, g) THEN t ELSE Dirty(SetGroup(t, k, g, streamDelConsumer(Groups(t, k)[g], c)), 1)

streamCreateNACK(c, time) == [c |-> c, time |-> time, count |-> 1]

streamPropagateXCLAIM(s, k, g, x, id) ==
    Propagate(s, <<"XCLAIM", k, g, x.pel[id].c, 0, <<id>>,
                   [time |-> x.pel[id].time, retry |-> x.pel[id].count, force |-> TRUE, justid |-> TRUE, last |-> x.last]>>)
streamPropagateGroupID(s, k, g, x) == Propagate(s, <<"XGROUP SETID", k, g, x.last>>)

\* A bug for comparison: the consumer who had the entry keeps it.
TakeTwice(x, id, c, nack) == [x EXCEPT !.pel = Put(@, id, nack), !.cons[c] = @ \cup {id}]

Take(x, id, c, nack) ==
    LET old == IF id \in DOMAIN x.pel THEN x.pel[id].c ELSE Nobody
        cons == IF old = Nobody THEN x.cons ELSE [x.cons EXCEPT ![old] = @ \ {id}]
    IN [x EXCEPT !.pel = Put(@, id, nack), !.cons = [cons EXCEPT ![c] = @ \cup {id}]]

\* One entry that is new to the group: pending with the consumer, whoever had it before, for
\* instance because the group was set back.
Deliver(s, k, g, c, noack, time, id) ==
    LET x == Groups(s, k)[g]
        up == [x EXCEPT !.last = IF Less(@, id) THEN id ELSE @]
        y == IF noack THEN [up EXCEPT !.done = @ \cup {id}] ELSE Take(up, id, c, streamCreateNACK(c, time))
        t == SetGroup(s, k, g, y)
    IN IF ~noack THEN streamPropagateXCLAIM(t, k, g, y, id) ELSE IF x.last # y.last THEN streamPropagateGroupID(t, k, g, y) ELSE t

\* The consumer's own pending entries, each one delivered once more if it still exists.
streamReplyWithRangeFromConsumerPEL(x, log, start, count, c, time) ==
    LET ids == SelectSeq(SetToSortSeq(x.cons[c], Less), LAMBDA i : LessEq(start, i))
        some == IF count > 0 /\ count < Len(ids) THEN SubSeq(ids, 1, count) ELSE ids
        there == {i \in Range(some) : streamReplyWithRange(log, i, i, 1, FALSE) # <<>>}
    IN [x EXCEPT !.pel = [i \in DOMAIN @ |-> IF i \in there THEN [@[i] EXCEPT !.time = time, !.count = @ + 1] ELSE @[i]]]

\* gt: an identifier for the consumer's history, or <<>> for new entries.
xreadgroup(s, k, g, c, gt, count, noack) ==
    LET t == lookupKeyRead(s, k)
        x == streamLookupConsumer(Groups(t, k)[g], c)
        u == SetGroup(t, k, g, x)
        new == ReadAbove(Log(t, k), x.last, IF count = 0 THEN -1 ELSE count)
        served == gt # <<>> \/ (Log(t, k).length > 0 /\ Less(x.last, Log(t, k).last))
    IN preventCommandPropagation(
       IF ~HasGroup(t, k, g) \/ ~served THEN t
       ELSE Dirty(IF gt # <<>>
                  THEN SetGroup(t, k, g, streamReplyWithRangeFromConsumerPEL(x, Log(t, k), <<gt[1], gt[2] + 1>>, count, c, s.now))
                  ELSE FoldLeft(LAMBDA w, e : Deliver(w, k, g, c, noack, s.now, e.id), u, new), 1))

xackCommand(s, k, g, ids) ==
    LET t == lookupKeyRead(s, k)
        one(u, id) == LET x == Groups(u, k)[g]
                      IN IF id \notin DOMAIN x.pel THEN u
                         ELSE Dirty(SetGroup(u, k, g, [x EXCEPT !.cons[x.pel[id].c] = @ \ {id}, !.pel = Without(@, id),
                                                                !.done = @ \cup {id}]), 1)
    IN IF HasGroup(t, k, g) THEN FoldLeft(one, t, ids) ELSE t

\* One entry: created if that is forced and it exists, taken over if it is idle long enough.
Claim(s, k, g, c, minidle, id, time, o) ==
    LET x == Groups(s, k)[g]
        pending == id \in DOMAIN x.pel
        forced == o.force /\ streamReplyWithRange(Log(s, k), id, id, 1, FALSE) # <<>>
        nack == IF pending THEN x.pel[id] ELSE streamCreateNACK(Nobody, s.now)
        count == IF o.retry >= 0 THEN o.retry ELSE IF o.justid THEN nack.count ELSE nack.count + 1
        y == Take(x, id, c, [c |-> c, time |-> time, count |-> count])
    IN IF ~(pending \/ forced) \/ (pending /\ minidle > 0 /\ s.now - nack.time < minidle) THEN s
       ELSE Dirty(streamPropagateXCLAIM(SetGroup(s, k, g, y), k, g, y, id), 1)

xclaimCommand(s, k, g, c, minidle, ids, o) ==
    LET t == lookupKeyRead(s, k)
        x == Groups(t, k)[g]
        up == Less(x.last, o.last)
        u == SetGroup(t, k, g, streamLookupConsumer(IF up THEN [x EXCEPT !.last = o.last] ELSE x, c))
        time == IF o.time < 0 \/ o.time > s.now THEN s.now ELSE o.time
        w == FoldLeft(LAMBDA v, id : Claim(v, k, g, c, minidle, id, time, o), u, ids)
    IN IF ~HasGroup(t, k, g) THEN t
       ELSE preventCommandPropagation(IF up /\ w.out = u.out THEN Dirty(streamPropagateGroupID(w, k, g, Groups(w, k)[g]), 1) ELSE w)

\* XPENDING: the number, the first and the last one, and how many each consumer has.
XpendingSummary(x) ==
    LET ids == DOMAIN x.pel
    IN [n |-> Cardinality(ids),
        ends |-> IF ids = {} THEN <<>> ELSE LET q == SetToSortSeq(ids, Less) IN <<q[1], Last(q)>>,
        per |-> [c \in {d \in DOMAIN x.cons : x.cons[d] # {}} |-> Cardinality(x.cons[c])]]

\* XPENDING with a range, of the group or of a consumer.
XpendingRange(x, start, end, count, c) ==
    LET ids == IF c = Nobody THEN DOMAIN x.pel ELSE IF c \in DOMAIN x.cons THEN x.cons[c] ELSE {}
        q == SelectSeq(SetToSortSeq(ids, Less), LAMBDA i : LessEq(start, i) /\ LessEq(i, end))
        some == IF count < Len(q) THEN SubSeq(q, 1, count) ELSE q
    IN [i \in DOMAIN some |-> <<some[i], x.pel[some[i]].c>>]

StreamCommand(s, c) ==
    CASE c[1] = "XADD" -> xaddCommand(s, c[2], c[3], c[4], c[5], c[6])
      [] c[1] = "XDEL" -> xdelCommand(s, c[2], c[3])
      [] c[1] = "XTRIM" -> xtrimCommand(s, c[2], c[3], c[4])
      [] c[1] = "XSETID" -> xsetidCommand(s, c[2], c[3])
      [] c[1] = "XGROUP CREATE" -> xgroupCreate(s, c[2], c[3], c[4], c[5])
      [] c[1] = "XGROUP SETID" -> xgroupSetid(s, c[2], c[3], c[4])
      [] c[1] = "XGROUP DESTROY" -> xgroupDestroy(s, c[2], c[3])
      [] c[1] = "XGROUP DELCONSUMER" -> xgroupDelconsumer(s, c[2], c[3], c[4])
      [] c[1] = "XREADGROUP" -> xreadgroup(s, c[2], c[3], c[4], c[5], c[6], c[7])
      [] c[1] = "XACK" -> xackCommand(s, c[2], c[3], c[4])
      [] c[1] = "XCLAIM" -> xclaimCommand(s, c[2], c[3], c[4], c[5], c[6], c[7])
      [] c[1] \in {"XRANGE", "XREAD", "XLEN", "XPENDING", "XINFO"} -> ReadCommand(s, <<c[2]>>)
=============================================================================
