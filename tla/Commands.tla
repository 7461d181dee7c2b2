------------------------------ MODULE Commands ------------------------------
(***************************************************************************)
(* The commands of all types in the frame every command runs in: call() of *)
(* server.c executes it and propagates what changed to the replicas.  A    *)
(* master and one replica are connected by the replication stream.         *)
(***************************************************************************)
EXTENDS Collections, Streams

VARIABLES m,      \* the master
          r,      \* its replica
          queue,  \* propagated commands not yet applied: <<db, argv>>
          now     \* mstime()

vars == <<m, r, queue, now>>

\* The table of commands.
redisCommandTable ==
    [string |-> {"SET", "GETSET", "SETRANGE", "MSET", "MSETNX", "INCRBY", "INCRBYFLOAT", "APPEND"},
     list |-> {"LPUSH", "RPUSH", "LPUSHX", "RPUSHX", "LINSERT", "LSET", "LPOP", "RPOP", "LTRIM",
               "LREM", "RPOPLPUSH", "BRPOPLPUSH", "BLPOP", "BRPOP"},
     set |-> {"SADD", "SREM", "SMOVE", "SPOP", "SPOPN", "SINTERSTORE", "SUNIONSTORE", "SDIFFSTORE"},
     hash |-> {"HSETNX", "HSET", "HINCRBY", "HINCRBYFLOAT", "HDEL"},
     zset |-> {"ZADD", "ZREM", "ZREMRANGE", "ZPOP", "ZSTORE"},
     stream |-> {"XADD", "XDEL", "XTRIM", "XSETID", "XGROUP CREATE", "XGROUP SETID", "XGROUP DESTROY",
                 "XGROUP DELCONSUMER", "XREADGROUP", "XACK", "XCLAIM", "XPENDING"}]

Proc(s, c) ==
    CASE c[1] \in redisCommandTable.string -> StringCommand(s, c)
      [] c[1] \in redisCommandTable.list -> ListCommand(s, c)
      [] c[1] \in redisCommandTable.set -> SetCommand(s, c)
      [] c[1] \in redisCommandTable.hash -> HashCommand(s, c)
      [] c[1] \in redisCommandTable.zset -> ZsetCommand(s, c)
      [] c[1] \in redisCommandTable.stream -> StreamCommand(s, c)
      [] OTHER -> GenericCommand(s, c)

\* What a command asked to propagate: itself when it changed something, then
\* the commands it named.
propagate(d, t) ==
    [t EXCEPT !.out = @ \o (IF t.dirty > 0 /\ t.argv # Nil THEN <<<<d, t.argv>>>> ELSE <<>>) \o t.also]

call(s, c) == propagate(s.cur, Proc([s EXCEPT !.argv = c, !.touched = {}], c))

\* What stays of the record between two commands.
Rest(s) == [s EXCEPT !.cur = 0, !.now = 0, !.dirty = 0, !.ready = {},
                     !.out = <<>>, !.also = <<>>, !.argv = <<>>]

OnMaster(t) == m' = Rest(t) /\ queue' = queue \o t.out /\ UNCHANGED <<r, now>>

processCommand(d, c) == OnMaster(call([m EXCEPT !.cur = d, !.now = now], c))

ReplicaApplies ==
    /\ queue # <<>>
    /\ r' = [Rest(call([r EXCEPT !.cur = Head(queue)[1], !.now = now], Head(queue)[2]))
                EXCEPT !.touched = {}]
    /\ queue' = Tail(queue)
    /\ UNCHANGED <<m, now>>

\* One key the active expire cycle of the master found expired.
activeExpireCycleTryExpire(d, k) ==
    LET s == [m EXCEPT !.cur = d, !.now = now, !.touched = {}]
    IN keyIsExpired(s, k) /\ OnMaster(dbDelete(propagateExpire(s, k), k))

Init == m = Server(TRUE) /\ r = Server(FALSE) /\ queue = <<>> /\ now = 0

----------------------------------------------------------------------------
(* The steps of an instance o: its databases and commands, the commands in *)
(* flight before the clients wait, the end of the clock, and the bounds of *)
(* the values: the longest list, the largest score, the largest sequence   *)
(* number of a stream and count of deliveries.                             *)

\* Random elements are members of the set.
Possible(s, c) ==
    LET S == IF TypeOf(s, c[2]) = "set" THEN Content(s, c[2]) ELSE {}
    IN /\ c[1] = "SPOP" => S = {} \/ c[3] \in S
       /\ c[1] = "SPOPN" => IF c[3] < Cardinality(S) THEN c[4] \in kSubset(c[3], S) ELSE c[4] = {}

Within(o, v) ==
    CASE v[1] = "list" -> Len(v[2]) <= o.len
      [] v[1] = "zset" -> \A e \in DOMAIN v[2] : v[2][e] \in 0..o.len
      [] v[1] = "stream" -> /\ v[2].log.last[2] <= o.len
                            /\ \A g \in DOMAIN v[2].cg : \A i \in DOMAIN v[2].cg[g].pel : v[2].cg[g].pel[i].count <= o.len
      [] OTHER -> TRUE

Next(o) ==
    \/ \E d \in o.db, c \in o.argv :
          /\ Len(queue) < o.queue /\ (Len(c) > 1 => Possible(In(m, d), c))
          /\ processCommand(d, c)
          /\ \A k \in DOMAIN m'.dict[d] : Within(o, m'.dict[d][k])
    \/ ReplicaApplies
    \/ \E d \in o.db : \E k \in DOMAIN m.exp[d] : Len(queue) < o.queue /\ activeExpireCycleTryExpire(d, k)
    \/ now < o.now /\ now' = now + 1 /\ UNCHANGED <<m, r, queue>>

----------------------------------------------------------------------------
(* Properties                                                              *)

\* Type and content of a value, not the encoding; of a group what XPENDING and
\* XREADGROUP tell.
Visible(v) ==
    IF v[1] # "stream" THEN SubSeq(v, 1, 2)
    ELSE <<v[1], [log |-> v[2].log, cg |-> [g \in DOMAIN v[2].cg |->
                    [last |-> v[2].cg[g].last, pel |-> v[2].cg[g].pel]]]>>

Contents(s) == [d \in Db |-> [k \in DOMAIN s.dict[d] |-> Visible(s.dict[d][k])]]

\* Once the stream is drained the replica holds exactly the master's keys and
\* values: every change is propagated, in a form that has the same effect on a
\* server that does not expire keys by itself and runs the command later, also
\* where the command was rewritten (SPOP, BLPOP, HINCRBYFLOAT, XREADGROUP, ...).
ReplicaFollows == queue = <<>> => Contents(r) = Contents(m)

\* No expire outlives its key, and once the stream is drained the same keys are
\* volatile on both servers; since relative times are propagated as they are, a
\* replica never believes a key expired before its master does.
ReplicaExpires ==
    \A d \in Db :
        /\ \A s \in {m, r} : DOMAIN s.exp[d] \subseteq DOMAIN s.dict[d]
        /\ queue = <<>> => /\ DOMAIN r.exp[d] = DOMAIN m.exp[d]
                           /\ \A k \in DOMAIN m.exp[d] : r.exp[d][k] >= m.exp[d][k]

Told(s, d, k) == LET v == s.dict[d][k]
                 IN IF k \notin DOMAIN s.dict[d] THEN Nil
                    ELSE IF v[1] # "stream" THEN Visible(v)
                    ELSE IF v[2].log.length = 0 THEN Nil ELSE <<"stream", v[2].log.rax>>
Expired(d, k) == k \in DOMAIN m.exp[d] /\ now > m.exp[d][k]

\* Whoever WATCHes a key is told when a command changes it: every change of a
\* value is signalled, unless the key had expired.  Of a stream the entries
\* count: an empty one, which XGROUP CREATE makes, is like none.
ChangesAreSignalled ==
    \A d \in Db, k \in Key : Told(m, d, k) # Told(m', d, k) /\ ~Expired(d, k) => <<d, k>> \in m'.touched

Fits(v) ==
    CASE v[1] = "string" -> Len(v[2]) <= MaxLen
      [] v[1] = "list" -> v[2] # <<>>
      [] v[1] = "set" -> /\ v[2] # {}
                         /\ v[3] = "intset" => v[2] \subseteq IntElem /\ Cardinality(v[2]) <= set_max_intset_entries
      [] v[1] = "hash" -> /\ v[2] # <<>>
                          /\ v[3] = "ziplist" => /\ Cardinality(DOMAIN v[2]) <= hash_max_ziplist_entries
                                                 /\ \A f \in DOMAIN v[2] : v[2][f] # <<"long">>
      [] v[1] = "zset" -> /\ v[2] # <<>>
                          /\ v[3] = "ziplist" => /\ Cardinality(DOMAIN v[2]) <= zset_max_ziplist_entries
                                                 /\ DOMAIN v[2] \cap LongElem = {}
      [] OTHER -> TRUE

\* Whichever command made it, on the master or from the stream on the replica, a
\* value keeps the limits of its encoding, a string its maximal length, and a
\* collection that has lost its last element is gone.
ValuesFit == \A s \in {m, r}, d \in Db : \A k \in DOMAIN s.dict[d] : Fits(s.dict[d][k])

Streams_(s) == {v \in UNION {Range(s.dict[d]) : d \in Db} : v[1] = "stream"}
Pending(x, c) == XpendingRange(x, MinId, MaxId, 99, c)

\* An entry is pending in the list of the group and in the list of the consumer
\* who has it, and in no other.
PendingAgrees ==
    \A s \in {m, r} : \A v \in Streams_(s) : \A x \in Range(v[2].cg) :
        /\ \A c \in DOMAIN x.cons : Pending(x, c) = SelectSeq(Pending(x, Nobody), LAMBDA p : p[2] = c)
        /\ LET sum == XpendingSummary(x)
           IN sum.n = MapThenSumSet(LAMBDA c : sum.per[c], DOMAIN sum.per)

\* No entry of a stream is passed over: up to the group's last identifier, each
\* one that came after the group's start has been delivered, and is either
\* pending or acknowledged.
NoEntrySkipped ==
    \A v \in Streams_(m) : \A x \in Range(v[2].cg) :
        \A e \in Range(streamReplyWithRange(v[2].log, MinId, MaxId, -1, FALSE)) :
            Less(x.from, e.id) /\ LessEq(e.id, x.last) => (e.id \in DOMAIN x.pel) # (e.id \in x.done)

Between_(s, a, b) == SelectSeq(s, LAMBDA e : LessEq(a, e.id) /\ LessEq(e.id, b))

\* The range of a stream between any two identifiers, forwards and backwards and
\* limited, is that part of the whole stream, from whichever listpack the
\* iterator starts and whatever is marked as deleted; the identifiers grow, and
\* the lengths of the stream and of its listpacks are those of what is read.
RangesAreRight ==
    \A v \in Streams_(m) :
        LET log == v[2].log
            all == streamReplyWithRange(log, MinId, MaxId, -1, FALSE)
            ids == {MinId, MaxId, <<1, 0>>} \cup {<<0, i>> : i \in 1..4}
        IN /\ \A i \in 1..Len(all) - 1 : Less(all[i].id, all[i + 1].id)
           /\ all # <<>> => LessEq(Last(all).id, log.last)
           /\ log.length = Len(all) /\ log.length = FoldLeft(LAMBDA n, x : n + x.lp[1], 0, log.rax)
           /\ \A a, b \in ids : LET part == Between_(all, a, b)
                             IN /\ streamReplyWithRange(log, a, b, -1, FALSE) = part
                                /\ streamReplyWithRange(log, a, b, -1, TRUE) = Reverse(part)
                                /\ part # <<>> => streamReplyWithRange(log, a, b, 1, TRUE) = <<Last(part)>>
           /\ \A a \in ids : ReadAbove(log, a, -1) = SelectSeq(all, LAMBDA e : Less(a, e.id))

Members_(k) == Members(In(m, 0), k)

\* SINTERSTORE, SUNIONSTORE and SDIFFSTORE compute intersection, union and
\* difference whichever algorithm the sizes select, also when a key is missing,
\* named twice, or the destination is one of the sources.
SetOperationsAreExact ==
    \A i, j, l, d \in Key :
        LET ks == <<i, j, l>>
            s == In(m, 0)
        IN (\A x \in {i, j, l} : ~WrongType(s, x, "set")) =>
            /\ Members(sinterGenericCommand(s, d, ks), d) = Members_(i) \cap Members_(j) \cap Members_(l)
            /\ Members(sunionDiffGenericCommand(s, d, ks, "union"), d) = Members_(i) \cup Members_(j) \cup Members_(l)
            /\ Members(sunionDiffGenericCommand(s, d, ks, "diff"), d) = Members_(i) \ (Members_(j) \cup Members_(l))

\* LTRIM, which deletes at both ends, keeps exactly the elements LRANGE answers
\* for the same indexes, for any combination of negative and too large ones.
TrimKeepsTheRange ==
    \A v \in Range(m.dict[0]) : v[1] = "list" =>
        \A i, j \in -4..4 : Trimmed(v[2], i, j) = lrangeCommand(v[2], i, j)

\* ZUNIONSTORE and ZINTERSTORE give every element the aggregate of its weighted
\* scores in the sources that have it, also when a source is named twice.
StoresAggregate ==
    \A p, q \in Key, w \in {2}, agg \in {"SUM", "MIN", "MAX"} :
        LET a == zuiSource(In(m, 0), p)
            b == zuiSource(In(m, 0), q)
            both(e) == CHOOSE x \in {w * a[e] + b[e], w * a[e], b[e]} :
                          CASE agg = "SUM" -> x = w * a[e] + b[e]
                            [] agg = "MIN" -> x \in {w * a[e], b[e]} /\ x <= w * a[e] /\ x <= b[e]
                            [] agg = "MAX" -> x \in {w * a[e], b[e]} /\ x >= w * a[e] /\ x >= b[e]
            result(op) == Computed(In(m, 0), op, <<p, q>>, <<w, 1>>, agg)
        IN (\A k \in {p, q} : TypeOf(In(m, 0), k) \in {"none", "zset", "set"}) =>
            /\ result("UNION") = [e \in DOMAIN a \cup DOMAIN b |->
                   IF e \notin DOMAIN b THEN w * a[e] ELSE IF e \notin DOMAIN a THEN b[e] ELSE both(e)]
            /\ result("INTER") = [e \in DOMAIN a \cap DOMAIN b |-> both(e)]
=============================================================================
