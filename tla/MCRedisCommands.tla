--------------------------- MODULE MCRedisCommands ---------------------------
(***************************************************************************)
(* Small instances of Commands: a master and a replica that execute the    *)
(* commands of one data type each.                                         *)
(***************************************************************************)
EXTENDS Integers, Sequences, FiniteSets

CONSTANT Parts  \* the kinds of commands to explore

VARIABLES part, master, replica, queue, now
vars == <<part, master, replica, queue, now>>

K == INSTANCE Commands WITH m <- master, r <- replica,
       Db <- {0, 1}, Key <- {"k", "l"}, LLONG_MAX <- 2, MaxLen <- 4,
       IntElem <- {1, 2}, set_max_intset_entries <- 1, SPOP_MOVE_STRATEGY_MUL <- 1,
       LongField <- {}, Inf <- 5, hash_max_ziplist_entries <- 1,
       LongElem <- {2}, zset_max_ziplist_entries <- 1,
       stream_node_max_bytes <- 10, stream_node_max_entries <- 0, U64 <- 9

k == "k"
l == "l"
Both == {k, l}
TwoKeys == {<<i, j>> : i, j \in Both}
One == <<<<101, 1>>>>
Other == <<<<102, 1>>, <<103, 2>>>>
Word == {<<>>, <<1>>, <<1, 0>>}
Flags == {{}, {"NX"}, {"XX"}, {"INCR"}}
Claim(j) == [time |-> -1, retry |-> -1, force |-> j, justid |-> j, last |-> IF j THEN <<0, 1>> ELSE <<0, 0>>]

KeyArgv ==
    {<<"SET", i, <<1>>, f, e>> : i \in Both, f \in {"none", "NX"}, e \in {0, 1}}
    \cup {<<c, <<k>>>> : c \in {"TTL", "DEL"}} \cup {<<"DEL", i>> : i \in TwoKeys}
    \cup {<<c, i, j>> : c \in {"RENAME", "RENAMENX"}, i \in Both, j \in Both}
    \cup {<<c, k, n>> : c \in {"PEXPIRE", "PEXPIREAT"}, n \in {0, 1}} \cup {<<"PERSIST", i>> : i \in Both}
DatabaseArgv ==
    {<<"SET", k, <<1>>, "none", e>> : e \in {0, 1}} \cup {<<"DEL", <<k>>>>, <<"FLUSHDB">>, <<"FLUSHALL">>}
    \cup {<<"MOVE", k, d>> : d \in {0, 1}} \cup {<<"SWAPDB", 0, 1>>, <<"PEXPIRE", k, 1>>, <<"PERSIST", k>>}
StringArgv ==
    {<<"SET", i, a, f, 0>> : i \in Both, a \in Word, f \in {"none", "XX"}}
    \cup {<<c, k, a>> : c \in {"GETSET", "APPEND"}, a \in Word}
    \cup {<<"SETRANGE", k, o, a>> : o \in {-1, 0, 2}, a \in Word}
    \cup {<<c, <<<<i, a>>, <<j, <<1>>>>>>>> : c \in {"MSET", "MSETNX"}, i \in Both, j \in Both, a \in Word}
    \cup {<<c, i, n>> : c \in {"INCRBY", "INCRBYFLOAT"}, i \in Both, n \in {-1, 2}} \cup {<<"DEL", <<i>>>> : i \in Both}
ListArgv ==
    {<<c, i, <<e, f>>>> : c \in {"LPUSH", "RPUSHX"}, i \in Both, e \in {1, 2}, f \in {1, 2}}
    \cup {<<"RPUSH", i, <<e>>>> : i \in Both, e \in {1, 2}}
    \cup {<<"LINSERT", k, s, e, f>> : s \in {"head", "tail"}, e \in {1, 2}, f \in {1, 2}}
    \cup {<<"LSET", k, i, e>> : i \in {-1, 0, 2}, e \in {1, 2}} \cup {<<"LPUSHX", k, <<1>>>>}
    \cup {<<c, i>> : c \in {"LPOP", "RPOP"}, i \in Both} \cup {<<"SET", l, <<1>>, "none", 0>>}
    \cup {<<"LTRIM", k, i, j>> : i \in {-1, 1}, j \in {-1, 0, 2}}
    \cup {<<"LREM", k, i, e>> : i \in {-1, 0, 1}, e \in {1, 2}}
    \cup {<<c, i, j>> : c \in {"RPOPLPUSH", "BRPOPLPUSH"}, i \in Both, j \in Both}
    \cup {<<c, p>> : c \in {"BLPOP", "BRPOP", "DEL"}, p \in TwoKeys}
SetArgv ==
    {<<c, i, <<e, f>>>> : c \in {"SADD", "SREM"}, i \in Both, e \in {1, 2, 3}, f \in {1, 2, 3}}
    \cup {<<"SMOVE", i, j, e>> : i \in Both, j \in Both, e \in {1, 3}}
    \cup {<<"SPOP", k, e>> : e \in {1, 2, 3}}
    \cup {<<"SPOPN", i, n, p>> : i \in Both, n \in 0..3, p \in SUBSET {1, 2, 3}}
    \cup {<<c, i, p>> : c \in {"SINTERSTORE", "SUNIONSTORE", "SDIFFSTORE"}, i \in Both, p \in TwoKeys}
    \cup {<<"SET", k, <<1>>, "none", 0>>, <<"DEL", <<l>>>>}
HashArgv ==
    {<<"HSETNX", k, f, <<"long">>>> : f \in {"f", "g"}}
    \cup {<<"HSET", k, <<<<f, v>>, <<g, v>>>>>> : f \in {"f", "g"}, g \in {"f", "g"}, v \in {<<"n", 1>>, <<"text">>, <<"long">>}}
    \cup {<<c, k, f, i>> : c \in {"HINCRBY", "HINCRBYFLOAT"}, f \in {"f", "g"}, i \in {-2, 2}}
    \cup {<<"HDEL", k, <<f, g>>>> : f \in {"f", "g"}, g \in {"f", "g"}}
    \cup {<<"SET", k, <<1>>, "none", 0>>, <<"DEL", <<k>>>>}
ZsetArgv ==
    {<<"ZADD", k, <<<<e, s>>>>, f>> : e \in {1, 2}, s \in {0, 1}, f \in Flags}
    \cup {<<"ZADD", i, <<<<2, s>>, <<1, 1>>>>, {}>> : i \in Both, s \in {0, 1}}
    \cup {<<"ZREM", k, S>> : S \in SUBSET {1, 2}} \cup {<<"SADD", l, <<e>>>> : e \in {1, 2}}
    \cup {<<"ZREMRANGE", k, "RANK", i, j>> : i \in {-2, 0, 1}, j \in {-1, 0}}
    \cup {<<"ZREMRANGE", k, b, i, j>> : b \in {"SCORE", "LEX"}, i \in {0, 1}, j \in {0, 1}}
    \cup {<<"ZPOP", k, s, n>> : s \in {"MIN", "MAX"}, n \in 0..2} \cup {<<"PEXPIREAT", l, 1>>, <<"DEL", <<l>>>>}
    \cup {<<"ZSTORE", d, op, p, <<v, 1>>, a>> : d \in Both, op \in {"UNION", "INTER"}, p \in {<<k, l>>, <<k, k>>}, v \in {2}, a \in {"SUM", "MIN"}}
EntryArgv ==
    {<<"XADD", k, <<>>, e, n, n = 1>> : e \in {One, Other}, n \in {-1, 1}} \cup {<<"XADD", k, <<<<0, 3>>>>, One, -1, FALSE>>}
    \cup {<<"XDEL", k, <<<<0, i>>>>>> : i \in 1..3} \cup {<<"XTRIM", k, n, FALSE>> : n \in 0..2}
StreamArgv ==
    {<<"XADD", k, <<>>, One, -1, FALSE>>, <<"XADD", k, <<>>, One, 1, TRUE>>, <<"XDEL", k, <<<<0, 1>>>>>>, <<"XTRIM", k, 1, TRUE>>}
    \cup {<<"XGROUP CREATE", k, "g", id, TRUE>> : id \in {<<0, 0>>, <<>>}}
    \cup {<<"XREADGROUP", k, "g", "a", <<>>, n, FALSE>> : n \in {0, 1}} \cup {<<"XREADGROUP", k, "g", "b", <<>>, 0, TRUE>>}
    \cup {<<"XACK", k, "g", <<id>>>> : id \in {<<0, 1>>, <<0, 2>>}}
    \cup {<<"XCLAIM", k, "g", "b", idle, <<<<0, 1>>, <<0, 2>>>>, Claim(FALSE)>> : idle \in {0, 1}}
GroupArgv ==
    {<<"XADD", k, <<id>>, One, -1, FALSE>> : id \in {<<0, 1>>, <<0, 2>>}}
    \cup {<<"XDEL", k, <<id>>>> : id \in {<<0, 1>>, <<0, 2>>}} \cup {<<"XSETID", k, <<0, 2>>>>, <<"DEL", <<k>>>>, <<"XPENDING", k>>}
    \cup {<<"XGROUP CREATE", k, "g", <<0, 0>>, b>> : b \in BOOLEAN} \cup {<<"XGROUP DESTROY", k, "g">>}
    \cup {<<"XGROUP SETID", k, "g", id>> : id \in {<<0, 0>>, <<>>}}
    \cup {<<"XGROUP DELCONSUMER", k, "g", c>> : c \in {"a", "b"}} \cup {<<"XACK", k, "g", <<<<0, 1>>>>>>}
    \cup {<<"XREADGROUP", k, "g", c, <<>>, 1, FALSE>> : c \in {"a", "b"}}
    \cup {<<"XCLAIM", k, "g", c, 0, <<id>>, Claim(f)>> : c \in {"a", "b"}, id \in {<<0, 1>>, <<0, 2>>}, f \in BOOLEAN}

Commands ==
    [keys      |-> [db |-> {0}, argv |-> KeyArgv, queue |-> 2, now |-> 2, len |-> 3],
     databases |-> [db |-> {0, 1}, argv |-> DatabaseArgv, queue |-> 2, now |-> 2, len |-> 3],
     strings   |-> [db |-> {0}, argv |-> StringArgv, queue |-> 1, now |-> 0, len |-> 3],
     lists     |-> [db |-> {0}, argv |-> ListArgv, queue |-> 1, now |-> 0, len |-> 3],
     sets      |-> [db |-> {0}, argv |-> SetArgv, queue |-> 1, now |-> 0, len |-> 3],
     hashes    |-> [db |-> {0}, argv |-> HashArgv, queue |-> 1, now |-> 0, len |-> 3],
     zsets     |-> [db |-> {0}, argv |-> ZsetArgv, queue |-> 1, now |-> 0, len |-> 1],
     entries   |-> [db |-> {0}, argv |-> EntryArgv, queue |-> 1, now |-> 0, len |-> 4],
     streams   |-> [db |-> {0}, argv |-> StreamArgv, queue |-> 1, now |-> 1, len |-> 2],
     groups    |-> [db |-> {0}, argv |-> GroupArgv, queue |-> 1, now |-> 0, len |-> 2]]

----------------------------------------------------------------------------

Init == part \in Parts /\ K!Init
Next == K!Next(Commands[part]) /\ UNCHANGED part
Spec == Init /\ [][Next]_vars

\* Once a replica has executed the stream, its databases are those of the
\* master: what call() propagates, the command itself or what it was rewritten
\* to, has on the replica the effect the command had.
ReplicaFollows == K!ReplicaFollows

\* The same for the times keys expire at.  A replica deletes no key by itself
\* (expireIfNeeded), and no expire is left without its key (dbSyncDelete).
ReplicaExpires == K!ReplicaExpires

\* Every value is one its type allows: no empty list, set, hash or sorted set
\* stays in a database, no string is too long, and a value has the compact
\* encoding only within the configured limits.
ValuesFit == K!ValuesFit

\* A pending entry of a consumer group is in the list of the group and in that
\* of one consumer, and no entry is passed over or delivered twice as new
\* (streamReplyWithRange, XCLAIM, XACK, XGROUP).
PendingAgrees ==
    /\ part \in {"streams", "groups"} => K!PendingAgrees
    /\ part = "streams" => K!NoEntrySkipped

\* A range of a stream, forwards and backwards, is that part of all entries,
\* whatever was deleted or trimmed (streamIteratorStart, streamIteratorGetID).
RangesAreRight == part = "entries" => K!RangesAreRight

\* LTRIM keeps what LRANGE answers; the commands that store an intersection, a
\* union or a difference compute it whichever algorithm the sizes select.
OperationsAreExact ==
    /\ part = "lists" => K!TrimKeepsTheRange
    /\ part = "sets" => K!SetOperationsAreExact
    /\ part = "zsets" => K!StoresAggregate

\* "Every time a key in the database is modified the function
\* signalModifiedKey() is called" (db.c), so that clients that watch the key are
\* told.  The part with MOVE, which signals nothing, is left out, and of a stream
\* only the entries count, since the commands on groups signal nothing either.
ChangesAreSignalled == [][part # "databases" => K!ChangesAreSignalled]_vars
=============================================================================
