---------------------------- MODULE Collections ----------------------------
(***************************************************************************)
(* The commands on lists (t_list.c), sets (t_set.c), hashes (t_hash.c) and *)
(* sorted sets (t_zset.c). A list is a sequence; the operations of         *)
(* quicklist.c it is stored in are taken by what they do (module           *)
(* Quicklist). A blocking pop that finds nothing changes nothing here      *)
(* (module Blocked). A set is kept as an intset while all its elements are *)
(* integers and few, a hash as a ziplist while it is small and its strings *)
(* are short; both are hash tables afterwards. Random elements are chosen  *)
(* by the environment: they are part of the command. The value of a field  *)
(* is a number <<"n", v>>, a short text or a long one. A sorted set is a   *)
(* function from elements, numbers in the order of their strings, to       *)
(* scores, with its encoding; how the encodings keep it in order is module *)
(* SortedSet. The score Inf is infinite.                                   *)
(***************************************************************************)
EXTENDS Keyspace, FiniteSetsExt

CONSTANTS IntElem,                \* the elements that are integers
          set_max_intset_entries,
          SPOP_MOVE_STRATEGY_MUL,
          LongField,              \* the field names over the ziplist limit
          Inf,                    \* a float of size Inf is infinite
          hash_max_ziplist_entries,
          LongElem,               \* the elements of sorted sets over the ziplist limit
          zset_max_ziplist_entries

(* Lists                                                                   *)
List(l) == <<"list", l>>
Head_ == "head"
Tail_ == "tail"

IsList(s, k) == TypeOf(s, k) = "list"
Items(s, k) == IF IsList(s, k) THEN Content(s, k) ELSE <<>>

listTypePush(l, e, where) == IF where = Head_ THEN <<e>> \o l ELSE Append(l, e)
listTypePop(l, where) == IF where = Head_ THEN Tail(l) ELSE Front(l)
Popped(l, where) == IF where = Head_ THEN Head(l) ELSE Last(l)

\* Position (from 1) of an index counted from 0, or from the end when negative;
\* 0 when there is none.
quicklistIndex(l, i) == IF i \in 0..Len(l) - 1 THEN i + 1
                        ELSE IF i \in -Len(l)..-1 THEN Len(l) + i + 1 ELSE 0

quicklistDelRange(l, start, count) ==
    LET extent == IF start >= 0 /\ count > Len(l) - start THEN Len(l) - start
                  ELSE IF start < 0 /\ count > -start THEN -start ELSE count
        p == quicklistIndex(l, start)
    IN IF count <= 0 \/ p = 0 THEN l
       ELSE SubSeq(l, 1, p - 1) \o SubSeq(l, p + extent, Len(l))

StoreList(s, k, l) == Store(s, k, List(l))

\* The list after an operation that removes elements: an empty one is deleted.
ListLeft(s, k, l) == IF l = <<>> THEN dbDelete(s, k) ELSE StoreList(s, k, l)

pushGenericCommand(s, k, es, where) ==
    LET t == lookupKeyWrite(s, k)
        l == FoldLeft(LAMBDA x, e : listTypePush(x, e, where), Items(t, k), es)
    IN IF WrongType(t, k, "list") THEN t ELSE Modified(StoreList(t, k, l), k, Len(es))

pushxGenericCommand(s, k, es, where) ==
    LET t == lookupKeyWrite(s, k)
        l == FoldLeft(LAMBDA x, e : listTypePush(x, e, where), Items(t, k), es)
    IN IF ~IsList(t, k) THEN t ELSE Modified(StoreList(t, k, l), k, Len(es))

\* Before or after the first element equal to the pivot.
linsertCommand(s, k, where, pivot, e) ==
    LET t == lookupKeyWrite(s, k)
        l == Items(t, k)
        p == CHOOSE i \in 0..Len(l) : /\ i = 0 => pivot \notin Range(l)
                                      /\ i # 0 => l[i] = pivot /\ pivot \notin Range(SubSeq(l, 1, i - 1))
    IN IF ~IsList(t, k) \/ p = 0 THEN t
       ELSE Modified(StoreList(t, k, InsertAt(l, IF where = Head_ THEN p ELSE p + 1, e)), k, 1)

lsetCommand(s, k, i, e) ==
    LET t == lookupKeyWrite(s, k)
        p == quicklistIndex(Items(t, k), i)
    IN IF ~IsList(t, k) \/ p = 0 THEN t
       ELSE Modified(StoreList(t, k, ReplaceAt(Items(t, k), p, e)), k, 1)

popGenericCommand(s, k, where) ==
    LET t == lookupKeyWrite(s, k)
    IN IF ~IsList(t, k) THEN t
       ELSE Modified(ListLeft(t, k, listTypePop(Items(t, k), where)), k, 1)

\* The range of LRANGE and LTRIM after the conversion of negative indexes.
lrangeCommand(l, start, end) ==
    LET s1 == IF start < 0 THEN Len(l) + start ELSE start
        e1 == IF end < 0 THEN Len(l) + end ELSE end
        s2 == IF s1 < 0 THEN 0 ELSE s1
        e2 == IF e1 >= Len(l) THEN Len(l) - 1 ELSE e1
    IN IF s2 > e1 \/ s2 >= Len(l) THEN <<>> ELSE SubSeq(l, s2 + 1, e2 + 1)

\* What LTRIM cuts off at both ends.
Trimmed(l, start, end) ==
    LET s1 == IF start < 0 THEN Len(l) + start ELSE start
        e1 == IF end < 0 THEN Len(l) + end ELSE end
        s2 == IF s1 < 0 THEN 0 ELSE s1
        e2 == IF e1 >= Len(l) THEN Len(l) - 1 ELSE e1
        none == s2 > e1 \/ s2 >= Len(l)
        ltrim == IF none THEN Len(l) ELSE s2
        rtrim == IF none THEN 0 ELSE Len(l) - e2 - 1
    IN quicklistDelRange(quicklistDelRange(l, 0, ltrim), -rtrim, rtrim)

ltrimCommand(s, k, start, end) ==
    LET t == lookupKeyWrite(s, k)
    IN IF ~IsList(t, k) THEN t
       ELSE Modified(ListLeft(t, k, Trimmed(Items(t, k), start, end)), k, 1)

\* The positions LREM deletes: the first n occurrences, the last -n, or all.
lremCommand(s, k, n, e) ==
    LET t == lookupKeyWrite(s, k)
        l == Items(t, k)
        eq == {i \in DOMAIN l : l[i] = e}
        gone == {i \in eq : \/ n = 0
                            \/ n > 0 /\ Cardinality({j \in eq : j < i}) < n
                            \/ n < 0 /\ Cardinality({j \in eq : j > i}) < -n}
        keep == SelectSeq([i \in DOMAIN l |-> i], LAMBDA i : i \notin gone)
        u == ListLeft(t, k, [i \in DOMAIN keep |-> l[keep[i]]])
    IN IF ~IsList(t, k) THEN t
       ELSE IF gone = {} THEN u ELSE Modified(u, k, Cardinality(gone))

\* The element is popped from the source object before it is pushed to the
\* destination, which may be the same list.
rpoplpushCommand(s, src, dst) ==
    LET t == lookupKeyWrite(s, src)
        u == lookupKeyWrite(t, dst)
        e == Popped(Items(u, src), Tail_)
        v == StoreList(u, src, listTypePop(Items(u, src), Tail_))
        w == StoreList(v, dst, <<e>> \o Items(v, dst))
    IN IF ~IsList(t, src) THEN t ELSE IF WrongType(u, dst, "list") THEN u
       ELSE Modified(signalModifiedKey(ListLeft(w, src, Items(w, src)), dst), src, 1)

\* BLPOP and BRPOP: the first key that exists decides; the replica is told a
\* plain pop of that key.
blockingPopGenericCommand(s, keys, where) ==
    LET look(a, k) == IF a.found THEN a
                      ELSE LET t == lookupKeyWrite(a.s, k)
                           IN [s |-> t, found |-> dbExists(t, k), key |-> k]
        a == FoldLeft(look, [s |-> s, found |-> FALSE, key |-> keys[1]], keys)
        t == popGenericCommand(a.s, a.key, where)
    IN IF ~a.found \/ WrongType(a.s, a.key, "list") THEN a.s
       ELSE [t EXCEPT !.argv = <<IF where = Head_ THEN "LPOP" ELSE "RPOP", a.key>>]

\* BRPOPLPUSH on a list is RPOPLPUSH, also for the replica.
brpoplpushCommand(s, src, dst) ==
    LET t == lookupKeyWrite(s, src)
    IN IF ~IsList(t, src) THEN t
       ELSE [rpoplpushCommand(t, src, dst) EXCEPT !.argv = <<"RPOPLPUSH", src, dst>>]

ListCommand(s, c) ==
    CASE c[1] \in {"LPUSH", "RPUSH"} ->
           pushGenericCommand(s, c[2], c[3], IF c[1] = "LPUSH" THEN Head_ ELSE Tail_)
      [] c[1] \in {"LPUSHX", "RPUSHX"} ->
           pushxGenericCommand(s, c[2], c[3], IF c[1] = "LPUSHX" THEN Head_ ELSE Tail_)
      [] c[1] = "LINSERT" -> linsertCommand(s, c[2], c[3], c[4], c[5])
      [] c[1] = "LSET" -> lsetCommand(s, c[2], c[3], c[4])
      [] c[1] \in {"LPOP", "RPOP"} ->
           popGenericCommand(s, c[2], IF c[1] = "LPOP" THEN Head_ ELSE Tail_)
      [] c[1] = "LTRIM" -> ltrimCommand(s, c[2], c[3], c[4])
      [] c[1] = "LREM" -> lremCommand(s, c[2], c[3], c[4])
      [] c[1] = "RPOPLPUSH" -> rpoplpushCommand(s, c[2], c[3])
      [] c[1] = "BRPOPLPUSH" -> brpoplpushCommand(s, c[2], c[3])
      [] c[1] \in {"BLPOP", "BRPOP"} ->
           blockingPopGenericCommand(s, c[2], IF c[1] = "BLPOP" THEN Head_ ELSE Tail_)

----------------------------------------------------------------------------
(* Sets                                                                    *)

Set(S, enc) == <<"set", S, enc>>

IsSet(s, k) == TypeOf(s, k) = "set"
Members(s, k) == IF IsSet(s, k) THEN Content(s, k) ELSE {}
Encoding(s, k) == lookupKey(s, k)[3]

setTypeCreate(e) == Set({}, IF e \in IntElem THEN "intset" ELSE "ht")

\* An element that is no integer, or one too many, converts the set for good.
setTypeAdd(v, e) ==
    LET S == v[2] \cup {e}
    IN IF v[3] = "ht" \/ e \notin IntElem THEN Set(S, "ht")
       ELSE IF e \notin v[2] /\ Cardinality(S) > set_max_intset_entries THEN Set(S, "ht")
       ELSE Set(S, "intset")

setTypeRemove(v, e) == Set(v[2] \ {e}, v[3])

SetLeft(s, k, v) == IF v[2] = {} THEN dbDelete(s, k) ELSE Store(s, k, v)
saddCommand(s, k, es) ==
    LET t == lookupKeyWrite(s, k)
        v == IF dbExists(t, k) THEN lookupKey(t, k) ELSE setTypeCreate(es[1])
        w == FoldLeft(setTypeAdd, v, es)
        added == Cardinality(w[2] \ v[2])
    IN IF WrongType(t, k, "set") THEN t
       ELSE IF added = 0 THEN t ELSE Modified(Store(t, k, w), k, added)

sremCommand(s, k, es) ==
    LET t == lookupKeyWrite(s, k)
        v == lookupKey(t, k)
        w == FoldLeft(setTypeRemove, v, es)
    IN IF ~IsSet(t, k) \/ w[2] = v[2] THEN t
       ELSE Modified(SetLeft(t, k, w), k, Cardinality(v[2] \ w[2]))

smoveCommand(s, src, dst, e) ==
    LET t == lookupKeyWrite(lookupKeyWrite(s, src), dst)
        u == SetLeft(t, src, setTypeRemove(lookupKey(t, src), e))
        v == IF dbExists(t, dst) THEN lookupKey(t, dst) ELSE setTypeCreate(e)
    IN IF ~IsSet(t, src) \/ WrongType(t, dst, "set") \/ src = dst \/ e \notin Members(t, src) THEN t
       ELSE Modified(signalModifiedKey(Store(u, dst, setTypeAdd(v, e)), src), dst,
                     IF e \in v[2] THEN 1 ELSE 2)

\* SPOP with a count; pick is the n random elements.  All of the set: the
\* replica is told DEL.  A few: they are removed one by one.  Many: the ones
\* that stay are moved to a new set, which may be an intset again.
spopWithCountCommand(s, k, n, pick) ==
    LET t == lookupKeyRead(s, k)
        S == Members(t, k)
        stay == SetToSeq(S \ pick)
        few == (Cardinality(S) - n) * SPOP_MOVE_STRATEGY_MUL > n
        newset == IF few THEN Set(S \ pick, Encoding(t, k))
                  ELSE FoldLeft(setTypeAdd, setTypeCreate(stay[1]), stay)
        q == SetToSeq(pick)
    IN IF ~IsSet(t, k) \/ n = 0 THEN t
       ELSE IF n >= Cardinality(S)
            THEN Modified([dbDelete(t, k) EXCEPT !.argv = <<"DEL", <<k>>>>], k, n + 1)
       ELSE Modified([dbOverwrite(t, k, newset) EXCEPT !.argv = Nil,
                          !.also = [i \in 1..n |-> <<s.cur, <<"SREM", k, <<q[i]>>>>>>]], k, n + 1)

spopCommand(s, k, e) ==
    LET t == lookupKeyWrite(s, k)
    IN IF ~IsSet(t, k) THEN t
       ELSE Modified([SetLeft(t, k, setTypeRemove(lookupKey(t, k), e))
                          EXCEPT !.argv = <<"SREM", k, <<e>>>>], k, 1)

(* Intersection, union and difference.                                     *)

\* The elements of the smallest set that every other set contains.
SInter(s, keys) ==
    LET sorted == SortSeq(keys, LAMBDA a, b : Cardinality(Members(s, a)) < Cardinality(Members(s, b)))
    IN {e \in Members(s, sorted[1]) :
           \A j \in 2..Len(keys) : sorted[j] = sorted[1] \/ e \in Members(s, sorted[j])}

\* A bug for comparison: the set subtracted from itself is skipped, as in SINTER.
SDiffSkipsSame(s, keys) ==
    {e \in Members(s, keys[1]) :
        \A j \in 2..Len(keys) : keys[j] = keys[1] \/ e \notin Members(s, keys[j])}

\* Algorithm 1 looks the elements of the first set up in the others, stopping at
\* the first set itself; algorithm 2 removes the elements of the others one
\* set after the other.
SDiff(s, keys) ==
    LET first == Members(s, keys[1])
        live == {j \in DOMAIN keys : dbExists(s, keys[j])}
        one == (Cardinality(live) * Cardinality(first)) \div 2
        two == FoldSet(LAMBDA j, a : a + Cardinality(Members(s, keys[j])), 0, live)
    IN IF one <= two
       THEN {e \in first : \A j \in live \ {1} : keys[j] # keys[1] /\ e \notin Members(s, keys[j])}
       ELSE FoldLeft(LAMBDA S, k : S \ Members(s, k), first, Tail(keys))

SUnion(s, keys) == FoldLeft(LAMBDA S, k : S \cup Members(s, k), {}, keys)

\* The result replaces whatever the destination held; an empty one deletes it.
StoreResult(s, dst, S) ==
    LET q == SetToSeq(S)
        v == FoldLeft(setTypeAdd, Set({}, "intset"), q)
        t == dbDelete(s, dst)
    IN Modified(IF S = {} THEN t ELSE dbAdd(t, dst, v), dst, 1)

\* The lookups stop at the first key that is missing or of the wrong type.
sinterGenericCommand(s, dst, keys) ==
    LET look(a, k) == IF a.stop THEN a
                      ELSE LET t == lookupKeyWrite(a.s, k)
                           IN [s |-> t, stop |-> ~IsSet(t, k), bad |-> WrongType(t, k, "set")]
        a == FoldLeft(look, [s |-> s, stop |-> FALSE, bad |-> FALSE], keys)
    IN IF a.bad THEN a.s
       ELSE IF a.stop
            THEN IF dbExists(a.s, dst) THEN Modified(dbDelete(a.s, dst), dst, 1) ELSE a.s
       ELSE StoreResult(a.s, dst, SInter(a.s, keys))

sunionDiffGenericCommand(s, dst, keys, op) ==
    LET look(a, k) == IF a.bad THEN a
                      ELSE LET t == lookupKeyWrite(a.s, k) IN [s |-> t, bad |-> WrongType(t, k, "set")]
        a == FoldLeft(look, [s |-> s, bad |-> FALSE], keys)
    IN IF a.bad THEN a.s
       ELSE StoreResult(a.s, dst, IF op = "union" THEN SUnion(a.s, keys) ELSE SDiff(a.s, keys))

SetCommand(s, c) ==
    CASE c[1] = "SADD" -> saddCommand(s, c[2], c[3])
      [] c[1] = "SREM" -> sremCommand(s, c[2], c[3])
      [] c[1] = "SMOVE" -> smoveCommand(s, c[2], c[3], c[4])
      [] c[1] = "SPOP" -> spopCommand(s, c[2], c[3])
      [] c[1] = "SPOPN" -> spopWithCountCommand(s, c[2], c[3], c[4])
      [] c[1] = "SINTERSTORE" -> sinterGenericCommand(s, c[2], c[3])
      [] c[1] = "SUNIONSTORE" -> sunionDiffGenericCommand(s, c[2], c[3], "union")
      [] c[1] = "SDIFFSTORE" -> sunionDiffGenericCommand(s, c[2], c[3], "diff")

----------------------------------------------------------------------------
(* Hashes                                                                  *)

Hash(h, enc) == <<"hash", h, enc>>
\* Only the arguments are looked at, a pair of which is <<field, value>>.
hashTypeTryConversion(v, args) ==
    IF \E i \in DOMAIN args : args[i][1] \in LongField \/ args[i][2] = <<"long">>
    THEN Hash(v[2], "ht") ELSE v

hashTypeSet(v, f, x) ==
    LET h == Put(v[2], f, x)
    IN Hash(h, IF Cardinality(DOMAIN h) > hash_max_ziplist_entries THEN "ht" ELSE v[3])

hashTypeDelete(v, f) == Hash(Without(v[2], f), v[3])

\* A missing key is created, empty, before the command goes on.
hashTypeLookupWriteOrCreate(s, k) ==
    LET t == lookupKeyWrite(s, k)
    IN IF dbExists(t, k) THEN t ELSE dbAdd(t, k, Hash(<<>>, "ziplist"))

hsetnxCommand(s, k, f, x) ==
    LET t == hashTypeLookupWriteOrCreate(s, k)
        v == hashTypeTryConversion(lookupKey(t, k), <<<<f, x>>>>)
    IN IF WrongType(t, k, "hash") THEN t
       ELSE IF f \in DOMAIN v[2] THEN Update(t, k, v)
       ELSE Modified(Update(t, k, hashTypeSet(v, f, x)), k, 1)

hsetCommand(s, k, args) ==
    LET t == hashTypeLookupWriteOrCreate(s, k)
        v == hashTypeTryConversion(lookupKey(t, k), args)
    IN IF WrongType(t, k, "hash") THEN t
       ELSE Modified(Update(t, k, FoldLeft(LAMBDA a, p : hashTypeSet(a, p[1], p[2]), v, args)), k, 1)

IsInteger(x) == x[1] = "n" /\ x[2] \in LLONG_MIN..LLONG_MAX

Overflows(old, incr) ==
    \/ incr < 0 /\ old < 0 /\ incr < LLONG_MIN - old
    \/ incr > 0 /\ old > 0 /\ incr > LLONG_MAX - old

hincrbyCommand(s, k, f, incr) ==
    LET t == hashTypeLookupWriteOrCreate(s, k)
        v == lookupKey(t, k)
        old == IF f \in DOMAIN v[2] THEN v[2][f] ELSE <<"n", 0>>
    IN IF WrongType(t, k, "hash") \/ ~IsInteger(old) \/ Overflows(old[2], incr) THEN t
       ELSE Modified(Update(t, k, hashTypeSet(v, f, <<"n", old[2] + incr>>)), k, 1)

\* The replica is told the result, which may lie outside the integers.
hincrbyfloatCommand(s, k, f, incr) ==
    LET t == hashTypeLookupWriteOrCreate(s, k)
        v == lookupKey(t, k)
        old == IF f \in DOMAIN v[2] THEN v[2][f] ELSE <<"n", 0>>
        sum == old[2] + incr
        new == <<"n", sum>>
    IN IF WrongType(t, k, "hash") \/ old[1] # "n" \/ sum \notin -Inf + 1..Inf - 1 THEN t
       ELSE [Modified(Update(t, k, hashTypeSet(v, f, new)), k, 1)
                EXCEPT !.argv = <<"HSET", k, <<<<f, new>>>>>>]

\* A bug for comparison: a hash without fields is kept.
HdelKeepsKey(s, k, fs) ==
    LET t == lookupKeyWrite(s, k)
        v == lookupKey(t, k)
        w == FoldLeft(hashTypeDelete, v, fs)
        deleted == Cardinality(DOMAIN v[2]) - Cardinality(DOMAIN w[2])
    IN IF TypeOf(t, k) # "hash" \/ deleted = 0 THEN t ELSE Modified(Update(t, k, w), k, deleted)

hdelCommand(s, k, fs) ==
    LET t == lookupKeyWrite(s, k)
        v == lookupKey(t, k)
        w == FoldLeft(hashTypeDelete, v, fs)
        deleted == Cardinality(DOMAIN v[2]) - Cardinality(DOMAIN w[2])
    IN IF TypeOf(t, k) # "hash" \/ deleted = 0 THEN t
       ELSE Modified(IF w[2] = <<>> THEN dbDelete(t, k) ELSE Update(t, k, w), k, deleted)

HashCommand(s, c) ==
    CASE c[1] = "HSETNX" -> hsetnxCommand(s, c[2], c[3], c[4])
      [] c[1] = "HSET" -> hsetCommand(s, c[2], c[3])
      [] c[1] = "HINCRBY" -> hincrbyCommand(s, c[2], c[3], c[4])
      [] c[1] = "HINCRBYFLOAT" -> hincrbyfloatCommand(s, c[2], c[3], c[4])
      [] c[1] = "HDEL" -> hdelCommand(s, c[2], c[3])
----------------------------------------------------------------------------
(* Sorted sets                                                             *)

NaN == 10 * Inf  \* stands for no number
Infinite(x) == x \in {Inf, -Inf}
Plus(x, y) == IF NaN \in {x, y} \/ (Infinite(x) /\ y = -x) THEN NaN
              ELSE IF Infinite(x) THEN x ELSE IF Infinite(y) THEN y ELSE x + y
Times(x, y) == IF (Infinite(x) /\ y = 0) \/ (Infinite(y) /\ x = 0) THEN NaN
               ELSE IF Infinite(x) \/ Infinite(y) THEN IF x * y > 0 THEN Inf ELSE -Inf ELSE x * y

Zset(z, enc) == <<"zset", z, enc>>
Order(z) == SetToSortSeq(DOMAIN z, LAMBDA x, y : z[x] < z[y] \/ (z[x] = z[y] /\ x < y))

\* NX, XX and INCR; a sum that is not a number is refused.
zsetAdd(v, e, x, flags) ==
    LET z == v[2]
        score == IF e \in DOMAIN z /\ "INCR" \in flags THEN Plus(z[e], x) ELSE x
        new == Put(z, e, score)
    IN IF (e \in DOMAIN z /\ "NX" \in flags) \/ (e \notin DOMAIN z /\ "XX" \in flags) \/ score = NaN THEN v
       ELSE Zset(new, IF e \in DOMAIN z THEN v[3]
                      ELSE IF Cardinality(DOMAIN new) > zset_max_ziplist_entries \/ e \in LongElem THEN "skiplist" ELSE v[3])

NewZset(e) == Zset(<<>>, IF zset_max_ziplist_entries = 0 \/ e \in LongElem THEN "skiplist" ELSE "ziplist")

\* Pairs of an element and a score.  Nothing is created under XX.
zaddGenericCommand(s, k, pairs, flags) ==
    LET t == lookupKeyWrite(s, k)
        u == IF dbExists(t, k) THEN t ELSE dbAdd(t, k, NewZset(pairs[1][1]))
        v == FoldLeft(LAMBDA w, p : zsetAdd(w, p[1], p[2], flags), lookupKey(u, k), pairs)
        changes == Cardinality({i \in DOMAIN pairs : pairs[i][1] \in DOMAIN v[2]
                       /\ (pairs[i][1] \notin DOMAIN Content(u, k) \/ Content(u, k)[pairs[i][1]] # v[2][pairs[i][1]])})
    IN IF WrongType(t, k, "zset") \/ (~dbExists(t, k) /\ "XX" \in flags) THEN t
       ELSE IF changes = 0 THEN Update(u, k, v) ELSE Modified(Update(u, k, v), k, changes)

\* A sorted set that has lost its last element is deleted.
RemoveAll(t, k, X) ==
    LET z == Content(t, k)
        left == [e \in DOMAIN z \ X |-> z[e]]
        n == Cardinality(DOMAIN z \cap X)
    IN IF n = 0 THEN t
       ELSE Modified(IF DOMAIN left = {} THEN dbDelete(t, k) ELSE Update(t, k, Zset(left, lookupKey(t, k)[3])), k, n)

zremCommand(s, k, X) ==
    LET t == lookupKeyWrite(s, k) IN IF TypeOf(t, k) # "zset" THEN t ELSE RemoveAll(t, k, X)

\* By rank, with indexes from the end if negative, by score or by element.
zremrangeGenericCommand(s, k, by, first, last) ==
    LET t == lookupKeyWrite(s, k)
        z == Content(t, k)
        n == Cardinality(DOMAIN z)
        start == IF first < 0 THEN IF n + first < 0 THEN 0 ELSE n + first ELSE first
        end == IF last < 0 THEN n + last ELSE last
    IN IF TypeOf(t, k) # "zset" THEN t
       ELSE RemoveAll(t, k, CASE by = "RANK" -> {e \in DOMAIN z : \E i \in start..end : i < n /\ Order(z)[i + 1] = e}
                           [] by = "SCORE" -> {e \in DOMAIN z : z[e] \in first..last}
                           [] by = "LEX" -> {e \in DOMAIN z : e \in first..last})

\* The first or the last ones, until the count is reached or nothing is left.
genericZpopCommand(s, k, where, count) ==
    LET t == lookupKeyWrite(s, k)
        order == Order(Content(t, k))
        n == Len(order)
    IN IF TypeOf(t, k) # "zset" \/ count <= 0 THEN t
       ELSE RemoveAll(t, k, {order[i] : i \in IF where = "MAX" THEN {i \in 1..n : i > n - count} ELSE {i \in 1..n : i <= count}})

\* A set counts as a sorted set with scores of one, a missing key as an empty one.
zuiSource(s, k) == CASE TypeOf(s, k) = "zset" -> Content(s, k)
                     [] TypeOf(s, k) = "set" -> [e \in Content(s, k) |-> 1]
                     [] OTHER -> <<>>

zunionInterAggregate(x, y, aggregate) ==
    CASE aggregate = "SUM" -> IF Plus(x, y) = NaN THEN 0 ELSE Plus(x, y)
      [] aggregate = "MIN" -> IF y # NaN /\ y < x THEN y ELSE x
      [] aggregate = "MAX" -> IF y # NaN /\ y > x THEN y ELSE x

\* Sources <<sorted set, weight>> in the order of their size; a product that is not a number is 0.
ZUnion(src, aggregate) ==
    LET Number(x) == IF x = NaN THEN 0 ELSE x
        found(e) == SelectSeq(src, LAMBDA p : e \in DOMAIN p[1])
        weighted(p, e) == Number(Times(p[2], p[1][e]))
    IN [e \in UNION {DOMAIN src[i][1] : i \in DOMAIN src} |->
           FoldLeft(LAMBDA x, p : zunionInterAggregate(x, weighted(p, e), aggregate),
                    weighted(Head(found(e)), e), Tail(found(e)))]

\* Only the product of the first source is made a number.
ZInter(src, aggregate) ==
    LET first(e) == Times(Head(src)[2], Head(src)[1][e])
    IN [e \in {x \in DOMAIN Head(src)[1] : \A i \in DOMAIN src : x \in DOMAIN src[i][1]} |->
           FoldLeft(LAMBDA x, p : zunionInterAggregate(x, Times(p[1][e], p[2]), aggregate),
                    IF first(e) = NaN THEN 0 ELSE first(e), Tail(src))]

zuiCompareByCardinality(p, q) == Cardinality(DOMAIN p[1]) < Cardinality(DOMAIN q[1])

Computed(t, op, keys, weights, aggregate) ==
    LET Of(src) == IF op = "UNION" THEN ZUnion(src, aggregate) ELSE ZInter(src, aggregate)
    IN Of(SortSeq([i \in DOMAIN keys |-> <<zuiSource(t, keys[i]), weights[i]>>], zuiCompareByCardinality))

\* The result is made in a new sorted set, which then replaces the destination.
zunionInterGenericCommand(s, dst, op, keys, weights, aggregate) ==
    LET t == FoldLeft(lookupKeyWrite, s, keys)
        z == Computed(t, op, keys, weights, aggregate)
        gone == dbDelete(t, dst)
        enc == IF Cardinality(DOMAIN z) <= zset_max_ziplist_entries /\ DOMAIN z \cap LongElem = {} THEN "ziplist" ELSE "skiplist"
    IN IF \E i \in DOMAIN keys : dbExists(t, keys[i]) /\ TypeOf(t, keys[i]) \notin {"zset", "set"} THEN t
       ELSE IF DOMAIN z = {} THEN IF dbExists(t, dst) THEN Modified(gone, dst, 1) ELSE gone
       ELSE Modified(dbAdd(gone, dst, Zset(z, enc)), dst, 1)

ZsetCommand(s, c) ==
    CASE c[1] = "ZADD" -> zaddGenericCommand(s, c[2], c[3], c[4])
      [] c[1] = "ZREM" -> zremCommand(s, c[2], c[3])
      [] c[1] = "ZREMRANGE" -> zremrangeGenericCommand(s, c[2], c[3], c[4], c[5])
      [] c[1] = "ZPOP" -> genericZpopCommand(s, c[2], c[3], c[4])
      [] c[1] = "ZSTORE" -> zunionInterGenericCommand(s, c[2], c[3], c[4], c[5], c[6])
=============================================================================
