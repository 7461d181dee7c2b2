------------------------------ MODULE Keyspace ------------------------------
(***************************************************************************)
(* The databases of a Redis server, the commands on keys of any type       *)
(* (db.c, expire.c) and the string commands (t_string.c). A server is a    *)
(* record; every operation maps the record before to the record after. The *)
(* modules of the other data types extend this one, and module Commands    *)
(* runs them all. A string is a sequence of bytes: the digits 0 and 1 of   *)
(* numbers written in base 2, so that short strings reach the limits, the  *)
(* minus sign and NUL.                                                     *)
(***************************************************************************)
EXTENDS Integers, Sequences, FiniteSets, SequencesExt

CONSTANTS Db, Key,
          LLONG_MAX,  \* numbers are -LLONG_MAX - 1..LLONG_MAX
          MaxLen      \* the longest string, 512MB

LLONG_MIN == -LLONG_MAX - 1

Nil == <<"none">>
Empty == <<>>

Server(isMaster) ==
    [dict |-> [d \in Db |-> Empty], exp |-> [d \in Db |-> Empty], master |-> isMaster,
     cur |-> 0, now |-> 0, dirty |-> 0, touched |-> {}, ready |-> {},
     out |-> <<>>, also |-> <<>>, argv |-> <<>>]

Put(f, k, v) == [x \in DOMAIN f \cup {k} |-> IF x = k THEN v ELSE f[x]]
Without(f, k) == [x \in DOMAIN f \ {k} |-> f[x]]

In(s, d) == [s EXCEPT !.cur = d]
Dirty(s, n) == [s EXCEPT !.dirty = @ + n]

lookupKey(s, k) == IF k \in DOMAIN s.dict[s.cur] THEN s.dict[s.cur][k] ELSE Nil
dbExists(s, k) == k \in DOMAIN s.dict[s.cur]
TypeOf(s, k) == lookupKey(s, k)[1]
Content(s, k) == lookupKey(s, k)[2]

signalModifiedKey(s, k) == [s EXCEPT !.touched = @ \cup {<<s.cur, k>>}]

\* dbAdd() wakes the clients blocked on a list or sorted set that appears.
dbAdd(s, k, v) ==
    [s EXCEPT !.dict[s.cur] = Put(@, k, v),
              !.ready = IF v[1] \in {"list", "zset"} THEN @ \cup {<<s.cur, k>>} ELSE @]

dbOverwrite(s, k, v) == [s EXCEPT !.dict[s.cur][k] = v]

\* A bug for comparison: the expire of a deleted key stays.
DeleteKeepsExpire(s, k) == [s EXCEPT !.dict[s.cur] = Without(@, k)]

dbSyncDelete(s, k) ==
    [s EXCEPT !.dict[s.cur] = Without(@, k), !.exp[s.cur] = Without(@, k)]

dbDelete(s, k) == dbSyncDelete(s, k)

removeExpire(s, k) == [s EXCEPT !.exp[s.cur] = Without(@, k)]
setExpire(s, k, when) == [s EXCEPT !.exp[s.cur] = Put(@, k, when)]
getExpire(s, k) == IF k \in DOMAIN s.exp[s.cur] THEN s.exp[s.cur][k] ELSE -1

keyIsExpired(s, k) == getExpire(s, k) # -1 /\ s.now > getExpire(s, k)

propagateExpire(s, k) == [s EXCEPT !.out = Append(@, <<s.cur, <<"DEL", <<k>>>>>>)]

\* A bug for comparison: the replica deletes expired keys by itself.
ExpireEverywhere(s, k) ==
    IF keyIsExpired(s, k) THEN dbDelete(propagateExpire(s, k), k) ELSE s

\* Only the master deletes what it finds expired, and says so in the stream.
expireIfNeeded(s, k) ==
    IF keyIsExpired(s, k) /\ s.master THEN dbDelete(propagateExpire(s, k), k) ELSE s

lookupKeyWrite(s, k) == expireIfNeeded(s, k)
lookupKeyRead(s, k) == expireIfNeeded(s, k)

setKey(s, k, v) ==
    LET t == lookupKeyWrite(s, k)
        u == IF dbExists(t, k) THEN dbOverwrite(t, k, v) ELSE dbAdd(t, k, v)
    IN signalModifiedKey(removeExpire(u, k), k)

(* What the commands of the types have in common.                          *)

WrongType(s, k, type) == dbExists(s, k) /\ TypeOf(s, k) # type
Store(s, k, v) == IF dbExists(s, k) THEN dbOverwrite(s, k, v) ELSE dbAdd(s, k, v)
Update(s, k, v) == [s EXCEPT !.dict[s.cur] = Put(@, k, v)]
Modified(s, k, n) == Dirty(signalModifiedKey(s, k), n)

----------------------------------------------------------------------------
(* The commands of db.c and expire.c.                                      *)

ReadCommand(s, keys) == FoldLeft(lookupKeyRead, s, keys)

delGenericCommand(s, keys) ==
    LET one(t, k) == LET u == expireIfNeeded(t, k)
                     IN IF dbExists(u, k) THEN Dirty(signalModifiedKey(dbDelete(u, k), k), 1)
                        ELSE u
    IN FoldLeft(one, s, keys)

EmptyDb(s, d) ==
    [s EXCEPT !.touched = @ \cup {<<d, k>> : k \in DOMAIN s.dict[d]},
              !.dict[d] = Empty, !.exp[d] = Empty]

flushdbCommand(s) == Dirty(EmptyDb(s, s.cur), Cardinality(DOMAIN s.dict[s.cur]))
flushallCommand(s) == Dirty(FoldLeft(EmptyDb, s, SetToSeq(Db)), 1)

renameGenericCommand(s, k, l, nx) ==
    LET t == lookupKeyWrite(s, k)
        u == lookupKeyWrite(t, l)
        added == dbAdd(dbDelete(u, l), l, lookupKey(u, k))
        w == IF getExpire(t, k) # -1 THEN setExpire(added, l, getExpire(t, k)) ELSE added
    IN IF ~dbExists(t, k) \/ k = l THEN t
       ELSE IF dbExists(u, l) /\ nx THEN u
       ELSE Dirty(signalModifiedKey(signalModifiedKey(dbDelete(w, k), k), l), 1)

moveCommand(s, k, dst) ==
    LET t == lookupKeyWrite(s, k)
        u == In(lookupKeyWrite(In(t, dst), k), s.cur)
        added == dbAdd(In(u, dst), k, lookupKey(t, k))
        w == IF getExpire(t, k) # -1 THEN setExpire(added, k, getExpire(t, k)) ELSE added
    IN IF dst = s.cur THEN s
       ELSE IF ~dbExists(t, k) THEN t
       ELSE IF dbExists(In(u, dst), k) THEN u
       ELSE Dirty(dbDelete(In(w, s.cur), k), 1)

\* The dictionaries change places; the blocked clients of both are reconsidered.
dbSwapDatabases(s, i, j) ==
    [s EXCEPT !.dict[i] = s.dict[j], !.dict[j] = s.dict[i],
              !.exp[i] = s.exp[j], !.exp[j] = s.exp[i],
              !.ready = @ \cup {<<i, k>> : k \in DOMAIN s.dict[j]}
                          \cup {<<j, k>> : k \in DOMAIN s.dict[i]}]

swapdbCommand(s, i, j) == Dirty(dbSwapDatabases(s, i, j), 1)

\* A time that has passed deletes the key, which the replica is told as a DEL.
expireGenericCommand(s, k, when) ==
    LET t == lookupKeyWrite(s, k)
    IN IF ~dbExists(t, k) THEN t
       ELSE IF when <= s.now /\ s.master
            THEN Dirty([signalModifiedKey(dbDelete(t, k), k)
                            EXCEPT !.argv = <<"DEL", <<k>>>>], 1)
       ELSE Dirty(signalModifiedKey(setExpire(t, k, when), k), 1)

persistCommand(s, k) ==
    LET t == lookupKeyWrite(s, k)
    IN IF getExpire(t, k) = -1 THEN t ELSE Dirty(removeExpire(t, k), 1)

GenericCommand(s, c) ==
    CASE c[1] \in {"EXISTS", "TYPE", "TTL", "TOUCH"} -> ReadCommand(s, c[2])
      [] c[1] \in {"DEL", "UNLINK"} -> delGenericCommand(s, c[2])
      [] c[1] = "FLUSHDB" -> flushdbCommand(s)
      [] c[1] = "FLUSHALL" -> flushallCommand(s)
      [] c[1] = "RENAME" -> renameGenericCommand(s, c[2], c[3], FALSE)
      [] c[1] = "RENAMENX" -> renameGenericCommand(s, c[2], c[3], TRUE)
      [] c[1] = "MOVE" -> moveCommand(s, c[2], c[3])
      [] c[1] = "SWAPDB" -> swapdbCommand(s, c[2], c[3])
      [] c[1] = "PEXPIRE" -> expireGenericCommand(s, c[2], s.now + c[3])
      [] c[1] = "PEXPIREAT" -> expireGenericCommand(s, c[2], c[3])
      [] c[1] = "PERSIST" -> persistCommand(s, c[2])

----------------------------------------------------------------------------
(* Strings                                                                 *)

Str(b) == <<"string", b>>

Minus == 2
Nul == 3

Digits(b) == FoldLeft(LAMBDA n, x : 2 * n + x, 0, b)
Value(b) == IF b[1] = Minus THEN -Digits(Tail(b)) ELSE Digits(b)
Unsigned(n) == CHOOSE b \in UNION {[1..i -> {0, 1}] : i \in 1..4} :
                   Digits(b) = n /\ (b[1] = 1 \/ Len(b) = 1)
Text(n) == IF n < 0 THEN <<Minus>> \o Unsigned(-n) ELSE Unsigned(n)

\* string2ll() accepts the exact text of a long long only.
IsNumber(b) ==
    LET d == IF b # <<>> /\ b[1] = Minus THEN Tail(b) ELSE b
    IN /\ d # <<>> /\ \A i \in DOMAIN d : d[i] \in {0, 1}
       /\ d[1] = 1 \/ b = <<0>>
       /\ Value(b) \in LLONG_MIN..LLONG_MAX

checkStringLength(n) == n <= MaxLen

\* SET and its variants; ex = 0 stands for no expire, -1 for one that is refused.
setGenericCommand(s, k, b, flag, ex) ==
    LET t == IF flag = "none" THEN s ELSE lookupKeyWrite(s, k)
        u == Dirty(setKey(t, k, Str(b)), 1)
    IN IF ex < 0 THEN s
       ELSE IF (flag = "NX" /\ dbExists(t, k)) \/ (flag = "XX" /\ ~dbExists(t, k)) THEN t
       ELSE IF ex > 0 THEN setExpire(u, k, s.now + ex) ELSE u

getsetCommand(s, k, b) ==
    LET t == lookupKeyRead(s, k)
    IN IF WrongType(t, k, "string") THEN t ELSE Dirty(setKey(t, k, Str(b)), 1)

\* The bytes from the offset on are replaced, a gap is filled with NULs.
Overlay(b, off, w) ==
    [i \in 1..(IF Len(b) > off + Len(w) THEN Len(b) ELSE off + Len(w)) |->
        IF i > off /\ i <= off + Len(w) THEN w[i - off]
        ELSE IF i <= Len(b) THEN b[i] ELSE Nul]

\* A bug for comparison: WATCHers are not told.
SetrangeUnsignalled(s, k, off, w) ==
    LET t == lookupKeyWrite(s, k)
        old == IF dbExists(t, k) THEN Content(t, k) ELSE <<>>
    IN IF off < 0 THEN s
       ELSE IF WrongType(t, k, "string") \/ w = <<>> \/ ~checkStringLength(off + Len(w)) THEN t
       ELSE Dirty(Store(t, k, Str(Overlay(old, off, w))), 1)

setrangeCommand(s, k, off, w) ==
    LET t == lookupKeyWrite(s, k)
        old == IF dbExists(t, k) THEN Content(t, k) ELSE <<>>
    IN IF off < 0 THEN s
       ELSE IF WrongType(t, k, "string") \/ w = <<>> \/ ~checkStringLength(off + Len(w)) THEN t
       ELSE Modified(Store(t, k, Str(Overlay(old, off, w))), k, 1)

\* MSETNX looks up the keys until one exists.
msetGenericCommand(s, pairs, nx) ==
    LET look(a, p) == IF a[2] THEN a
                      ELSE LET u == lookupKeyWrite(a[1], p[1]) IN <<u, dbExists(u, p[1])>>
        busy == FoldLeft(look, <<s, FALSE>>, pairs)
        t == IF nx THEN busy[1] ELSE s
    IN IF nx /\ busy[2] THEN t
       ELSE Dirty(FoldLeft(LAMBDA a, p : setKey(a, p[1], Str(p[2])), t, pairs), Len(pairs))

incrDecrCommand(s, k, n) ==
    LET t == lookupKeyWrite(s, k)
        old == IF dbExists(t, k) THEN Value(Content(t, k)) ELSE 0
    IN IF \/ WrongType(t, k, "string")
          \/ dbExists(t, k) /\ ~IsNumber(Content(t, k))
          \/ n < 0 /\ old < 0 /\ n < LLONG_MIN - old
          \/ n > 0 /\ old > 0 /\ n > LLONG_MAX - old
       THEN t
       ELSE Modified(Store(t, k, Str(Text(old + n))), k, 1)

\* The replica is told the result, as a SET.
incrbyfloatCommand(s, k, n) ==
    LET t == lookupKeyWrite(s, k)
        old == IF dbExists(t, k) THEN Value(Content(t, k)) ELSE 0
        b == Text(old + n)
    IN IF WrongType(t, k, "string") \/ (dbExists(t, k) /\ ~IsNumber(Content(t, k))) THEN t
       ELSE [Modified(Store(t, k, Str(b)), k, 1) EXCEPT !.argv = <<"SET", k, b, "none", 0>>]

appendCommand(s, k, w) ==
    LET t == lookupKeyWrite(s, k)
    IN IF ~dbExists(t, k) THEN Modified(dbAdd(t, k, Str(w)), k, 1)
       ELSE IF WrongType(t, k, "string") \/ ~checkStringLength(Len(Content(t, k)) + Len(w)) THEN t
       ELSE Modified(dbOverwrite(t, k, Str(Content(t, k) \o w)), k, 1)

StringCommand(s, c) ==
    CASE c[1] = "SET" -> setGenericCommand(s, c[2], c[3], c[4], c[5])
      [] c[1] = "GETSET" -> getsetCommand(s, c[2], c[3])
      [] c[1] = "SETRANGE" -> setrangeCommand(s, c[2], c[3], c[4])
      [] c[1] = "MSET" -> msetGenericCommand(s, c[2], FALSE)
      [] c[1] = "MSETNX" -> msetGenericCommand(s, c[2], TRUE)
      [] c[1] = "INCRBY" -> incrDecrCommand(s, c[2], c[3])
      [] c[1] = "INCRBYFLOAT" -> incrbyfloatCommand(s, c[2], c[3])
      [] c[1] = "APPEND" -> appendCommand(s, c[2], c[3])
=============================================================================
