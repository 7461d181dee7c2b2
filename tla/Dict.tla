-------------------------------- MODULE Dict --------------------------------
(***************************************************************************)
(* The hash table (dict.c): chains of entries, incremental rehashing from  *)
(* ht[0] to ht[1], safe iterators, and SCAN with its reversed cursor.  A   *)
(* key is its hash; an entry is a pair <<key, value>>.                     *)
(***************************************************************************)
EXTENDS Integers, Sequences, FiniteSets, SequencesExt, FiniteSetsExt

CONSTANTS Key, Value,
          W,             \* the width of a cursor in bits
          INITIAL_SIZE,  \* DICT_HT_INITIAL_SIZE
          EmptyVisits    \* empty buckets a step of rehashing may visit

VARIABLES d,      \* the dictionary
          scan,   \* an iteration with SCAN
          iter    \* a safe iterator

vars == <<d, scan, iter>>

NoTable == [i \in {} |-> <<>>]
NewTable(size) == [i \in 0 .. size - 1 |-> <<>>]
Size(t) == Cardinality(DOMAIN t)
_dictInit == [ht |-> <<NoTable, NoTable>>, used |-> <<0, 0>>, rehashidx |-> -1, iterators |-> 0, resize |-> TRUE]
dictIsRehashing(x) == x.rehashidx # -1
dictSize(x) == x.used[1] + x.used[2]
Tables(x) == IF dictIsRehashing(x) THEN {1, 2} ELSE {1}

Chain(x, t, k) == x.ht[t][k % Size(x.ht[t])]
Has(x, t, k) == x.ht[t] # NoTable /\ \E i \in DOMAIN Chain(x, t, k) : Chain(x, t, k)[i][1] = k
Entries(x) == UNION {UNION {ToSet(x.ht[t][i]) : i \in DOMAIN x.ht[t]} : t \in {1, 2}}
Keys(x) == {e[1] : e \in Entries(x)}

----------------------------------------------------------------------------
(* Resizing and rehashing.                                                 *)

_dictNextPower(size) == Min({INITIAL_SIZE * 2^i : i \in {j \in 0 .. W : INITIAL_SIZE * 2^j >= size}})

dictExpand(x, size) ==
    LET real == _dictNextPower(size)
    IN IF dictIsRehashing(x) \/ x.used[1] > size \/ real = Size(x.ht[1]) THEN x
       ELSE IF x.ht[1] = NoTable THEN [x EXCEPT !.ht[1] = NewTable(real)]
       ELSE [x EXCEPT !.ht[2] = NewTable(real), !.rehashidx = 0]

dictResize(x) ==
    IF ~x.resize \/ dictIsRehashing(x) THEN x ELSE dictExpand(x, Max({x.used[1], INITIAL_SIZE}))

\* The factor at which a table grows in any case is 5 in the code.
_dictExpandIfNeeded(x) ==
    IF dictIsRehashing(x) THEN x
    ELSE IF x.ht[1] = NoTable THEN dictExpand(x, INITIAL_SIZE)
    ELSE IF x.used[1] >= Size(x.ht[1]) /\ (x.resize \/ x.used[1] \div Size(x.ht[1]) > 5)
    THEN dictExpand(x, x.used[1] * 2)
    ELSE x

\* A bug for comparison: only the first entry of the chain is moved.
MoveFirst(x, i) ==
    LET e == x.ht[1][i][1]
    IN [x EXCEPT !.ht[1][i] = <<>>, !.ht[2][e[1] % Size(x.ht[2])] = <<e>> \o @,
                 !.used = <<@[1] - Len(x.ht[1][i]), @[2] + 1>>, !.rehashidx = i + 1]

\* The entries of a bucket go to the new table one after another, each on top.
MoveBucket(x, i) ==
    LET n == Len(x.ht[1][i])
        size == Size(x.ht[2])
    IN [x EXCEPT !.ht[1][i] = <<>>,
                 !.ht[2] = FoldLeft(LAMBDA t, e : [t EXCEPT ![e[1] % size] = <<e>> \o @], @, x.ht[1][i]),
                 !.used = <<@[1] - n, @[2] + n>>, !.rehashidx = i + 1]

RECURSIVE dictRehash(_, _, _)
dictRehash(x, n, visits) ==
    LET full == {i \in DOMAIN x.ht[1] : i >= x.rehashidx /\ x.ht[1][i] # <<>>}
        skipped == Min(full) - x.rehashidx
    IN IF ~dictIsRehashing(x) THEN x
       ELSE IF x.used[1] = 0 THEN [x EXCEPT !.ht = <<@[2], NoTable>>, !.used = <<@[2], 0>>, !.rehashidx = -1]
       ELSE IF n = 0 THEN x
       ELSE IF skipped >= visits THEN [x EXCEPT !.rehashidx = @ + visits]
       ELSE dictRehash(MoveBucket(x, Min(full)), n - 1, visits - skipped)

_dictRehashStep(x) == IF x.iterators = 0 /\ dictIsRehashing(x) THEN dictRehash(x, 1, EmptyVisits) ELSE x

----------------------------------------------------------------------------
(* Entries.                                                                *)

\* A new entry goes to the new table, on top of its chain.
dictAddRaw(x, k, v) ==
    LET add(y) == LET t == IF dictIsRehashing(y) THEN 2 ELSE 1
                  IN IF \E u \in Tables(y) : Has(y, u, k) THEN y
                     ELSE [y EXCEPT !.ht[t][k % Size(y.ht[t])] = <<<<k, v>>>> \o @, !.used[t] = @ + 1]
    IN add(_dictExpandIfNeeded(_dictRehashStep(x)))

SetVal(x, k, v) ==
    [x EXCEPT !.ht = [t \in {1, 2} |-> [i \in DOMAIN @[t] |->
        [j \in DOMAIN @[t][i] |-> IF @[t][i][j][1] = k THEN <<k, v>> ELSE @[t][i][j]]]]]

dictReplace(x, k, v) == SetVal(dictAddRaw(x, k, v), k, v)

\* The first table that has the key loses it.
dictGenericDelete(x, k) ==
    LET del(y) == LET in == {t \in Tables(y) : Has(y, t, k)}
                      t == Min(in)
                  IN IF in = {} THEN y
                     ELSE [y EXCEPT !.ht[t][k % Size(y.ht[t])] = SelectSeq(@, LAMBDA e : e[1] # k), !.used[t] = @ - 1]
    IN IF dictSize(x) = 0 THEN x ELSE del(_dictRehashStep(x))

dictFind(x) == IF dictSize(x) = 0 THEN x ELSE _dictRehashStep(x)
dictEmpty(x) == [_dictInit EXCEPT !.resize = x.resize]

----------------------------------------------------------------------------
(* SCAN.                                                                   *)

Bit(v, i) == (v \div 2^i) % 2
rev(v) == FoldSet(LAMBDA i, s : s + Bit(v, i) * 2^(W - 1 - i), 0, 0 .. W - 1)

\* The unmasked bits are set, and the reversed cursor is incremented.
NextCursor(v, size) == rev((rev((v % size) + (2^W - size)) + 1) % 2^W)

\* The cursors of the larger table that expand one of the smaller table: the
\* buckets visited and the cursor that is returned.
RECURSIVE Expansion(_, _, _)
Expansion(v, small, large) ==
    LET next == NextCursor(v, large)
    IN IF (next % large) \div small = 0 THEN <<{v % large}, next>>
       ELSE LET more == Expansion(next, small, large) IN <<more[1] \cup {v % large}, more[2]>>

\* A bug for comparison: a plain counter.
ScanInOrder(x, v) ==
    LET size == Size(x.ht[1])
    IN IF dictSize(x) = 0 THEN <<{}, 0>>
       ELSE <<{e[1] : e \in ToSet(x.ht[1][v % size])}, IF v + 1 >= size THEN 0 ELSE v + 1>>

\* The keys that are returned, and the next cursor.
dictScan(x, v) ==
    LET small == IF Size(x.ht[1]) <= Size(x.ht[2]) THEN 1 ELSE 2
        more == Expansion(v, Size(x.ht[small]), Size(x.ht[3 - small]))
        keys(t, B) == {e[1] : e \in UNION {ToSet(x.ht[t][b % Size(x.ht[t])]) : b \in B}}
    IN IF dictSize(x) = 0 THEN <<{}, 0>>
       ELSE IF ~dictIsRehashing(x) THEN <<keys(1, {v}), NextCursor(v, Size(x.ht[1]))>>
       ELSE <<keys(small, {v}) \cup keys(3 - small, more[1]), more[2]>>

----------------------------------------------------------------------------
(* A safe iterator: the position, the entry returned last and the one      *)
(* after it, which is read before the user may delete the first.           *)

NoIter == [on |-> FALSE, table |-> 1, index |-> -1, next |-> -1, given |-> {}, twice |-> {}, due |-> {}, missed |-> {}]

\* The next chain that is not empty, or the end.
RECURSIVE NextChain(_, _, _)
NextChain(x, t, i) ==
    IF i \in DOMAIN x.ht[t]
    THEN IF x.ht[t][i] # <<>> THEN [table |-> t, index |-> i, entry |-> x.ht[t][i][1][1]]
         ELSE NextChain(x, t, i + 1)
    ELSE IF dictIsRehashing(x) /\ t = 1 THEN NextChain(x, 2, 0) ELSE [table |-> t, index |-> i, entry |-> -1]

\* The entry after this one in its chain.
After(x, t, k) ==
    LET c == Chain(x, t, k)
        i == CHOOSE j \in DOMAIN c : c[j][1] = k
    IN IF i = Len(c) THEN -1 ELSE c[i + 1][1]

\* Where the iterator gets: its position and the entry it returns.
dictNext(x, it) ==
    IF it.next # -1 THEN [table |-> it.table, index |-> it.index, entry |-> it.next]
    ELSE NextChain(x, it.table, it.index + 1)

----------------------------------------------------------------------------
(* The program.                                                            *)

NoScan == [on |-> FALSE, cursor |-> 0, seen |-> {}, due |-> {}, missed |-> {}]
Init == d = _dictInit /\ scan = NoScan /\ iter = NoIter

\* What an iteration owes: the keys that were there from its start on.
Owed == /\ scan' = [scan EXCEPT !.due = @ \cap Keys(d')]
        /\ iter' = [iter EXCEPT !.due = @ \cap Keys(d')]
Do(x) == d' = x /\ Owed

Add(k, v) == Do(dictAddRaw(d, k, v))
Replace(k, v) == Do(dictReplace(d, k, v))
\* The entry that the iterator has read ahead may not be deleted.
Delete(k) == k # iter.next /\ Do(dictGenericDelete(d, k))
Find == Do(dictFind(d))
Resize == Do(dictResize(d))
RehashMilliseconds == d.iterators = 0 /\ Do(dictRehash(d, 100, 1000))
Empty == d.iterators = 0 /\ Do(dictEmpty(d))
CanResize == Do([d EXCEPT !.resize = ~@])

ScanStart == ~scan.on /\ scan' = [NoScan EXCEPT !.on = TRUE, !.due = Keys(d)] /\ UNCHANGED <<d, iter>>
ScanNext == LET r == dictScan(d, scan.cursor)
            IN /\ scan.on /\ UNCHANGED <<d, iter>>
               /\ scan' = IF r[2] = 0 THEN [NoScan EXCEPT !.missed = scan.due \ (scan.seen \cup r[1])]
                          ELSE [scan EXCEPT !.cursor = r[2], !.seen = @ \cup r[1]]

IterStart == /\ ~iter.on /\ iter' = [NoIter EXCEPT !.on = TRUE, !.due = Keys(d)]
             /\ d' = [d EXCEPT !.iterators = 1] /\ UNCHANGED scan
IterNext == LET r == dictNext(d, iter)
            IN /\ iter.on /\ UNCHANGED scan
               /\ IF r.entry = -1
                  THEN iter' = [NoIter EXCEPT !.missed = iter.due \ iter.given] /\ d' = [d EXCEPT !.iterators = 0]
                  ELSE /\ iter' = [iter EXCEPT !.table = r.table, !.index = r.index,
                                               !.next = After(d, r.table, r.entry),
                                               !.given = @ \cup {r.entry},
                                               !.twice = @ \cup ({r.entry} \cap iter.given)]
                       /\ UNCHANGED d

Change == \/ \E k \in Key : Delete(k) \/ \E v \in Value : Add(k, v) \/ Replace(k, v)
          \/ Find \/ Resize \/ RehashMilliseconds \/ Empty \/ CanResize
NextScan == (\E k \in Key : Delete(k) \/ \E v \in Value : Add(k, v)) \/ Find \/ Resize \/ ScanStart \/ ScanNext
NextIter == Change \/ IterStart \/ IterNext
----------------------------------------------------------------------------
(* Properties                                                              *)

\* "We are sure there are no elements in indexes from 0 to rehashidx-1"
\* (dictGetRandomKey), and every entry is where dictFind looks for it.
EntriesAreFindable ==
    /\ \A i \in DOMAIN d.ht[1] : i < d.rehashidx => d.ht[1][i] = <<>>
    /\ \A t \in {1, 2} : \A i \in DOMAIN d.ht[t] : \A e \in ToSet(d.ht[t][i]) : e[1] % Size(d.ht[t]) = i
    /\ \A t \in {1, 2} : d.used[t] = FoldFunction(LAMBDA c, n : n + Len(c), 0, d.ht[t])

\* dictScan "guarantees all elements present in the dictionary get returned
\* between the start and end of the iteration", whatever is added, removed and
\* rehashed meanwhile; a safe iterator returns every element that stays, and
\* none of them twice, although entries are added and the current one is deleted.
IterationsReturnAll == scan.missed = {} /\ iter.missed = {} /\ iter.twice \cap iter.due = {}
=============================================================================
