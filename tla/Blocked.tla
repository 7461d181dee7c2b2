------------------------------ MODULE Blocked -------------------------------
(***************************************************************************)
(* Blocking operations (blocked.c with the blocking commands of t_list.c,  *)
(* t_zset.c and t_stream.c): clients that wait for an element of a list or *)
(* sorted set or an entry of a stream, keys that become ready, serving,    *)
(* timeouts, closed connections, a master that becomes a replica.  Every   *)
(* pushed element is a number of its own, so that it can be followed.      *)
(***************************************************************************)
EXTENDS Integers, Sequences, FiniteSets, SequencesExt, Functions

CONSTANTS Client, Key,
          Argv,        \* the commands clients send
          Blocks,      \* lengths of the MULTI/EXEC blocks clients send
          Roles,       \* may the server change its role?
          MaxElement   \* elements pushed

VARIABLE s   \* the server, and what happens to the elements

NoKey == "none"
Missing == <<"missing">>
Idle == [btype |-> "none", keys |-> <<>>, target |-> NoKey, lastcmd |-> "", gt |-> 0, group |-> FALSE,
         input |-> FALSE, closing |-> FALSE]
Other(k) == CHOOSE j \in Key : j # k

----------------------------------------------------------------------------
(* The commands on the data, as a replica executes them too.  A list is    *)
(* <<"list", elements>>, a sorted set <<"zset", members>> (a member is its *)
(* own score), a stream <<"stream", last id, last id of the group, or -1>>.*)

IsType(db, k, t) == db[k][1] = t
List(l) == IF l = <<>> THEN Missing ELSE <<"list", l>>
Zset(z) == IF z = {} THEN Missing ELSE <<"zset", z>>
Items(db, k) == IF IsType(db, k, "list") THEN db[k][2] ELSE <<>>
Members(db, k) == IF IsType(db, k, "zset") THEN db[k][2] ELSE {}
Least(z) == CHOOSE x \in z : \A y \in z : x <= y
Greatest(z) == CHOOSE x \in z : \A y \in z : x >= y
Usable(db, k, t) == IsType(db, k, t) \/ IsType(db, k, "missing")
IsEmpty(db, k) == Items(db, k) = <<>> /\ Members(db, k) = {}
Ids(db, k) == IF IsType(db, k, "stream") THEN db[k] ELSE <<"stream", 0, -1>>

Run(db, a) ==
    CASE a[1] = "LPUSH" /\ Usable(db, a[2], "list") -> [db EXCEPT ![a[2]] = List(<<a[3]>> \o Items(db, a[2]))]
      [] a[1] = "LPOP" /\ Items(db, a[2]) # <<>> -> [db EXCEPT ![a[2]] = List(Tail(Items(db, a[2])))]
      [] a[1] = "RPOP" /\ Items(db, a[2]) # <<>> -> [db EXCEPT ![a[2]] = List(Front(Items(db, a[2])))]
      [] a[1] = "ZADD" /\ Usable(db, a[2], "zset") -> [db EXCEPT ![a[2]] = Zset(Members(db, a[2]) \union {a[3]})]
      [] a[1] = "ZPOPMIN" /\ Members(db, a[2]) # {} -> [db EXCEPT ![a[2]] = Zset(@[2] \ {Least(@[2])})]
      [] a[1] = "ZPOPMAX" /\ Members(db, a[2]) # {} -> [db EXCEPT ![a[2]] = Zset(@[2] \ {Greatest(@[2])})]
      [] a[1] = "XADD" /\ Usable(db, a[2], "stream") -> [db EXCEPT ![a[2]] = [Ids(db, a[2]) EXCEPT ![2] = @ + 1]]
      [] a[1] = "XGROUP" /\ IsType(db, a[2], "stream") -> [db EXCEPT ![a[2]][3] = db[a[2]][2]]
      [] a[1] = "XGROUP SETID" /\ IsType(db, a[2], "stream") -> [db EXCEPT ![a[2]][3] = a[3]]
      [] a[1] = "SET" -> [db EXCEPT ![a[2]] = <<"string">>]
      [] a[1] = "DEL" -> [db EXCEPT ![a[2]] = Missing]
      [] a[1] = "RENAME" /\ db[a[2]] # Missing -> [db EXCEPT ![a[3]] = db[a[2]], ![a[2]] = Missing]
      [] a[1] = "SORT STORE" -> [db EXCEPT ![a[2]] = List(<<a[3]>>)]
      [] OTHER -> db

\* Elements a command throws away: those it neither leaves in a key nor hands to a client.
Elements(db) == UNION {Range(Items(db, k)) \union Members(db, k) : k \in Key}
Creates == {"LPUSH", "ZADD", "SORT STORE"}

----------------------------------------------------------------------------
(* Blocking, unblocking, ready keys (blocked.c)                            *)

Blocked(x, c) == x.c[c].btype # "none"

\* An element can be had from the key by a client that waits for it.
Ready(x, c, k) ==
    CASE x.c[c].btype = "list" -> IsType(x.db, k, "list")
      [] x.c[c].btype = "zset" -> IsType(x.db, k, "zset")
      [] x.c[c].btype = "stream" ->
            /\ IsType(x.db, k, "stream")
            /\ IF x.c[c].group THEN x.db[k][3] = -1 \/ x.db[k][2] > x.db[k][3] ELSE x.db[k][2] > x.c[c].gt
      [] OTHER -> FALSE

blockForKeys(x, c, btype, keys, target, cmd, gt, group) ==
    [x EXCEPT !.c[c] = [@ EXCEPT !.btype = btype, !.keys = keys, !.target = target, !.lastcmd = cmd, !.gt = gt, !.group = group],
              !.blocking = [k \in Key |-> IF k \in Range(keys) THEN Append(x.blocking[k], c) ELSE x.blocking[k]],
              !.arrived = Append(@, c)]

unblockClientWaitingData(x, c) ==
    [x EXCEPT !.blocking = [k \in Key |-> SelectSeq(x.blocking[k], LAMBDA d : d # c)],
              !.arrived = SelectSeq(@, LAMBDA d : d # c)]

\* CLIENT_UNBLOCKED is set exactly for the clients of the list.
queueClientForReprocessing(x, c) ==
    [x EXCEPT !.unblocked = IF c \in Range(@) THEN @ ELSE Append(@, c)]

unblockClient(x, c) ==
    queueClientForReprocessing(
        [unblockClientWaitingData(x, c) EXCEPT
            !.c[c] = [Idle EXCEPT !.input = x.c[c].input, !.closing = x.c[c].closing]], c)

signalKeyAsReady(x, k) ==
    IF x.blocking[k] = <<>> \/ k \in x.signalled THEN x
    ELSE [x EXCEPT !.ready = Append(@, k), !.signalled = @ \union {k}]

\* What is written to the replica; on a replica only its master's stream is passed on.
propagate(x, a) == IF x.master THEN [x EXCEPT !.rep = Run(@, a)] ELSE x

----------------------------------------------------------------------------
(* Serving                                                                 *)

\* Clients of the same kind that began to wait for the key before c, and still do.
Ahead(x, c, k) ==
    {d \in Client : /\ d # c
                    /\ d \in Range(x.arrived) /\ c \in Range(x.arrived)
                    /\ x.c[d].btype = x.c[c].btype /\ k \in Range(x.c[d].keys)
                    /\ \E i, j \in DOMAIN x.arrived : i < j /\ x.arrived[i] = d /\ x.arrived[j] = c}

Serves(x, c, k) == [x EXCEPT !.served = @ \union {[c |-> c, ahead |-> Ahead(x, c, k)]}]
Gives(x, e) == [x EXCEPT !.got = Append(@, e)]

Pop(l, cmd) == IF cmd = "BLPOP" THEN Tail(l) ELSE Front(l)
Popped(l, cmd) == IF cmd = "BLPOP" THEN Head(l) ELSE Last(l)

\* rpoplpushHandlePush() creates the destination, which signals it.
rpoplpushHandlePush(x, dst, e) ==
    IF IsType(x.db, dst, "missing") THEN signalKeyAsReady([x EXCEPT !.db[dst] = <<"list", <<e>>>>], dst)
    ELSE [x EXCEPT !.db[dst] = <<"list", <<e>> \o @[2]>>]

\* The element was popped and the client unblocked already.
serveClientBlockedOnList(x, k, dst, e, cmd) ==
    IF dst = NoKey THEN Gives(propagate(x, <<IF cmd = "BLPOP" THEN "LPOP" ELSE "RPOP", k>>), e)
    ELSE propagate(rpoplpushHandlePush(propagate(x, <<"RPOP", k>>), dst, e), <<"LPUSH", dst, e>>)

\* A bug for comparison: an element that could not be moved is lost.
ServeNoUndo(x, k, c) ==
    LET w == x.c[c]
        served(y) == serveClientBlockedOnList(unblockClient(y, c), k, w.target, Popped(x.db[k][2], w.lastcmd), w.lastcmd)
        popped == [x EXCEPT !.db[k][2] = Pop(@, w.lastcmd)]
    IN IF w.target # NoKey /\ ~(w.target = k \/ Usable(x.db, w.target, "list")) THEN unblockClient(popped, c)
       ELSE served(Serves(popped, c, k))

\* A transfer to a key that is no list fails: the client gets an error, the element stays.
ServeList(x, k, c) ==
    LET w == x.c[c]
        served(y) == serveClientBlockedOnList(unblockClient(y, c), k, w.target, Popped(x.db[k][2], w.lastcmd), w.lastcmd)
    IN IF w.target # NoKey /\ ~(w.target = k \/ Usable(x.db, w.target, "list")) THEN unblockClient(x, c)
       ELSE served(Serves([x EXCEPT !.db[k][2] = Pop(@, w.lastcmd)], c, k))

ServeZset(x, k, c) ==
    LET w == x.c[c]
        e == IF w.lastcmd = "BZPOPMIN" THEN Least(x.db[k][2]) ELSE Greatest(x.db[k][2])
    IN Gives(propagate(unblockClient(Serves([x EXCEPT !.db[k][2] = @ \ {e}], c, k), c),
                       <<IF w.lastcmd = "BZPOPMIN" THEN "ZPOPMIN" ELSE "ZPOPMAX", k>>), e)

Rotate(x, k) == [x EXCEPT !.blocking[k] = Append(Tail(@), Head(@))]

\* One turn of the loop over the clients blocked for a list or sorted set: the first
\* is served, or moved to the end if it waits for another type.
ServeFirst(x, k, t) ==
    IF x.blocking[k] = <<>> \/ IsEmpty(x.db, k) THEN x
    ELSE LET c == Head(x.blocking[k])
         IN IF x.c[c].btype # t THEN Rotate(x, k)
            ELSE IF t = "list" THEN ServeList(x, k, c) ELSE ServeZset(x, k, c)

DeleteEmpty(x, k) == IF IsEmpty(x.db, k) THEN [x EXCEPT !.db[k] = Missing] ELSE x

ServeStream(x, k, c) ==
    CASE x.c[c].btype # "stream" -> x
      [] x.c[c].btype = "stream" /\ x.c[c].group /\ x.db[k][3] = -1 -> unblockClient(x, c)
      [] x.c[c].btype = "stream" /\ ~Ready(x, c, k) -> x
      [] x.c[c].btype = "stream" /\ Ready(x, c, k) /\ ~x.c[c].group -> unblockClient(x, c)
      [] OTHER -> unblockClient(propagate([x EXCEPT !.db[k][3] = x.db[k][2]], <<"XGROUP SETID", k, x.db[k][2]>>), c)

ServeKey(x, k) ==
    CASE IsType(x.db, k, "list") \/ IsType(x.db, k, "zset") ->
            DeleteEmpty(FoldLeft(LAMBDA y, c : ServeFirst(y, k, x.db[k][1]), x, x.blocking[k]), k)
      [] IsType(x.db, k, "stream") -> FoldLeft(LAMBDA y, c : ServeStream(y, k, c), x, x.blocking[k])
      [] OTHER -> x

\* Serving may make other keys ready: the list is taken as it is, again and again.
RECURSIVE handleClientsBlockedOnKeys(_)
handleClientsBlockedOnKeys(x) ==
    IF x.ready = <<>> THEN x
    ELSE handleClientsBlockedOnKeys(
            FoldLeft(LAMBDA y, k : ServeKey([y EXCEPT !.signalled = @ \ {k}], k),
                     [x EXCEPT !.ready = <<>>], x.ready))

----------------------------------------------------------------------------
(* Commands                                                                *)

\* dbAdd() signals new lists and sorted sets, XADD every entry, dbOverwrite() nothing.
Signals(db, a) ==
    CASE a[1] \in {"LPUSH", "ZADD", "SORT STORE"} /\ db[a[2]] = Missing -> {a[2]}
      [] a[1] = "XADD" /\ Usable(db, a[2], "stream") -> {a[2]}
      [] a[1] = "RENAME" /\ db[a[2]][1] \in {"list", "zset"} -> {a[3]}
      [] OTHER -> {}

WriteCommand(x, a) ==
    LET lost(y) == [y EXCEPT !.gone = @ \union (Elements(x.db) \ Elements(y.db))]
        added(y) == IF a[1] \in Creates /\ a[3] \in Elements(y.db) THEN [y EXCEPT !.next = @ + 1]
                    ELSE IF a[1] = "XADD" THEN [y EXCEPT !.adds = @ + 1] ELSE y
        signal(y) == IF Signals(x.db, a) = {} THEN y ELSE signalKeyAsReady(y, CHOOSE k \in Signals(x.db, a) : TRUE)
    IN signal(added(lost([x EXCEPT !.db = Run(@, a), !.rep = Run(@, a)])))

\* A pop that finds an element is the plain command.
PopNow(x, a, e) == Gives([x EXCEPT !.db = Run(@, a), !.rep = Run(@, a)], e)

FirstKey(db, keys) == IF \A i \in DOMAIN keys : db[keys[i]] = Missing THEN NoKey
                      ELSE keys[CHOOSE i \in DOMAIN keys : /\ db[keys[i]] # Missing
                                                           /\ \A j \in 1..i - 1 : db[keys[j]] = Missing]

blockingPopGenericCommand(x, c, cmd, keys, multi) ==
    LET k == FirstKey(x.db, keys)
    IN IF k = NoKey THEN IF multi THEN x ELSE blockForKeys(x, c, "list", keys, NoKey, cmd, 0, FALSE)
       ELSE IF ~IsType(x.db, k, "list") THEN x
       ELSE PopNow(x, <<IF cmd = "BLPOP" THEN "LPOP" ELSE "RPOP", k>>, Popped(x.db[k][2], cmd))

blockingGenericZpopCommand(x, c, cmd, keys, multi) ==
    LET k == FirstKey(x.db, keys)
    IN IF k = NoKey THEN IF multi THEN x ELSE blockForKeys(x, c, "zset", keys, NoKey, cmd, 0, FALSE)
       ELSE IF ~IsType(x.db, k, "zset") THEN x
       ELSE IF cmd = "BZPOPMIN" THEN PopNow(x, <<"ZPOPMIN", k>>, Least(x.db[k][2]))
       ELSE PopNow(x, <<"ZPOPMAX", k>>, Greatest(x.db[k][2]))

\* RPOPLPUSH is propagated as such: the replica executes it.
brpoplpushCommand(x, c, src, dst, multi) ==
    LET e == Last(x.db[src][2])
        pushed(y) == rpoplpushHandlePush([y EXCEPT !.db[src][2] = Front(@)], dst, e)
        replayed(y) == [y EXCEPT !.rep = Run(Run(@, <<"RPOP", src>>), <<"LPUSH", dst, e>>)]
    IN IF x.db[src] = Missing THEN IF multi THEN x ELSE blockForKeys(x, c, "list", <<src>>, dst, "BRPOPLPUSH", 0, FALSE)
       ELSE IF ~IsType(x.db, src, "list") \/ ~Usable(x.db, dst, "list") THEN x
       ELSE DeleteEmpty(pushed(replayed(x)), src)

\* XREAD STREAMS k id: id is "$" or "0".  XREADGROUP: ">".
xreadCommand(x, c, k, id, group, multi) ==
    LET st == Ids(x.db, k)
        gt == IF group THEN st[3] ELSE IF id = "$" THEN st[2] ELSE 0
        block == IF multi THEN x ELSE blockForKeys(x, c, "stream", <<k>>, NoKey, "XREAD", gt, group)
    IN IF ~Usable(x.db, k, "stream") \/ (group /\ st[3] = -1) THEN x
       ELSE IF st[2] <= gt THEN block
       ELSE IF ~group THEN x
       ELSE [x EXCEPT !.db[k][3] = st[2], !.rep[k][3] = st[2]]

Writes(a) == a[1] # "XREAD"

processOne(x, c, a, multi) ==
    CASE a[1] \in {"BLPOP", "BRPOP"} -> blockingPopGenericCommand(x, c, a[1], a[2], multi)
      [] a[1] \in {"BZPOPMIN", "BZPOPMAX"} -> blockingGenericZpopCommand(x, c, a[1], a[2], multi)
      [] a[1] = "BRPOPLPUSH" -> brpoplpushCommand(x, c, a[2], a[3], multi)
      [] a[1] = "XREAD" -> xreadCommand(x, c, a[2], a[3], FALSE, multi)
      [] a[1] = "XREADGROUP" -> xreadCommand(x, c, a[2], ">", TRUE, multi)
      [] a[1] \in Creates -> WriteCommand(x, Append(a, x.next))
      [] OTHER -> WriteCommand(x, a)

\* The keys that became ready are handled after the command, or after EXEC.
processCommand(x, c, as) ==
    handleClientsBlockedOnKeys(FoldLeft(LAMBDA y, a : processOne(y, c, a, Len(as) > 1), x, as))

Bounded(x, as) == x.next + x.adds + Cardinality({i \in DOMAIN as : as[i][1] \in Creates \union {"XADD"}}) <= MaxElement + 1

----------------------------------------------------------------------------
(* Events                                                                  *)

Fresh(x) == [x EXCEPT !.served = {}]

MayRun(c, as) == /\ ~Blocked(s, c) /\ ~s.c[c].closing
                 /\ s.master \/ \A i \in DOMAIN as : ~Writes(as[i])
                 /\ Bounded(s, as)

Command(c) ==
    /\ ~s.sleeping /\ ~s.c[c].input
    /\ \E n \in Blocks : \E as \in [1..n -> Argv] :
          /\ MayRun(c, as)
          /\ s' = processCommand(Fresh(s), c, as)

\* Input that arrives for a blocked client is kept.
readQueryFromClient(c) ==
    /\ ~s.sleeping /\ Blocked(s, c) /\ ~s.c[c].input
    /\ s' = [Fresh(s) EXCEPT !.c[c].input = TRUE]

\* beforeSleep(): the input kept is processed, client after client.
BeforeSleep ==
    /\ ~s.sleeping /\ s.unblocked # <<>>
    /\ s' = [Fresh(s) EXCEPT !.sleeping = TRUE]

processUnblockedClients ==
    /\ s.sleeping
    /\ \/ /\ s.unblocked = <<>>
          /\ s' = [Fresh(s) EXCEPT !.sleeping = FALSE]
       \/ /\ s.unblocked # <<>>
          /\ \E c \in {Head(s.unblocked)} :
                \/ /\ Blocked(s, c) \/ s.c[c].closing \/ ~s.c[c].input
                   /\ s' = [Fresh(s) EXCEPT !.unblocked = Tail(@)]
                \/ /\ s.c[c].input
                   /\ \E a \in Argv :
                         /\ MayRun(c, <<a>>)
                         /\ s' = processCommand([Fresh(s) EXCEPT !.unblocked = Tail(@), !.c[c].input = FALSE], c, <<a>>)
                \/ /\ s.c[c].input /\ ~Blocked(s, c) /\ ~s.c[c].closing
                   /\ s' = [Fresh(s) EXCEPT !.unblocked = Tail(@), !.c[c].input = FALSE]   \* refused, or out of bounds

\* The timeout passed, or CLIENT UNBLOCK.
clientsCronHandleTimeout(c) ==
    /\ ~s.sleeping /\ Blocked(s, c)
    /\ s' = unblockClient(Fresh(s), c)

\* The connection ends; a new one takes the place.
freeClient(c) ==
    /\ ~s.sleeping /\ (Blocked(s, c) \/ s.c[c].closing \/ s.c[c].input)
    /\ \E x \in {IF Blocked(s, c) THEN unblockClient(Fresh(s), c) ELSE Fresh(s)} :
          s' = [x EXCEPT !.c[c] = Idle, !.unblocked = SelectSeq(@, LAMBDA d : d # c)]

disconnectAllBlockedClients(x) ==
    [FoldLeft(unblockClient, x, x.arrived) EXCEPT
        !.c = [c \in Client |-> IF Blocked(x, c) THEN [Idle EXCEPT !.input = x.c[c].input, !.closing = TRUE] ELSE x.c[c]]]

replicationSetMaster ==
    /\ Roles /\ ~s.sleeping /\ s.master
    /\ s' = [disconnectAllBlockedClients(Fresh(s)) EXCEPT !.master = FALSE]

replicationUnsetMaster ==
    /\ ~s.sleeping /\ ~s.master
    /\ s' = [Fresh(s) EXCEPT !.master = TRUE]

\* A command of the master; the stream is passed on to the replicas below.
FromMaster ==
    /\ ~s.sleeping /\ ~s.master
    /\ \E a \in Argv : /\ a[1] \in {"LPUSH", "ZADD", "XADD", "DEL", "SET"}
                       /\ Bounded(s, <<a>>)
                       /\ \E b \in {IF a[1] \in Creates THEN Append(a, s.next) ELSE a} :
                             s' = handleClientsBlockedOnKeys(WriteCommand(Fresh(s), b))

Init == s = [db |-> [k \in Key |-> Missing], rep |-> [k \in Key |-> Missing],
             c |-> [c \in Client |-> Idle], blocking |-> [k \in Key |-> <<>>],
             ready |-> <<>>, signalled |-> {}, unblocked |-> <<>>, sleeping |-> FALSE,
             master |-> TRUE, arrived |-> <<>>, served |-> {}, got |-> <<>>, gone |-> {}, next |-> 1, adds |-> 0]

Next == \/ \E c \in Client : Command(c) \/ readQueryFromClient(c) \/ clientsCronHandleTimeout(c) \/ freeClient(c)
        \/ BeforeSleep \/ processUnblockedClients
        \/ replicationSetMaster \/ replicationUnsetMaster \/ FromMaster

Spec == Init /\ [][Next]_s

----------------------------------------------------------------------------
(* Properties                                                              *)

\* "All the keys with at least one client blocked that received at least one new element
\* via some write operation are accumulated into the server.ready_keys list" (blocked.c):
\* between events no client waits for something a key it waits for has.
NobodyWaitsInVain == \A c \in Client : \A k \in Range(s.c[c].keys) : ~Ready(s, c, k)

\* "We serve clients in the same order they blocked for this key": no client is served
\* before one that began to wait for the same thing earlier.
FirstComeFirstServed == \A r \in s.served : r.ahead = {}

\* Every element pushed is in exactly one place: in a key, with one client, or deleted by
\* a command (a transfer that fails puts the popped element back).
ElementsAreKept ==
    /\ IsInjective(s.got)
    /\ Elements(s.db) \intersect Range(s.got) = {}
    /\ 1..s.next - 1 = Elements(s.db) \union Range(s.got) \union s.gone

\* Served clients leave the replicas with the data of the server, on a replica too.
ReplicaFollows == s.rep = s.db

\* The lists of db->blocking_keys and the keys the clients remember agree (the assertions
\* of unblockClientWaitingData), and nobody is left in a list of a key.
ListsAgree == \A c \in Client, k \in Key :
                 /\ c \in Range(s.blocking[k]) <=> (Blocked(s, c) /\ k \in Range(s.c[c].keys))
                 /\ Cardinality({i \in DOMAIN s.blocking[k] : s.blocking[k][i] = c}) <= 1

\* Input kept for a client that is not blocked any more is going to be processed
\* (queueClientForReprocessing()), without waiting for the client to send more.
InputIsProcessed == \A c \in Client : s.c[c].input => Blocked(s, c) \/ c \in Range(s.unblocked) \/ s.c[c].closing
=============================================================================
