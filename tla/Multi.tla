-------------------------------- MODULE Multi -------------------------------
(***************************************************************************)
(* Transactions (multi.c) and the way of a command through                 *)
(* processCommand() of server.c: conditions under which the server refuses *)
(* commands come and go while clients queue them; MULTI, EXEC, DISCARD,    *)
(* WATCH and UNWATCH; the MULTI ... EXEC blocks in the replication stream. *)
(* A key holds a counter, or nothing.                                      *)
(***************************************************************************)
EXTENDS Integers, Sequences, FiniteSets, SequencesExt, Functions

CONSTANTS Client, Key,
          Conditions,  \* conditions of the server that come and go
          Commands,    \* commands besides those on transactions
          MaxQueued, MaxVersion

VARIABLES cl,     \* the clients
          db,     \* watched lists and versions of the keys
          srv,    \* the conditions that hold, and the replication stream
          ran     \* ghost: what the last event executed for a transaction

vars == <<cl, db, srv, ran>>

NoRun == [who |-> "nobody"]
NewClient == [multi |-> FALSE, cas |-> FALSE, abort |-> FALSE, queue |-> <<>>, watched |-> {}, sent |-> <<>>, seen |-> <<>>]

Write == {"INCR", "DEL", "FLUSHALL"}
DenyOom == {"INCR"}
Stale == {"SLAVEOF"}              \* flag 't'
Admin == {"SLAVEOF"}
Control == {"MULTI", "EXEC", "DISCARD", "WATCH"}
Name(a) == a[1]

IsReplica(x) == "replica" \in x.srv.cond

----------------------------------------------------------------------------
(* multi.c.  A step works on [cl, db, srv, ran].                           *)

unwatchAllKeys(x, c) ==
    [x EXCEPT !.db.watchers = [k \in Key |-> x.db.watchers[k] \ {c}], !.cl[c].watched = {}, !.cl[c].seen = <<>>]

discardTransaction(x, c) ==
    unwatchAllKeys([x EXCEPT !.cl[c] = [@ EXCEPT !.queue = <<>>, !.multi = FALSE, !.cas = FALSE, !.abort = FALSE, !.sent = <<>>]], c)

\* A bug for comparison: errors while queueing are forgotten.
FlagNothing(x, c) == x

flagTransaction(x, c) == [x EXCEPT !.cl[c].abort = @ \/ x.cl[c].multi]

queueMultiCommand(x, c, a) == [x EXCEPT !.cl[c].queue = Append(@, a)]

\* The version seen is kept for the keys that are watched already.
watchForKey(x, c, k) ==
    IF k \in x.cl[c].watched THEN x
    ELSE [x EXCEPT !.cl[c].watched = @ \union {k}, !.db.watchers[k] = @ \union {c},
                   !.cl[c].seen = [j \in DOMAIN @ \union {k} |-> IF j = k THEN x.db.ver[k] ELSE @[j]]]

touchWatchedKey(x, k) ==
    [x EXCEPT !.cl = [c \in Client |-> IF c \in x.db.watchers[k] THEN [x.cl[c] EXCEPT !.cas = TRUE] ELSE x.cl[c]]]

\* Keys that do not exist are not touched by a flush.
touchWatchedKeysOnFlush(x) ==
    [x EXCEPT !.cl = [c \in Client |-> IF \E k \in x.cl[c].watched : x.db.has[k] THEN [x.cl[c] EXCEPT !.cas = TRUE] ELSE x.cl[c]]]

----------------------------------------------------------------------------
(* Commands                                                                *)

\* On a replica nothing is written to the stream but what its master sends.
propagate(x, token) == IF IsReplica(x) THEN x ELSE [x EXCEPT !.srv.stream = Append(@, token)]

Modify(x, k, exists) ==
    touchWatchedKey([x EXCEPT !.db.has[k] = exists, !.db.ver[k] = @ + 1], k)

FlushAll(x) ==
    [touchWatchedKeysOnFlush(x) EXCEPT
        !.db.ver = [k \in Key |-> IF x.db.has[k] THEN x.db.ver[k] + 1 ELSE x.db.ver[k]],
        !.db.has = [k \in Key |-> FALSE]]

\* call(): the command and its propagation.
call(x, c, a) ==
    CASE Name(a) = "INCR" -> propagate(Modify(x, a[2], TRUE), "write")
      [] Name(a) = "DEL" /\ x.db.has[a[2]] -> propagate(Modify(x, a[2], FALSE), "write")
      [] Name(a) = "FLUSHALL" -> propagate(FlushAll(x), "write")
      [] Name(a) = "WATCH" /\ ~x.cl[c].multi -> watchForKey(x, c, a[2])
      [] Name(a) = "UNWATCH" -> [unwatchAllKeys(x, c) EXCEPT !.cl[c].cas = FALSE]
      [] Name(a) = "MULTI" -> [x EXCEPT !.cl[c].multi = TRUE]
      [] Name(a) = "DISCARD" /\ x.cl[c].multi -> discardTransaction(x, c)
      [] Name(a) = "SLAVEOF" -> [x EXCEPT !.srv.cond = @ \union {"replica"}]
      [] OTHER -> x

\* One queued command; MULTI goes before the first that is neither a read nor administration.
ExecOne(x, c, a) ==
    LET begun == IF Name(a) \in {"GET"} \union Admin \/ x.srv.began THEN x
                 ELSE propagate([x EXCEPT !.srv.began = TRUE], "MULTI")
    IN call(begun, c, a)

\* Ends the block; a server that became a replica on the way still writes EXEC to its backlog.
EndBlock(x, wasMaster) ==
    IF ~x.srv.began THEN x
    ELSE IF wasMaster /\ IsReplica(x) THEN [x EXCEPT !.srv.stream = Append(@, "EXEC"), !.srv.began = FALSE]
    ELSE [propagate(x, "EXEC") EXCEPT !.srv.began = FALSE]

execCommand(x, c) ==
    LET t == x.cl[c]
        all(y) == FoldLeft(LAMBDA z, a : ExecOne(z, c, a), y, t.queue)
        end(y) == EndBlock(y, ~IsReplica(x))
    IN IF ~t.multi THEN x
       ELSE IF t.cas \/ t.abort THEN discardTransaction(x, c)
       ELSE IF IsReplica(x) /\ \E i \in DOMAIN t.queue : Name(t.queue[i]) \in Write THEN discardTransaction(x, c)
       ELSE end(discardTransaction(all(unwatchAllKeys([x EXCEPT !.ran = [who |-> c, queue |-> t.queue, sent |-> t.sent,
                                          seen |-> t.seen, ver |-> x.db.ver, ro |-> IsReplica(x)]], c)), c))

----------------------------------------------------------------------------
(* processCommand()                                                        *)

\* Why a command is refused: the first check that fails, or "no".
Refused(x, c, a) ==
    LET on(cond) == cond \in x.srv.cond
        n == Name(a)
    IN CASE n = "UNKNOWN" -> "unknown"
         [] n # "UNKNOWN" /\ on("moved") /\ n \in {"INCR", "GET", "DEL", "WATCH", "EXEC"} -> "moved"
         [] n # "UNKNOWN" /\ on("oom") /\ (n \in DenyOom \/ (x.cl[c].multi /\ n # "EXEC")) -> "oom"
         [] n # "UNKNOWN" /\ (on("disk") \/ on("slaves")) /\ ~IsReplica(x) /\ n \in Write -> "disk or slaves"
         [] n # "UNKNOWN" /\ IsReplica(x) /\ n \in Write -> "readonly"
         [] n # "UNKNOWN" /\ IsReplica(x) /\ on("stale") /\ n \notin Stale -> "stale"
         [] n # "UNKNOWN" /\ on("loading") -> "loading"
         [] n # "UNKNOWN" /\ on("script") -> "script"
         [] OTHER -> "no"

\* Not every refusal spoils the transaction.
Refuse(x, c, a, why) ==
    IF why = "moved" /\ Name(a) = "EXEC" THEN discardTransaction(x, c)
    ELSE IF why \in {"readonly", "loading"} THEN x
    ELSE flagTransaction(x, c)

\* What the client means to be executed.
Sent(x, c, a) == IF x.cl[c].multi /\ Name(a) \notin Control THEN [x EXCEPT !.cl[c].sent = Append(@, a)] ELSE x

processCommand(x, c, a) ==
    LET why == Refused(x, c, a)
    IN IF why # "no" THEN Refuse(Sent(x, c, a), c, a, why)
       ELSE IF x.cl[c].multi /\ Name(a) \notin Control THEN queueMultiCommand(Sent(x, c, a), c, a)
       ELSE IF Name(a) = "EXEC" THEN execCommand(x, c)
       ELSE call(x, c, a)

\* Every event starts with an empty piece of the stream.
State == [cl |-> cl, db |-> db, srv |-> [srv EXCEPT !.stream = <<>>], ran |-> NoRun]
Becomes(x) == cl' = x.cl /\ db' = x.db /\ srv' = x.srv /\ ran' = x.ran

Bounded(c, a) == /\ Len(cl[c].sent) < MaxQueued \/ Name(a) \in Control
                 /\ \A k \in Key : db.ver[k] < MaxVersion

AllCommands == Commands \union {<<n>> : n \in Control \ {"WATCH"}}

Request(c) == \E a \in AllCommands : Bounded(c, a) /\ Becomes(processCommand(State, c, a))

\* The connection ends.
freeClient(c) == /\ cl[c].multi \/ cl[c].watched # {}
                 /\ Becomes([unwatchAllKeys(State, c) EXCEPT !.cl[c] = NewClient])

\* Memory, disk, replicas, role, loading and scripts: a condition begins or ends.
Changes == \E cond \in Conditions :
    Becomes([State EXCEPT !.srv.cond = IF cond \in @ THEN @ \ {cond} ELSE @ \union {cond}])

\* freeMemoryIfNeeded() evicts a key: signalled and propagated.
Evict == \E k \in Key : /\ db.has[k] /\ db.ver[k] < MaxVersion /\ ~IsReplica(State)
                        /\ Becomes(propagate(Modify(State, k, FALSE), "write"))

Init == /\ cl = [c \in Client |-> NewClient]
        /\ db = [watchers |-> [k \in Key |-> {}], ver |-> [k \in Key |-> 0], has |-> [k \in Key |-> FALSE]]
        /\ srv = [cond |-> {}, stream |-> <<>>, began |-> FALSE]
        /\ ran = NoRun

Next == \/ \E c \in Client : Request(c) \/ freeClient(c)
        \/ Changes \/ Evict

Spec == Init /\ [][Next]_vars

----------------------------------------------------------------------------
(* Properties                                                              *)

\* "Flag the transacation as DIRTY_EXEC so that EXEC will fail. Should be called every time
\* there is an error while queueing a command" (multi.c): EXEC runs all the commands the
\* client sent since MULTI, or none.
AllOrNothing == ran # NoRun => ran.queue = ran.sent

\* EXEC runs only if no key the client watched was modified, deleted, evicted or flushed.
WatchHolds == ran # NoRun => \A k \in DOMAIN ran.seen : ran.ver[k] = ran.seen[k]

\* ... and a transaction is not aborted for nothing: CLIENT_DIRTY_CAS is set exactly when
\* a watched key has changed.
DirtyMeansChanged == \A c \in Client : cl[c].cas <=> \E k \in cl[c].watched : db.ver[k] # cl[c].seen[k]

\* The lists of clients per key and of keys per client agree (the assertion of
\* unwatchAllKeys()).
WatchersAgree == \A c \in Client, k \in Key : c \in db.watchers[k] <=> k \in cl[c].watched

\* A transaction with writes is not executed on a read-only replica, even if it was
\* queued while the server was a master.
NoWritesOnReplica == ran # NoRun /\ ran.ro => \A i \in DOMAIN ran.queue : Name(ran.queue[i]) \notin Write

\* "We need to make sure to at least terminate the backlog with the final EXEC" (multi.c):
\* between events every MULTI in the stream has its EXEC, and every EXEC its MULTI.
StreamIsBalanced ==
    LET marks == SelectSeq(srv.stream, LAMBDA token : token # "write")
    IN /\ Len(marks) % 2 = 0
       /\ \A i \in DOMAIN marks : marks[i] = IF i % 2 = 1 THEN "MULTI" ELSE "EXEC"
=============================================================================
