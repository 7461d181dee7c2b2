------------------------------ MODULE Resharding ------------------------------
(***************************************************************************)
(* A hash slot moves from one master to another while a client uses its    *)
(* keys: SETSLOT on both sides, MIGRATE with its RESTORE commands, cached  *)
(* sockets, retries and timeouts, and the redirections of getNodeByQuery.  *)
(* The key set of ClusterNode's record holds pairs <<key, value>>, and a   *)
(* value is a pair <<key, version>> of the key it was written for.         *)
(***************************************************************************)
EXTENDS ClusterNode

CONSTANTS Src, Dst,    \* the two masters
          Key,         \* the keys, all of one slot
          Volatile,    \* keys with a time to live
          Lossy,       \* whether the connection of MIGRATE may fail
          Deletes,     \* whether the client deletes keys too
          MaxVersion,  \* bounds of the model: writes to a key, late commands
          MaxLate

VARIABLES node,        \* the record of each master
          req,         \* the client's request: keys, where it is sent, after ASKING
          mig,         \* the MIGRATE that Src executes, Null if none
          late,        \* RESTORE commands on a connection that Src has closed
          truth,       \* the version of each key after the last answered request
          stale        \* whether a request was answered from an older version

vars == <<node, req, mig, late, truth, stale>>
TheSlot == CHOOSE j \in Slot : TRUE
None == [keys |-> {}, at |-> Null, asking |-> FALSE]

Held(c) == {x[1] : x \in c.keys[TheSlot]}
Value(c, k) == (CHOOSE x \in c.keys[TheSlot] : x[1] = k)[2]
Drop(c, K) == [c EXCEPT !.keys[TheSlot] = {x \in @ : x[1] \notin K}]
Store(c, k, v) == [c EXCEPT !.keys[TheSlot] = {x \in @ : x[1] # k} \cup {<<k, v>>}]

Member(a) ==
    [Fresh(a, a) EXCEPT
        !.nodes = [n \in {Src, Dst} |-> [createClusterNode({"master"}, n) EXCEPT !.link = (n # a), !.epoch = n]],
        !.slots = [j \in Slot |-> Src], !.cur = Max({Src, Dst}), !.state = "ok",
        !.keys = [j \in Slot |-> IF a = Src THEN {<<k, <<k, 1>>>> : k \in Key} ELSE {}]]

Init == /\ node = [a \in {Src, Dst} |-> Member(a)]
        /\ req = None /\ mig = Null /\ late = <<>>
        /\ truth = [k \in Key |-> 1] /\ stale = FALSE

\* Where a request for keys of the slot is served, or why it is not.
getNodeByQuery(c, keys, asking, migrate) ==
    LET n == c.slots[TheSlot]
        migrating == n = c.me /\ c.mig[TheSlot] # Null
        importing == ~migrating /\ c.imp[TheSlot] # Null
        missing == (migrating \/ importing) /\ ~(keys \subseteq Held(c))
    IN IF n = Null THEN <<"down", Null>>
       ELSE IF c.state # "ok" THEN <<"down", Null>>
       ELSE IF (migrating \/ importing) /\ migrate THEN <<"none", c.me>>
       ELSE IF migrating /\ missing THEN <<"ask", c.mig[TheSlot]>>
       ELSE IF importing /\ asking
            THEN IF Cardinality(keys) > 1 /\ missing THEN <<"tryagain", Null>> ELSE <<"none", c.me>>
       ELSE IF n # c.me THEN <<"moved", n>> ELSE <<"none", c.me>>

----------------------------------------------------------------------------
(* The client and the administrator.                                       *)

Busy(n) == n = Src /\ mig # Null
Settled(c) == [clusterBeforeSleep(c, Calm) EXCEPT !.out = <<>>, !.disk = Null]

Request(keys) == /\ req = None /\ req' = [keys |-> keys, at |-> Src, asking |-> FALSE]
                 /\ UNCHANGED <<node, mig, late, truth, stale>>

\* A request is redirected, or answered: it reads and then writes, or deletes.
Served(del) ==
    LET n == req.at
        old(k) == IF k \in Held(node[n]) THEN Value(node[n], k)[2] ELSE 0
        new == [k \in Key |-> IF k \notin req.keys THEN truth[k] ELSE IF del THEN 0 ELSE truth[k] + 1]
    IN /\ \A k \in req.keys : truth[k] < MaxVersion
       /\ stale' = (stale \/ \E k \in req.keys : old(k) # truth[k])
       /\ node' = [node EXCEPT ![n] = IF del THEN Drop(@, req.keys)
                                      ELSE FoldSet(LAMBDA k, c : Store(c, k, <<k, new[k]>>), @, req.keys)]
       /\ truth' = new /\ req' = None /\ UNCHANGED <<mig, late>>

clusterRedirectClient(code, to) ==
    /\ req' = IF code \in {"ask", "moved"} THEN [req EXCEPT !.at = to, !.asking = (code = "ask")]
              ELSE [req EXCEPT !.at = Src, !.asking = FALSE]
    /\ UNCHANGED <<node, mig, late, truth, stale>>

Process(del) ==
    LET r == getNodeByQuery(node[req.at], req.keys, req.asking, FALSE)
    IN /\ req # None /\ ~Busy(req.at) /\ (del => Deletes)
       /\ IF r = <<"none", req.at>> THEN Served(del) ELSE clusterRedirectClient(r[1], r[2])

\* SETSLOT IMPORTING, then MIGRATING; at the end SETSLOT NODE on the target and
\* on the source, once the source has no key of the slot.
Admin(a, c) == /\ ~Busy(a) /\ c # node[a] /\ node' = [node EXCEPT ![a] = Settled(c)]
               /\ UNCHANGED <<req, mig, late, truth, stale>>
Open == \/ node[Src].mig[TheSlot] = Null /\ node[Dst].slots[TheSlot] = Src /\ Admin(Dst, SetSlotImporting(node[Dst], TheSlot, Src))
        \/ node[Dst].imp[TheSlot] # Null /\ Admin(Src, SetSlotMigrating(node[Src], TheSlot, Dst))
CanClose == node[Src].mig[TheSlot] # Null /\ Held(node[Src]) = {}
Close == \E a \in {Src, Dst} : /\ CanClose /\ (a = Src => node[Dst].slots[TheSlot] = Dst)
                               /\ Admin(a, SetSlotNode(node[a], TheSlot, Dst))

\* A pong of one master reaches the other.
Gossip(a, b) ==
    /\ a # b /\ Admin(b, clusterProcessPacket(node[b], clusterBuildMessageHdr(node[a], "pong"), Calm))

----------------------------------------------------------------------------
(* MIGRATE.  kv and ov are the arrays of keys and values, restores the     *)
(* commands on their way, replies the answers on their way back.           *)

\* The keys that are still alive when they are serialised: the keys move up in
\* kv, the values in ov stay where they are.
Live(kv, expired) == SelectSeq(kv, LAMBDA k : k \notin expired)

Restores(kv, ov, expired) ==
    LET at == SetToSortSeq({i \in DOMAIN kv : kv[i] \notin expired}, <)
    IN [i \in DOMAIN at |-> <<kv[at[i]], ov[at[i]]>>]

migrateCommand(kv) ==
    LET held == SelectSeq(kv, LAMBDA k : k \in Held(node[Src]))
    IN /\ mig = Null /\ getNodeByQuery(node[Src], Range(kv), FALSE, TRUE) = <<"none", Src>>
       /\ held # <<>>
       /\ mig' = [kv |-> held, ov |-> [i \in DOMAIN held |-> Value(node[Src], held[i])],
                  restores |-> <<>>, replies |-> <<>>, read |-> 0,
                  retry |-> TRUE, sent |-> FALSE]
       /\ UNCHANGED <<node, req, late, truth, stale>>

\* A key that expired meanwhile is gone for everybody.
Send(expired) ==
    /\ mig # Null /\ ~mig.sent
    /\ mig' = [mig EXCEPT !.kv = Live(@, expired), !.restores = Restores(mig.kv, mig.ov, expired), !.sent = TRUE]
    /\ truth' = [k \in Key |-> IF k \in expired \cap Range(mig.kv) THEN 0 ELSE truth[k]]
    /\ node' = [node EXCEPT ![Src] = Drop(@, expired \cap Range(mig.kv))]
    /\ UNCHANGED <<req, late, stale>>

\* A bug for comparison: the reply does not depend on the key being there.
RestoreLies(c, k, v) == IF k \in Held(c) \/ c.imp[TheSlot] = Null THEN <<c, "ok">> ELSE <<Drop(c, {k}), "ok">>

\* RESTORE-ASKING without REPLACE.
restoreCommand(c, k, v) ==
    IF k \in Held(c) \/ getNodeByQuery(c, {k}, TRUE, FALSE) # <<"none", c.me>>
    THEN <<c, "error">> ELSE <<Store(c, k, v), "ok">>

Restore ==
    LET x == Head(mig.restores)
        r == restoreCommand(node[Dst], x[1], x[2])
    IN /\ mig # Null /\ mig.restores # <<>>
       /\ node' = [node EXCEPT ![Dst] = r[1]]
       /\ mig' = [mig EXCEPT !.restores = Tail(@), !.replies = Append(@, r[2])]
       /\ UNCHANGED <<req, late, truth, stale>>

LateRestore ==
    /\ late # <<>>
    /\ node' = [node EXCEPT ![Dst] = restoreCommand(@, Head(late)[1], Head(late)[2])[1]]
    /\ late' = Tail(late) /\ UNCHANGED <<req, mig, truth, stale>>

\* An acknowledged key is deleted at once.
ReadReply ==
    LET k == mig.kv[mig.read + 1]
        ok == Head(mig.replies) = "ok"
    IN /\ mig # Null /\ mig.replies # <<>>
       /\ node' = [node EXCEPT ![Src] = IF ok THEN Drop(@, {k}) ELSE @]
       /\ mig' = IF mig.read + 1 = Len(mig.kv) THEN Null
                 ELSE [mig EXCEPT !.read = @ + 1, !.replies = Tail(@)]
       /\ UNCHANGED <<req, late, truth, stale>>

\* The connection breaks or the answer takes too long.  Only a broken connection
\* is tried again, once, and only if no answer has been read.
SocketError(timeout) ==
    /\ Lossy /\ mig # Null /\ mig.sent /\ Len(late \o mig.restores) <= MaxLate
    /\ late' = late \o mig.restores
    /\ mig' = IF ~timeout /\ mig.retry /\ mig.read = 0
              THEN [mig EXCEPT !.sent = FALSE, !.retry = FALSE, !.restores = <<>>, !.replies = <<>>]
              ELSE Null
    /\ UNCHANGED <<node, req, truth, stale>>

NothingToSend == mig # Null /\ mig.sent /\ mig.kv = <<>> /\ mig' = Null /\ UNCHANGED <<node, req, late, truth, stale>>

\* The administrator moves keys only while the slot is open on both sides.
Move(K) == node[Src].mig[TheSlot] # Null /\ migrateCommand(SetToSeq(K))

Next == \/ \E K \in SUBSET Key \ {{}} : Request(K) \/ Move(K)
        \/ \E b \in BOOLEAN : Process(b) \/ SocketError(b)
        \/ Open \/ Close \/ Gossip(Dst, Src) \/ Gossip(Src, Dst)
        \/ \E E \in SUBSET Volatile : Send(E)
        \/ Restore \/ LateRestore \/ ReadReply \/ NothingToSend
Spec == Init /\ [][Next]_vars

----------------------------------------------------------------------------
\* MIGRATE deletes a key only once the target has acknowledged it, so that a key
\* is always at one of the two masters, or in both while MIGRATE runs.
NoKeyIsLost == \A k \in Key : truth[k] # 0 => k \in Held(node[Src]) \cup Held(node[Dst])

\* Requests are served by the master that has the key: nobody reads a version
\* older than the last one written, whichever master answers.
NoStaleAnswer == ~stale

\* migrateCommand relocates "valid (non expired) keys into the array in
\* successive positions": a key stays with its own value.
KeysKeepTheirValues == \A a \in {Src, Dst} : \A x \in node[a].keys[TheSlot] : x[2][1] = x[1]

\* The target claims the slot only with an epoch greater than the source's, so
\* that the source believes it.
OwnerIsBelieved ==
    node[Dst].slots[TheSlot] = Dst => node[Dst].nodes[Dst].epoch > node[Src].nodes[Src].epoch
=============================================================================
