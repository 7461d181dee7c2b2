-------------------------------- MODULE Psync --------------------------------
(***************************************************************************)
(* Replication histories (replication.c, and the parts of rdb.c, server.c  *)
(* and networking.c that keep the offsets): servers that are turned into   *)
(* replicas and masters, lose their connections and restart, and resume    *)
(* with a partial resynchronisation when their history allows it.          *)
(*                                                                         *)
(* A write is one unit of the stream; a history has a replication ID, here *)
(* a number that is never used twice.  The handshake, and the time the RDB *)
(* file takes, are the subject of ReplHandshake and FullSync.              *)
(***************************************************************************)
EXTENDS Integers, Sequences, FiniteSets

CONSTANTS Server,
          BacklogSize,
          MaxWrites, MaxTurns, MaxBreaks, MaxRestarts   \* bounds on the events

VARIABLES srv,    \* the servers
          link,   \* the connection of a replica: the master, and what is on its way
          rdb,    \* the RDB files
          used    \* the replication IDs and the events so far

vars == <<srv, link, rdb, used>>

None == [none |-> TRUE]
Nobody == "nobody"
NoLink == [to |-> Nobody, chan |-> <<>>]
Slaves(m) == {r \in Server : link[r].to = m}

----------------------------------------------------------------------------
(* Operators on the record of a server.  "new" is a fresh replication ID.  *)

changeReplicationId(s, new) == [s EXCEPT !.replid = new]
clearReplicationId2(s) == [s EXCEPT !.replid2 = 0, !.off2 = -1]

shiftReplicationId(s, new) == [s EXCEPT !.replid2 = s.replid, !.off2 = s.offset + 1, !.replid = new]

createReplicationBacklog(s) == [s EXCEPT !.backlog = [off |-> s.offset + 1, buf |-> <<>>]]
freeReplicationBacklog(s) == [s EXCEPT !.backlog = None]

feedReplicationBacklog(s, cmd) ==
    LET buf == Append(s.backlog.buf, cmd)
        cut == IF Len(buf) > BacklogSize THEN 1 ELSE 0
    IN IF s.backlog = None THEN s
       ELSE [s EXCEPT !.offset = @ + 1,
                      !.backlog = [off |-> @.off + cut, buf |-> SubSeq(buf, 1 + cut, Len(buf))]]

replicationCacheMasterUsingMyself(s) == [s EXCEPT !.cached = [replid |-> s.replid, reploff |-> s.offset]]
replicationDiscardCachedMaster(s) == [s EXCEPT !.cached = None]

\* freeClient on the master: it is cached, and a new attempt is made.
replicationCacheMaster(s) == [s EXCEPT !.cached = s.master, !.master = None, !.state = "connect"]

\* A handshake that is cancelled starts again.
cancelReplicationHandshake(s) == IF s.state \in {"psync", "transfer"} THEN [s EXCEPT !.state = "connect"] ELSE s

\* A replica without its connection.
LoseMaster(s) == IF s.master # None THEN replicationCacheMaster(s) ELSE cancelReplicationHandshake(s)

replicationSetMaster(s, m) ==
    LET lost == LoseMaster([s EXCEPT !.masterhost = m])
    IN [(IF s.masterhost = Nobody THEN replicationCacheMasterUsingMyself(lost) ELSE lost) EXCEPT !.state = "connect"]

replicationUnsetMaster(s, new) ==
    [replicationDiscardCachedMaster(LoseMaster(shiftReplicationId([s EXCEPT !.masterhost = Nobody], new)))
     EXCEPT !.state = "none"]

----------------------------------------------------------------------------
(* PSYNC.                                                                  *)

\* What a replica asks for: the history it has, and the first unit it lacks.
Request(s) == IF s.cached # None THEN [replid |-> s.cached.replid, offset |-> s.cached.reploff + 1]
              ELSE [replid |-> 0, offset |-> -1]

\* A bug for comparison: the second ID is not tested against its limit.
PartialAnyOffset(m, q) ==
    /\ q.replid # 0 /\ (q.replid = m.replid \/ q.replid = m.replid2)
    /\ m.backlog # None /\ q.offset >= m.backlog.off /\ q.offset <= m.backlog.off + Len(m.backlog.buf)

masterTryPartialResynchronization(m, q) ==
    /\ q.replid # 0
    /\ q.replid = m.replid \/ (q.replid = m.replid2 /\ q.offset <= m.off2)
    /\ m.backlog # None /\ q.offset >= m.backlog.off /\ q.offset <= m.backlog.off + Len(m.backlog.buf)

\* What the master sends for a partial resynchronisation.
Continue(m, q) == <<[type |-> "CONTINUE", replid |-> m.replid]>>
    \o [i \in 1 .. m.backlog.off + Len(m.backlog.buf) - q.offset |->
          [type |-> "cmd", cmd |-> m.backlog.buf[q.offset - m.backlog.off + i]]]

\* The first replica makes the master start a history.
WithBacklog(m, new) ==
    IF m.backlog # None THEN m
    ELSE createReplicationBacklog(clearReplicationId2(changeReplicationId(m, new)))

FullResync(m) == <<[type |-> "FULLRESYNC", replid |-> m.replid, offset |-> m.offset], [type |-> "rdb", data |-> m.data]>>

\* A server may serve replicas when it is a master, or in sync with its own.
syncCommandAllowed(m) == m.masterhost = Nobody \/ m.state = "connected"

\* The reading half of slaveTryPartialResynchronization, after +CONTINUE.
slaveContinue(s, id) ==
    LET changed == [s EXCEPT !.replid2 = s.cached.replid, !.off2 = s.offset + 1, !.replid = id, !.cached.replid = id]
        t == IF id # s.cached.replid THEN changed ELSE s
        c == [t EXCEPT !.cached = None, !.master = t.cached, !.state = "connected"]
    IN IF s.backlog = None THEN createReplicationBacklog(c) ELSE c

\* After +FULLRESYNC: nothing of the old history may be used.
slaveFullResync(s, msg) ==
    [freeReplicationBacklog(replicationDiscardCachedMaster(s))
     EXCEPT !.state = "transfer", !.master_replid = msg.replid, !.initial = msg.offset]

\* The end of readSyncBulkPayload: the data set is loaded.
slaveLoaded(s, data) ==
    LET t == clearReplicationId2([s EXCEPT !.data = data, !.state = "connected",
                 !.master = [replid |-> s.master_replid, reploff |-> s.initial],
                 !.replid = s.master_replid, !.offset = s.initial])
    IN IF t.backlog = None THEN createReplicationBacklog(t) ELSE t

\* The file cannot be loaded: the old data is gone, and another attempt is made.
slaveLoadFails(s) == cancelReplicationHandshake([s EXCEPT !.data = <<>>])

\* A command of the master: applied, and passed on to the sub-replicas.
slaveApply(s, cmd) == feedReplicationBacklog([s EXCEPT !.data = Append(@, cmd), !.master.reploff = @ + 1], cmd)

----------------------------------------------------------------------------
(* Restarts.                                                               *)

\* The replication fields of an RDB file, if they are meaningful.
rdbPopulateSaveInfo(s) == (s.masterhost = Nobody /\ s.backlog # None) \/ s.master # None \/ s.cached # None
rdbSave(s) == [data |-> s.data, info |-> rdbPopulateSaveInfo(s), replid |-> s.replid, offset |-> s.offset]
NoFile == [data |-> <<>>, info |-> FALSE, replid |-> 0, offset |-> -1]

initServer(new) ==
    [masterhost |-> Nobody, state |-> "none", replid |-> new, offset |-> 0, replid2 |-> 0, off2 |-> -1,
     backlog |-> None, master |-> None, cached |-> None, master_replid |-> 0, initial |-> -1, data |-> <<>>]

\* Only a replica takes the history of its file.
loadDataFromDisk(s, file) ==
    LET t == [s EXCEPT !.data = file.data]
    IN IF s.masterhost # Nobody /\ file.info
       THEN replicationCacheMasterUsingMyself([t EXCEPT !.replid = file.replid, !.offset = file.offset])
       ELSE t

----------------------------------------------------------------------------
(* The servers.                                                            *)

Order == CHOOSE order \in [Server -> 1 .. Cardinality(Server)] : \A a, b \in Server : a # b => order[a] # order[b]

Init == /\ srv = [s \in Server |-> initServer(Order[s])]
        /\ link = [s \in Server |-> NoLink] /\ rdb = [s \in Server |-> NoFile]
        /\ used = [id |-> Cardinality(Server), writes |-> 0, turns |-> 0, breaks |-> 0, restarts |-> 0]

New == used.id + 1

\* The connections of these replicas are closed: each loses its master.
Closed(state, R) == [s \in Server |-> IF s \in R THEN LoseMaster(state[s]) ELSE state[s]]
Cut(R) == [s \in Server |-> IF s \in R THEN NoLink ELSE link[s]]
Feed(l, m, msg) == [s \in Server |-> IF l[s].to = m THEN [l[s] EXCEPT !.chan = Append(@, msg)] ELSE l[s]]

\* A client writes to a master.  Without a backlog the offset stays.
Write(m) ==
    LET w == used.writes + 1
    IN /\ srv[m].masterhost = Nobody /\ used.writes < MaxWrites
       /\ srv' = [srv EXCEPT ![m] = feedReplicationBacklog([@ EXCEPT !.data = Append(@, w)], w)]
       /\ link' = Feed(link, m, [type |-> "cmd", cmd |-> w])
       /\ used' = [used EXCEPT !.writes = w] /\ UNCHANGED rdb

\* REPLICAOF host port.
ReplicaOf(s, m) ==
    /\ s # m /\ srv[s].masterhost # m /\ used.turns < MaxTurns
    /\ link' = Cut({s} \cup Slaves(s))
    /\ srv' = [Closed(srv, Slaves(s)) EXCEPT ![s] = replicationSetMaster(srv[s], m)]
    /\ used' = [used EXCEPT !.turns = @ + 1] /\ UNCHANGED rdb

\* REPLICAOF NO ONE.
ReplicaOfNoOne(s) ==
    /\ srv[s].masterhost # Nobody /\ used.turns < MaxTurns
    /\ link' = Cut({s} \cup Slaves(s))
    /\ srv' = [Closed(srv, Slaves(s)) EXCEPT ![s] = replicationUnsetMaster(srv[s], New)]
    /\ used' = [used EXCEPT !.turns = @ + 1, !.id = New] /\ UNCHANGED rdb

\* The replica has connected, and its PSYNC is answered.
syncCommand(r) ==
    LET m == srv[r].masterhost
        q == Request(srv[r])
        full == WithBacklog(srv[m], New)
    IN /\ srv[r].state = "connect" /\ syncCommandAllowed(srv[m])
       /\ IF masterTryPartialResynchronization(srv[m], q)
          THEN /\ link' = [link EXCEPT ![r] = [to |-> m, chan |-> Continue(srv[m], q)]]
               /\ srv' = [srv EXCEPT ![r].state = "psync"] /\ UNCHANGED used
          ELSE /\ link' = [link EXCEPT ![r] = [to |-> m, chan |-> FullResync(full)]]
               /\ srv' = [srv EXCEPT ![r].state = "psync", ![m] = full]
               /\ used' = [used EXCEPT !.id = IF full.replid = New THEN New ELSE @]
       /\ UNCHANGED rdb

\* The replica reads what its master sent.
Receive(r) ==
    LET msg == Head(link[r].chan)
        rest == [link EXCEPT ![r].chan = Tail(@)]
        alone == [s \in Server |-> IF s \in Slaves(r) THEN NoLink ELSE rest[s]]
        free == Closed(srv, Slaves(r))
    IN /\ link[r].chan # <<>> /\ UNCHANGED <<rdb, used>>
       /\ \/ /\ msg.type = "CONTINUE" /\ msg.replid = srv[r].cached.replid
             /\ srv' = [srv EXCEPT ![r] = slaveContinue(@, msg.replid)] /\ link' = rest
          \/ /\ msg.type = "CONTINUE" /\ msg.replid # srv[r].cached.replid
             /\ srv' = [free EXCEPT ![r] = slaveContinue(@, msg.replid)] /\ link' = alone
          \/ /\ msg.type = "FULLRESYNC"
             /\ srv' = [free EXCEPT ![r] = slaveFullResync(@, msg)] /\ link' = alone
          \/ /\ msg.type = "rdb"
             /\ srv' = [srv EXCEPT ![r] = slaveLoaded(@, msg.data)] /\ link' = rest
          \/ /\ msg.type = "cmd"
             /\ srv' = [srv EXCEPT ![r] = slaveApply(@, msg.cmd)]
             /\ link' = IF srv[r].backlog = None THEN rest ELSE Feed(rest, r, msg)

LoadFails(r) ==
    /\ link[r].chan # <<>> /\ Head(link[r].chan).type = "rdb" /\ used.breaks < MaxBreaks
    /\ srv' = [srv EXCEPT ![r] = slaveLoadFails(@)] /\ link' = Cut({r})
    /\ used' = [used EXCEPT !.breaks = @ + 1] /\ UNCHANGED rdb

\* A connection breaks; what is on its way is lost.
Break(r) ==
    /\ link[r] # NoLink /\ used.breaks < MaxBreaks
    /\ srv' = Closed(srv, {r}) /\ link' = Cut({r})
    /\ used' = [used EXCEPT !.breaks = @ + 1] /\ UNCHANGED rdb

\* A master without replicas frees its backlog after some time.
FreeBacklog(s, new) == freeReplicationBacklog(clearReplicationId2(changeReplicationId(s, new)))
replicationCron(m) ==
    /\ srv[m].masterhost = Nobody /\ srv[m].backlog # None /\ Slaves(m) = {}
    /\ used.breaks < MaxBreaks
    /\ srv' = [srv EXCEPT ![m] = FreeBacklog(@, New)]
    /\ used' = [used EXCEPT !.breaks = @ + 1, !.id = New] /\ UNCHANGED <<link, rdb>>

Save(s) == /\ used.restarts < MaxRestarts /\ rdb' = [rdb EXCEPT ![s] = rdbSave(srv[s])]
           /\ UNCHANGED <<srv, link, used>>

\* A server restarts from its file, with the role it had, or its first one.
Restart(s) ==
    /\ used.restarts < MaxRestarts
    /\ link' = Cut({s} \cup Slaves(s))
    /\ \E host \in {Nobody, srv[s].masterhost} :
          srv' = [Closed(srv, Slaves(s)) EXCEPT ![s] =
                    loadDataFromDisk([initServer(New) EXCEPT !.masterhost = host,
                                        !.state = IF host = Nobody THEN "none" ELSE "connect"], rdb[s])]
    /\ used' = [used EXCEPT !.restarts = @ + 1, !.id = New] /\ UNCHANGED rdb

Stream == \E s \in Server : syncCommand(s) \/ Receive(s)
Next == \/ Stream
        \/ \E s \in Server : \/ Write(s) \/ ReplicaOfNoOne(s) \/ Break(s) \/ LoadFails(s) \/ replicationCron(s)
                             \/ Save(s) \/ Restart(s)
                             \/ \E m \in Server : ReplicaOf(s, m)
Spec == Init /\ [][Next]_vars

----------------------------------------------------------------------------
\* Two servers with the same replication ID and the same offset have the same
\* data ("this slave ... shares the master replication history and has the same
\* backlog and offsets", replicationFeedSlaves): every partial resynchronisation
\* continues the history it claims to continue.
SameHistorySameData ==
    \A a, b \in Server : /\ rdbPopulateSaveInfo(srv[a]) /\ rdbPopulateSaveInfo(srv[b])
                         /\ srv[a].replid = srv[b].replid /\ srv[a].offset = srv[b].offset
                         => srv[a].data = srv[b].data

\* A replica whose connection is up and empty has what its master has.
ReplicaIsCopy ==
    \A r \in Server : srv[r].state = "connected" /\ link[r].chan = <<>>
                      => srv[r].data = srv[link[r].to].data

\* "The slave can increment the master_repl_offset only from data arriving from
\* the master, so if we are disconnected the offset in the cached master is
\* valid" (rdbPopulateSaveInfo).
CachedOffsetIsValid ==
    \A s \in Server : /\ srv[s].cached # None => srv[s].cached = [replid |-> srv[s].replid, reploff |-> srv[s].offset]
                      /\ srv[s].master # None => srv[s].master = [replid |-> srv[s].replid, reploff |-> srv[s].offset]
=============================================================================
