------------------------------ MODULE FullSync ------------------------------
(***************************************************************************)
(* Full resynchronisations on the side of the server that is copied        *)
(* (replication.c, rdb.c): replicas wait for a background save, accumulate *)
(* the differences, receive the file from disk or through their sockets,   *)
(* and go online.  The server is a master, or (Proxy) itself a replica     *)
(* that passes the stream of its master on unchanged.                      *)
(***************************************************************************)
EXTENDS Integers, Sequences

CONSTANTS Replica,
          Eof,         \* replicas with the capability to read a streamed file
          Db,          \* databases, natural numbers
          Proxy,       \* is the server a replica itself?
          MaxWrites, MaxLosses, MaxSaves

VARIABLES m,       \* the server: data, offset, selected database, child, configuration
          slave,   \* its clients that are replicas
          order,   \* the list server.slaves
          rep,     \* the replicas themselves
          count    \* bounds: connections lost, saves started by others

vars == <<m, slave, order, rep, count>>

NoChild == [type |-> "none"]
NoSlave == [state |-> "none", buf |-> <<>>, initial |-> 0, onack |-> FALSE, file |-> [data |-> <<>>, db |-> 0]]
Idle == [state |-> "idle", data |-> <<>>, db |-> 0, off |-> 0]

Loaded(p, file) == [p EXCEPT !.state = "loaded", !.data = file.data, !.db = file.db]

InState(sl, st) == {r \in Replica : sl[r].state = st}

----------------------------------------------------------------------------
(* Full resynchronisation.  A step works on [m, slave, order, rep].        *)

DropAll(x, R) ==
    [x EXCEPT !.slave = [r \in Replica |-> IF r \in R THEN NoSlave ELSE @[r]],
              !.rep = [r \in Replica |-> IF r \in R THEN Idle ELSE @[r]],
              !.order = SelectSeq(@, LAMBDA s : s \notin R)]

\* +FULLRESYNC with the offset of the copy, for one or more replicas; the stream
\* selects its database anew.
replicationSetupSlaveForFullResync(x, R, offset) ==
    [x EXCEPT !.slave = [r \in Replica |->
                            IF r \in R THEN [@[r] EXCEPT !.state = "end", !.initial = offset] ELSE @[r]],
              !.rep = [r \in Replica |->
                            IF r \in R THEN [Idle EXCEPT !.state = "full", !.off = offset] ELSE @[r]],
              !.m.seldb = IF R = {} THEN @ ELSE -1]

SetupAll(x) == replicationSetupSlaveForFullResync(x, InState(x.slave, "start"), x.m.offset)

\* The database of the stream that goes with the file.
rdbPopulateSaveInfo(x) == IF Proxy THEN x.m.db ELSE IF x.m.seldb = -1 THEN 0 ELSE x.m.seldb
Snapshot(x) == [data |-> x.m.data, db |-> rdbPopulateSaveInfo(x)]

\* fork() may fail.
rdbSaveBackground(x) == [x EXCEPT !.m.child = [type |-> "disk", file |-> Snapshot(x)]]

\* The waiting replicas are set up before the fork.
rdbSaveToSlavesSockets(x) ==
    [SetupAll(x) EXCEPT !.m.child = [type |-> "socket", file |-> Snapshot(x), to |-> InState(x.slave, "start")]]

startBgsaveForReplication(x, eof, ok) ==
    IF ~ok \/ x.m.aof \/ x.m.child # NoChild THEN DropAll(x, InState(x.slave, "start"))
    ELSE IF x.m.diskless /\ eof THEN rdbSaveToSlavesSockets(x)
    ELSE SetupAll(rdbSaveBackground(x))

MinCapa(sl) == InState(sl, "start") \subseteq Eof

\* The replica joins the save that another one waits for: it needs what that
\* one has accumulated, and the same offset.
AttachTo(x, r, s) ==
    replicationSetupSlaveForFullResync([x EXCEPT !.slave[r].buf = x.slave[s].buf], {r}, x.slave[s].initial)

\* The first of the replicas in the list that wait for the end of the save.
FirstBusy(x) ==
    {s \in InState(x.slave, "end") :
        \E i \in DOMAIN x.order : x.order[i] = s /\ \A j \in 1..(i - 1) : x.slave[x.order[j]].state # "end"}

syncCommand(x, r, ok) ==
    LET y == [x EXCEPT !.slave[r] = [NoSlave EXCEPT !.state = "start"], !.order = Append(@, r), !.rep[r].state = "wait"]
        joins == {s \in FirstBusy(y) : s \in Eof => r \in Eof}
    IN CASE y.m.child.type = "disk" -> IF joins # {} THEN AttachTo(y, r, CHOOSE s \in joins : TRUE) ELSE y
         [] y.m.child.type = "socket" -> y
         [] y.m.child = NoChild -> IF (y.m.diskless /\ r \in Eof) \/ y.m.aof THEN y
                                   ELSE startBgsaveForReplication(y, r \in Eof, ok)

\* The end of a save, for the replicas that wait for it: the file is sent from
\* the disk, or has come through their sockets already and is loaded.
SaveEnded(x, ok, type, file) ==
    LET R == InState(x.slave, "end")
    IN IF type = "socket"
       THEN [x EXCEPT !.slave = [r \in Replica |->
                                    IF r \in R THEN [@[r] EXCEPT !.state = "online", !.onack = TRUE] ELSE @[r]],
                      !.rep = [r \in Replica |-> IF r \in R THEN Loaded(@[r], file) ELSE @[r]]]
       ELSE IF ~ok THEN DropAll(x, R)
       ELSE [x EXCEPT !.slave = [r \in Replica |->
                                    IF r \in R THEN [@[r] EXCEPT !.state = "bulk", !.file = file] ELSE @[r]]]

updateSlavesWaitingBgsave(x, ok, type, file, again) ==
    LET y == SaveEnded(x, ok, type, file)
    IN IF InState(x.slave, "start") # {} THEN startBgsaveForReplication(y, MinCapa(x.slave), again) ELSE y

\* The child of a streamed file reports which replicas got all of it.
backgroundSaveDoneHandlerSocket(x, good, again) ==
    LET bad == {r \in Replica : x.slave[r].state = "end" /\ r \notin good}
    IN updateSlavesWaitingBgsave(DropAll([x EXCEPT !.m.child = NoChild], bad), good # {}, "socket", x.m.child.file, again)

backgroundSaveDoneHandlerDisk(x, ok, again) ==
    updateSlavesWaitingBgsave([x EXCEPT !.m.child = NoChild], ok, "disk", x.m.child.file, again)

----------------------------------------------------------------------------
(* The stream.                                                             *)

Fed(s, item) == IF s.state \in {"none", "start"} THEN s ELSE [s EXCEPT !.buf = Append(@, item)]

FeedItem(x, item) ==
    [x EXCEPT !.m.offset = @ + 1, !.slave = [r \in Replica |-> Fed(@[r], item)]]

\* A master writes SELECT when the database changes, and then the command.
replicationFeedSlaves(x, d, w) ==
    LET y == IF x.m.seldb # d THEN FeedItem(x, <<"select", d>>) ELSE x
    IN FeedItem([y EXCEPT !.m.seldb = d], <<"write", w>>)

Apply(rec, item) ==
    IF item[1] = "select" THEN [rec EXCEPT !.db = item[2], !.off = @ + 1]
    ELSE [rec EXCEPT !.data = Append(@, <<rec.db, item[2]>>), !.off = @ + 1]

----------------------------------------------------------------------------
Current == [m |-> m, slave |-> slave, order |-> order, rep |-> rep]
Becomes(x) == m' = x.m /\ slave' = x.slave /\ order' = x.order /\ rep' = x.rep

Init == /\ m = [data |-> <<>>, offset |-> 0, seldb |-> -1, db |-> 0, child |-> NoChild, aof |-> FALSE, diskless |-> FALSE]
        /\ slave = [r \in Replica |-> NoSlave] /\ order = <<>>
        /\ rep = [r \in Replica |-> Idle] /\ count = [losses |-> 0, saves |-> 0]

\* A client of a master writes; a replica gets a command of its own master, or
\* a SELECT, and passes it on.
Write(d) ==
    LET w == Len(m.data) + 1
        x == [Current EXCEPT !.m.data = Append(@, <<d, w>>)]
    IN /\ w <= MaxWrites /\ UNCHANGED count
       /\ IF Proxy THEN d = m.db /\ Becomes(FeedItem(x, <<"write", w>>))
          ELSE Becomes(replicationFeedSlaves(x, d, w))
Select(d) == /\ Proxy /\ d # m.db /\ m.offset < 2 * MaxWrites /\ UNCHANGED count
             /\ Becomes(FeedItem([Current EXCEPT !.m.db = d], <<"select", d>>))

Psync(r) == rep[r] = Idle /\ slave[r] = NoSlave /\ UNCHANGED count
            /\ \E ok \in BOOLEAN : (~ok => count.losses < MaxLosses) /\ Becomes(syncCommand(Current, r, ok))

\* A save for another reason: save points, BGSAVE.
Bgsave == /\ m.child = NoChild /\ ~m.aof /\ count.saves < MaxSaves
          /\ Becomes(rdbSaveBackground(Current)) /\ count' = [count EXCEPT !.saves = @ + 1]
RewriteAof == /\ m.child = NoChild /\ ~m.aof /\ count.saves < MaxSaves
              /\ m' = [m EXCEPT !.aof = TRUE] /\ count' = [count EXCEPT !.saves = @ + 1] /\ UNCHANGED <<slave, order, rep>>
RewriteEnds == m.aof /\ m' = [m EXCEPT !.aof = FALSE] /\ UNCHANGED <<slave, order, rep, count>>
ConfigSet == /\ count.saves < MaxSaves /\ m' = [m EXCEPT !.diskless = ~@]
             /\ count' = [count EXCEPT !.saves = @ + 1] /\ UNCHANGED <<slave, order, rep>>

\* The child has ended, well or not.
DiskChildEnds == /\ m.child.type = "disk" /\ UNCHANGED count
                 /\ \E ok \in BOOLEAN : (~ok => count.losses < MaxLosses)
                                        /\ Becomes(backgroundSaveDoneHandlerDisk(Current, ok, TRUE))
SocketChildEnds ==
    /\ m.child.type = "socket" /\ UNCHANGED count
    /\ \E good \in SUBSET m.child.to :
           /\ good # m.child.to => count.losses < MaxLosses
           /\ Becomes(backgroundSaveDoneHandlerSocket(Current, good, TRUE))

\* The file has been sent, and is loaded.
sendBulkToSlave(r) ==
    /\ slave[r].state = "bulk" /\ UNCHANGED <<m, order, count>>
    /\ rep' = [rep EXCEPT ![r] = Loaded(@, slave[r].file)]
    /\ slave' = [slave EXCEPT ![r].state = "online", ![r].file = NoSlave.file]

\* The acknowledgement lets the stream begin after a streamed file.
Ack(r) == /\ slave[r].state = "online" /\ slave[r].onack /\ rep[r].state = "loaded"
          /\ slave' = [slave EXCEPT ![r].onack = FALSE] /\ UNCHANGED <<m, order, rep, count>>

Deliver(r) == /\ slave[r].state = "online" /\ ~slave[r].onack /\ slave[r].buf # <<>>
              /\ rep' = [rep EXCEPT ![r] = Apply(@, Head(slave[r].buf))]
              /\ slave' = [slave EXCEPT ![r].buf = Tail(@)] /\ UNCHANGED <<m, order, count>>

Lose(r) == /\ slave[r] # NoSlave /\ count.losses < MaxLosses
           /\ Becomes(DropAll(Current, {r})) /\ count' = [count EXCEPT !.losses = @ + 1]

\* A bug for comparison: nothing is done for replicas that wait for a stream.
CronForDisk == /\ m.child = NoChild /\ ~m.aof /\ InState(slave, "start") # {} /\ ~m.diskless
               /\ Becomes(startBgsaveForReplication(Current, MinCapa(slave), TRUE)) /\ UNCHANGED count

\* Once a second: a save is started for replicas that still wait for one.
replicationCron == /\ m.child = NoChild /\ ~m.aof /\ InState(slave, "start") # {}
                   /\ Becomes(startBgsaveForReplication(Current, MinCapa(slave), TRUE)) /\ UNCHANGED count

Reads(r) == sendBulkToSlave(r) \/ Ack(r) \/ Deliver(r)
Ends == DiskChildEnds \/ SocketChildEnds \/ RewriteEnds \/ replicationCron
Work == Ends \/ \E r \in Replica : Reads(r)
Next == \/ Work
        \/ \E d \in Db : Write(d) \/ Select(d)
        \/ \E r \in Replica : Psync(r) \/ Lose(r)
        \/ Bgsave \/ RewriteAof \/ ConfigSet
Spec == Init /\ [][Next]_vars

----------------------------------------------------------------------------
\* A replica that loaded the file has at any time a prefix of the server's data,
\* and all of it once it has read its buffer: the file and the differences fit
\* together, in the right databases, for the replica the save was made for and
\* for those that joined it.
ReplicaIsComplete ==
    \A r \in Replica : rep[r].state = "loaded" =>
        /\ rep[r].data = SubSeq(m.data, 1, Len(rep[r].data))
        /\ slave[r].buf = <<>> => rep[r].data = m.data

\* Its offset is the one of the server: a later partial resynchronisation asks
\* for the right bytes.
OffsetIsRight ==
    \A r \in Replica : slave[r].state \in {"end", "bulk", "online"} => rep[r].off + Len(slave[r].buf) = m.offset

\* A streamed file is only sent to replicas that can read it.
StreamIsUnderstood == m.child.type = "socket" => m.child.to \subseteq Eof
=============================================================================
